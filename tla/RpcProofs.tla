----------------------------- MODULE RpcProofs -----------------------------
(***************************************************************************)
(* Proofs about Rpc, for any set of calls and any limit of transfers, and  *)
(* about MCEndpoint, which composes it with Connect.                       *)
(***************************************************************************)
EXTENDS ConnectProofs, FiniteSetTheorems

-----------------------------------------------------------------------------
(* Rpc: the inductive invariant *)

EarlyCalls == {"start", "register", "send", "test", "decided", "blocked", "abort", "notify"}
EarlyReplies == {"none", "test", "decided", "blocked", "notify"}

\* The stages of a large transfer of r from side s: the thread has not announced
\* it, the notification is on its way, the authority is, the write is, the
\* completion is.
Early(s, r) == IF s = "channel" THEN call[r] \in EarlyCalls ELSE reply[r] \in EarlyReplies
Starting(s, r) == IF s = "channel" THEN call[r] = "notify" ELSE reply[r] = "notify"
Notified(s, r) == Msg("NOTIFY", r, TRUE) \in net[Other(s)]
Authorized(s, r) == Msg("AUTHORITY", r, TRUE) \in net[s]

\* A transfer is in one stage at a time, and its frame is kept in the last two.
TransferInv(s, r) ==
    /\ Early(s, r) => ~Notified(s, r) /\ ~Authorized(s, r) /\ r \notin writes[s] /\ r \notin sent[s]
    /\ Notified(s, r) => ~Authorized(s, r) /\ r \notin writes[s] /\ r \notin sent[s]
    /\ Authorized(s, r) => r \notin writes[s] /\ r \notin sent[s]
    /\ r \in writes[s] => r \notin sent[s]
    /\ r \in writes[s] \/ r \in sent[s] => r \in frames[s]

\* The transfers that hold a slot.
Engaged(s) ==
    {r \in Calls : \/ Starting(s, r) \/ Notified(s, r) \/ Authorized(s, r)
                   \/ r \in writes[s] \/ r \in sent[s]}

SlotsInv(s) ==
    /\ IsFiniteSet(Engaged(s))
    /\ Cardinality(Engaged(s)) <= slots[s]
    /\ slots[s] <= kMaxLargeTransfers

\* The request of a call is handled at most once, after it was sent, and answered
\* after that.
Requested(r) == Msg("NORMAL", r, TRUE) \in net["server"]
Coming(r) ==
    Early("channel", r) \/ Notified("channel", r) \/ Authorized("channel", r) \/ r \in writes["channel"]
Answered(r) == \E m \in net["channel"] : m.type = "RESPONSE" /\ m.rpc = r

RequestInv(r) ==
    /\ Requested(r) => reply[r] = "none"
    /\ Coming(r) => reply[r] = "none" /\ ~Requested(r)
    /\ Early("channel", r) => ~Answered(r)

\* A call is pending from RegisterPending until it returns; before it has sent its
\* request only a failure can have ended it.
OutcomeInv(r) ==
    /\ call[r] \in {"start", "register"} => ~done[r] /\ r \notin pending_map
    /\ call[r] = "returned" => r \notin pending_map
    /\ Early("channel", r) /\ done[r] => outcome[r] = "transport"

\* Only a response says whether the call succeeded.
FramesOk == \A s \in Sides : \A m \in net[s] : m.type # "RESPONSE" => m.ok

RpcInv ==
    /\ RpcTypeOK
    /\ FramesOk
    /\ \A s \in Sides : SlotsInv(s) /\ \A r \in Calls : TransferInv(s, r)
    /\ \A r \in Calls : RequestInv(r) /\ OutcomeInv(r)

-----------------------------------------------------------------------------
(* Rpc: messages and stages *)

\* A frame other than a response is determined by its type and its call.
LEMMA FrameIsMsg ==
  ASSUME RpcTypeOK, FramesOk, NEW s \in Sides, NEW m \in net[s], m.type # "RESPONSE"
  PROVE  m = Msg(m.type, m.rpc, TRUE) /\ m.rpc \in Calls
  <1>1. m \in Frame BY Zenon DEF RpcTypeOK
  <1>2. m.ok = TRUE BY <1>1 DEF FramesOk, Frame
  <1>. QED BY <1>1, <1>2, Zenon DEF Frame, Msg

\* A connection has two sides.
LEMMA TwoSides ==
  /\ Sides = {"channel", "server"} /\ Other("channel") = "server" /\ Other("server") = "channel"
  /\ \A s \in Sides : Other(s) \in Sides /\ Other(s) # s /\ Other(Other(s)) = s
  BY Zenon DEF Sides, Other

\* All the frames that a step sends are of one type and of one call, and go to
\* one side; entering a block (INSERT) goes through the network of the model only.
Adds(x, t, q) ==
    \A y \in Sides : \A m \in net'[y] :
        m \in net[y] \/ m.type = "INSERT" \/ (y = x /\ m.type = t /\ m.rpc = q)

\* What StartWrite of a control frame sends.
LEMMA SendAdds ==
  ASSUME RpcTypeOK, NEW s \in Sides, NEW t, NEW q, NEW b, StartWriteFrame(s, Msg(t, q, b))
  PROVE  Adds(Other(s), t, q)
  <1>1. ASSUME NEW y \in Sides PROVE net'[y] = net[y] \/ (y = Other(s) /\ net'[y] = net[y] \cup {Msg(t, q, b)})
    BY TwoSides, Zenon DEF RpcTypeOK, StartWriteFrame
  <1>2. Msg(t, q, b).type = t /\ Msg(t, q, b).rpc = q BY DEF Msg
  <1>. QED BY <1>1, <1>2, Zenon DEF Adds

\* Taking a frame from the network sends none.
LEMMA TakeAdds ==
  ASSUME RpcTypeOK, NEW s \in Sides, NEW m, Take(s, m), NEW x, NEW t, NEW q
  PROVE  Adds(x, t, q)
  <1>1. ASSUME NEW y \in Sides PROVE net'[y] \subseteq net[y] BY DEF RpcTypeOK, Take
  <1>. QED BY <1>1, Zenon DEF Adds

\* Nor does a step that leaves the network alone.
LEMMA SameAdds ==
  ASSUME UNCHANGED net, NEW x, NEW t, NEW q
  PROVE  Adds(x, t, q)
  BY Zenon DEF Adds

\* What the stages of r can then have gained.
Grown(x, t, q, s, r) ==
    /\ Notified(s, r)' => Notified(s, r) \/ (t = "NOTIFY" /\ x = Other(s) /\ r = q)
    /\ Authorized(s, r)' => Authorized(s, r) \/ (t = "AUTHORITY" /\ x = s /\ r = q)
    /\ Requested(r)' => Requested(r) \/ (t = "NORMAL" /\ x = "server" /\ r = q)
    /\ Answered(r)' => Answered(r) \/ (t = "RESPONSE" /\ x = "channel" /\ r = q)

\* A stage that a call has gained is the one whose frame was sent.
LEMMA AddsStages ==
  ASSUME NEW x, NEW t, NEW q, Adds(x, t, q), NEW s \in Sides, NEW r
  PROVE  Grown(x, t, q, s, r)
  <1> USE TwoSides
  <1>1. Notified(s, r)' => Notified(s, r) \/ (t = "NOTIFY" /\ x = Other(s) /\ r = q)
    <2>1. Msg("NOTIFY", r, TRUE).type = "NOTIFY" /\ Msg("NOTIFY", r, TRUE).rpc = r BY DEF Msg
    <2>. QED BY <2>1, Zenon DEF Adds, Notified
  <1>2. Authorized(s, r)' => Authorized(s, r) \/ (t = "AUTHORITY" /\ x = s /\ r = q)
    <2>1. Msg("AUTHORITY", r, TRUE).type = "AUTHORITY" /\ Msg("AUTHORITY", r, TRUE).rpc = r BY DEF Msg
    <2>. QED BY <2>1, Zenon DEF Adds, Authorized
  <1>3. Requested(r)' => Requested(r) \/ (t = "NORMAL" /\ x = "server" /\ r = q)
    <2>1. Msg("NORMAL", r, TRUE).type = "NORMAL" /\ Msg("NORMAL", r, TRUE).rpc = r BY DEF Msg
    <2>. QED BY <2>1, Zenon DEF Adds, Requested
  <1>4. Answered(r)' => Answered(r) \/ (t = "RESPONSE" /\ x = "channel" /\ r = q)
    BY Zenon DEF Adds, Answered
  <1>. QED BY <1>1, <1>2, <1>3, <1>4, Zenon DEF Grown

\* Threads: the thread of q moves from one place to another.
LEMMA CallMoves ==
  ASSUME RpcTypeOK, NEW q \in Calls, NEW to, CallGoto(q, to), UNCHANGED reply,
         to \in EarlyCalls => call[q] \in EarlyCalls, to # "notify",
         NEW s \in Sides, NEW r \in Calls
  PROVE  (Early(s, r)' => Early(s, r)) /\ (Starting(s, r)' => Starting(s, r))
  <1>1. call' = [call EXCEPT ![q] = to] /\ call = [x \in Calls |-> call[x]] BY DEF CallGoto, RpcTypeOK
  <1>. QED BY <1>1, Zenon DEF Early, Starting

\* The same for the thread that replies to q.
LEMMA ReplyMoves ==
  ASSUME RpcTypeOK, NEW q \in Calls, NEW to, reply' = [reply EXCEPT ![q] = to],
         UNCHANGED call, to \in EarlyReplies => reply[q] \in EarlyReplies, to # "notify",
         NEW s \in Sides, NEW r \in Calls
  PROVE  (Early(s, r)' => Early(s, r)) /\ (Starting(s, r)' => Starting(s, r))
  <1>1. reply = [x \in Calls |-> reply[x]] BY DEF RpcTypeOK
  <1>. QED BY <1>1, Zenon DEF Early, Starting

\* No thread moves.
LEMMA ThreadsStay ==
  ASSUME UNCHANGED <<call, reply>>, NEW s, NEW r
  PROVE  (Early(s, r)' <=> Early(s, r)) /\ (Starting(s, r)' <=> Starting(s, r))
  BY Zenon DEF Early, Starting

\* All the threads that sleep on large_cv_ of one side are woken.
LEMMA ThreadsWoken ==
  ASSUME \/ /\ call' = [r \in Calls |-> IF call[r] = "blocked" THEN "test" ELSE call[r]]
            /\ UNCHANGED reply
         \/ /\ reply' = [r \in Calls |-> IF reply[r] = "blocked" THEN "test" ELSE reply[r]]
            /\ UNCHANGED call,
         NEW s, NEW r \in Calls
  PROVE  /\ (Early(s, r)' <=> Early(s, r)) /\ (Starting(s, r)' <=> Starting(s, r))
         /\ reply'[r] = "none" <=> reply[r] = "none"
  BY Zenon DEF Early, Starting, EarlyCalls, EarlyReplies

-----------------------------------------------------------------------------
(* Rpc: how the stages may change *)

LargeInv == \A s \in Sides : SlotsInv(s) /\ \A r \in Calls : TransferInv(s, r)

\* No transfer moves to another stage; some may end.
LEMMA TransferShrinks ==
  ASSUME NEW s, NEW r, TransferInv(s, r), Early(s, r)' => Early(s, r),
         Notified(s, r)' => Notified(s, r), Authorized(s, r)' => Authorized(s, r),
         r \in writes'[s] => r \in writes[s], r \in sent'[s] => r \in sent[s],
         r \in frames[s] => r \in frames'[s] \/ (r \notin writes'[s] /\ r \notin sent'[s])
  PROVE  TransferInv(s, r)'
  BY Zenon DEF TransferInv

\* Slots, when no transfer begins, when one does, and when one ends.
LEMMA SlotsShrink ==
  ASSUME NEW s, SlotsInv(s), Engaged(s)' \subseteq Engaged(s), slots'[s] = slots[s], slots[s] \in Nat
  PROVE  SlotsInv(s)'
  <1>1. /\ IsFiniteSet(Engaged(s)') /\ Cardinality(Engaged(s)') <= Cardinality(Engaged(s))
    BY FS_Subset, Zenon DEF SlotsInv
  <1>2. Cardinality(Engaged(s)) \in Nat /\ Cardinality(Engaged(s)') \in Nat
    BY <1>1, FS_CardinalityType, Zenon DEF SlotsInv
  <1>. QED BY <1>1, <1>2, RpcAssumption DEF SlotsInv

\* A transfer that begins takes a free slot.
LEMMA SlotsBegin ==
  ASSUME NEW s, NEW r, SlotsInv(s), Engaged(s)' \subseteq Engaged(s) \cup {r}, slots[s] \in Nat,
         slots[s] < kMaxLargeTransfers, slots'[s] = slots[s] + 1
  PROVE  SlotsInv(s)'
  <1>1. /\ IsFiniteSet(Engaged(s) \cup {r})
        /\ Cardinality(Engaged(s) \cup {r}) =
              IF r \in Engaged(s) THEN Cardinality(Engaged(s)) ELSE Cardinality(Engaged(s)) + 1
    BY FS_AddElement, Zenon DEF SlotsInv
  <1>2. IsFiniteSet(Engaged(s)') /\ Cardinality(Engaged(s)') <= Cardinality(Engaged(s) \cup {r})
    BY <1>1, FS_Subset, Zenon
  <1>3. Cardinality(Engaged(s)) \in Nat /\ Cardinality(Engaged(s)') \in Nat
    BY <1>2, FS_CardinalityType, Zenon DEF SlotsInv
  <1>. QED BY <1>1, <1>2, <1>3, RpcAssumption DEF SlotsInv

\* A transfer that ends gives its slot back.
LEMMA SlotsEnd ==
  ASSUME NEW s, NEW r \in Engaged(s), SlotsInv(s), Engaged(s)' \subseteq Engaged(s) \ {r},
         slots[s] \in Nat, slots'[s] = slots[s] - 1
  PROVE  SlotsInv(s)' /\ slots'[s] \in Nat
  <1>1. /\ IsFiniteSet(Engaged(s) \ {r})
        /\ Cardinality(Engaged(s) \ {r}) = Cardinality(Engaged(s)) - 1
    BY FS_RemoveElement, Zenon DEF SlotsInv
  <1>2. IsFiniteSet(Engaged(s)') /\ Cardinality(Engaged(s)') <= Cardinality(Engaged(s) \ {r})
    BY <1>1, FS_Subset, Zenon
  <1>3. /\ Cardinality(Engaged(s)) \in Nat /\ Cardinality(Engaged(s)') \in Nat
        /\ Cardinality(Engaged(s) \ {r}) \in Nat
    BY <1>1, <1>2, FS_CardinalityType, Zenon DEF SlotsInv
  <1>. QED BY <1>1, <1>2, <1>3, RpcAssumption DEF SlotsInv

\* A step after which no transfer is in a stage that it was not in before.
StagesShrink ==
    /\ UNCHANGED <<writes, sent, slots>>
    /\ \A s \in Sides :
          /\ frames[s] \subseteq frames'[s]
          /\ \A r \in Calls : /\ Early(s, r)' => Early(s, r)
                              /\ Starting(s, r)' => Starting(s, r)
                              /\ Notified(s, r)' => Notified(s, r)
                              /\ Authorized(s, r)' => Authorized(s, r)

\* A step in which no transfer gains a stage keeps the invariant of transfers.
LEMMA ShrinkKeepsLarge ==
  ASSUME RpcTypeOK, LargeInv, StagesShrink
  PROVE  LargeInv'
  <1>1. ASSUME NEW s \in Sides PROVE SlotsInv(s)'
    <2>1. Engaged(s)' \subseteq Engaged(s) BY Zenon DEF StagesShrink, Engaged
    <2>2. slots[s] \in Nat BY DEF RpcTypeOK
    <2>. QED BY <2>1, <2>2, SlotsShrink, Zenon DEF LargeInv, StagesShrink
  <1>2. ASSUME NEW s \in Sides, NEW r \in Calls PROVE TransferInv(s, r)'
    <2>1. r \in frames[s] => r \in frames'[s] BY Zenon DEF StagesShrink
    <2>. QED BY <2>1, TransferShrinks, Zenon DEF LargeInv, StagesShrink
  <1>. QED BY <1>1, <1>2, Zenon DEF LargeInv

\* A step after which no request is coming, waiting or answered that was not before.
RequestsShrink(r) ==
    /\ Requested(r)' => Requested(r)
    /\ Coming(r)' => Coming(r)
    /\ Early("channel", r)' => Early("channel", r)
    /\ Answered(r)' => Answered(r)
    /\ reply[r] = "none" => reply'[r] = "none"

\* The same for the requests.
LEMMA ShrinkKeepsRequest ==
  ASSUME NEW r, RequestInv(r), RequestsShrink(r)
  PROVE  RequestInv(r)'
  BY Zenon DEF RequestInv, RequestsShrink

\* Both hold of the calls' threads and of the handlers that send nothing.
LEMMA CalmKeeps ==
  ASSUME RpcTypeOK, LargeInv, \A r \in Calls : RequestInv(r),
         NEW x, NEW t, NEW q, Adds(x, t, q), t \notin {"NOTIFY", "AUTHORITY"},
         UNCHANGED <<writes, sent, slots>>, \A s \in Sides : frames[s] \subseteq frames'[s],
         \A s \in Sides : \A r \in Calls : (Early(s, r)' => Early(s, r)) /\ (Starting(s, r)' => Starting(s, r))
  PROVE  /\ LargeInv'
         /\ t = "INSERT" /\ (\A r \in Calls : reply[r] = "none" => reply'[r] = "none")
               => \A r \in Calls : RequestInv(r)'
  <1>1. StagesShrink
    <2>1. \A s \in Sides : \A r \in Calls :
             (Notified(s, r)' => Notified(s, r)) /\ (Authorized(s, r)' => Authorized(s, r))
      <3>1. \A s \in Sides : \A r \in Calls : Grown(x, t, q, s, r) BY AddsStages, Zenon
      <3>. QED BY <3>1, Zenon DEF Grown
    <2>. QED BY <2>1, Zenon DEF StagesShrink
  <1>2. ASSUME t = "INSERT", \A r \in Calls : reply[r] = "none" => reply'[r] = "none", NEW r \in Calls
        PROVE  RequestInv(r)'
    <2>1. (Requested(r)' => Requested(r)) /\ (Answered(r)' => Answered(r))
      <3>1. Grown(x, t, q, "channel", r) BY TwoSides, AddsStages, Zenon
      <3>. QED BY <1>2, <3>1, Zenon DEF Grown
    <2>2. "channel" \in Sides BY TwoSides
    <2>3. Coming(r)' => Coming(r) BY <1>1, <2>2, Zenon DEF Coming, StagesShrink
    <2>. QED BY <1>1, <1>2, <2>1, <2>2, <2>3, ShrinkKeepsRequest, Zenon DEF RequestsShrink, StagesShrink
  <1>. QED BY <1>1, <1>2, ShrinkKeepsLarge, Zenon

-----------------------------------------------------------------------------
(* Rpc: the steps *)

\* The frames: StartWriteFrame, Take and the handlers that send.
LEMMA FramesStep ==
  ASSUME RpcTypeOK, FramesOk, [RpcNext]_rpcVars
  PROVE  net' \in [Sides -> SUBSET Frame] /\ FramesOk'
  <1> USE TwoSides DEF callVars, failureVars, largeVars
  <1>n. net \in [Sides -> SUBSET Frame] BY Zenon DEF RpcTypeOK
  <1>0. CASE UNCHANGED net BY <1>0, <1>n, Zenon DEF FramesOk
  <1>1. ASSUME NEW s \in Sides, NEW m \in Frame, m.type # "RESPONSE" => m.ok, StartWriteFrame(s, m)
        PROVE  net' \in [Sides -> SUBSET Frame] /\ FramesOk'
    <2>1. net' = [net EXCEPT ![Other(s)] = IF up[s] THEN @ \cup {m} ELSE @]
      BY <1>1, Zenon DEF StartWriteFrame
    <2>2. net' \in [Sides -> SUBSET Frame] /\ \A x \in Sides : net'[x] \subseteq net[x] \cup {m}
      BY <1>n, <1>1, <2>1, Zenon
    <2>. QED BY <1>1, <2>2, Zenon DEF FramesOk
  <1>2. ASSUME NEW s \in Sides, NEW m, Take(s, m)
        PROVE  net' \in [Sides -> SUBSET Frame] /\ FramesOk'
    <2>1. net' \in [Sides -> SUBSET Frame] /\ \A x \in Sides : net'[x] \subseteq net[x]
      BY <1>n, <1>2, Zenon DEF Take
    <2>. QED BY <2>1, Zenon DEF FramesOk
  <1>b. ASSUME NEW q \in Calls, NEW t \in {"NORMAL", "NOTIFY", "AUTHORITY", "RESPONSE", "INSERT"}
        PROVE  Msg(t, q, TRUE) \in Frame /\ Msg(t, q, TRUE).ok
    BY Zenon DEF Msg, Frame
  <1>c. ASSUME NEW s \in Sides, NEW q \in Calls, NEW t \in {"NORMAL", "NOTIFY"},
               StartWriteFrame(s, Msg(t, q, TRUE))
        PROVE  net' \in [Sides -> SUBSET Frame] /\ FramesOk'
    <2>1. Msg(t, q, TRUE) \in Frame /\ Msg(t, q, TRUE).ok BY <1>b, <1>c, Zenon
    <2>. QED BY <1>1, <1>c, <2>1, Zenon
  <1>3. ASSUME NEW q \in Calls, CallSend(q) PROVE net' \in [Sides -> SUBSET Frame] /\ FramesOk'
    BY <1>c, <1>3, Zenon DEF CallSend
  <1>4. ASSUME NEW q \in Calls, CallNotify(q) PROVE net' \in [Sides -> SUBSET Frame] /\ FramesOk'
    BY <1>c, <1>4, Zenon DEF CallNotify
  <1>5. ASSUME NEW q \in Calls, ReplyNotify(q) PROVE net' \in [Sides -> SUBSET Frame] /\ FramesOk'
    BY <1>c, <1>5, Zenon DEF ReplyNotify
  <1>6. ASSUME NEW s \in Sides, NEW m \in net[s], HandleNotify(s, m)
        PROVE  net' \in [Sides -> SUBSET Frame] /\ FramesOk'
    <2>1. m.rpc \in Calls BY <1>6, <1>n DEF Frame
    <2>2. Msg("INSERT", m.rpc, TRUE) \in Frame /\ Msg("AUTHORITY", m.rpc, TRUE) \in Frame
      BY <2>1, <1>b, Zenon
    <2>3. Msg("INSERT", m.rpc, TRUE).ok /\ Msg("AUTHORITY", m.rpc, TRUE).ok
      BY <2>1, <1>b, Zenon
    <2>4. net' = [net EXCEPT ![s] = (@ \ {m}) \cup {Msg("INSERT", m.rpc, TRUE)},
                             ![Other(s)] = @ \cup {Msg("AUTHORITY", m.rpc, TRUE)}]
      BY <1>6, Zenon DEF HandleNotify
    <2>5. /\ net' \in [Sides -> SUBSET Frame]
          /\ \A x \in Sides :
                net'[x] \subseteq net[x] \cup {Msg("INSERT", m.rpc, TRUE), Msg("AUTHORITY", m.rpc, TRUE)}
      BY <1>n, <2>2, <2>4, Zenon
    <2>. QED BY <2>3, <2>5, Zenon DEF FramesOk
  <1>7. ASSUME NEW s \in Sides, NEW m \in net[s], NEW b \in BOOLEAN, HandleRequest(m, b)
        PROVE  net' \in [Sides -> SUBSET Frame] /\ FramesOk'
    <2>1. m.rpc \in Calls BY <1>7, <1>n DEF Frame
    <2>2. Msg("RESPONSE", m.rpc, b) \in Frame /\ Msg("RESPONSE", m.rpc, b).type = "RESPONSE"
      BY <2>1, Zenon DEF Msg, Frame
    <2>3. /\ net' \in [Sides -> SUBSET Frame]
          /\ \A x \in Sides : net'[x] \subseteq net[x] \cup {Msg("RESPONSE", m.rpc, b)}
      BY <1>n, <1>7, <2>2 DEF HandleRequest
    <2>. QED BY <2>2, <2>3, Zenon DEF FramesOk
  <1>8. ASSUME NEW s \in Sides, NEW r \in Calls, WriteArrives(s, r)
        PROVE  net' \in [Sides -> SUBSET Frame] /\ FramesOk'
    <2> DEFINE m == Msg(IF s = "channel" THEN "NORMAL" ELSE "RESPONSE", r, TRUE)
    <2>1. m \in Frame /\ m.ok BY <1>b
    <2>2. net' = net \/ net' = [net EXCEPT ![Other(s)] = @ \cup {m}]
      BY <1>8, Zenon DEF WriteArrives
    <2> HIDE DEF m
    <2>3. net' \in [Sides -> SUBSET Frame] /\ \A x \in Sides : net'[x] \subseteq net[x] \cup {m}
      BY <1>n, <2>1, <2>2
    <2>. QED BY <2>1, <2>3, Zenon DEF FramesOk
  <1>9. ASSUME NEW s \in Sides, NEW m \in net[s], HandlerStep(s, m) \/ Lose(s, m)
        PROVE  net' \in [Sides -> SUBSET Frame] /\ FramesOk'
    BY <1>2, <1>6, <1>7, <1>9, Zenon
       DEF HandlerStep, Lose, HandleNotifyNoBlock, HandleNotifyInsert, HandleAuthority, HandleResponse
  <1>10. ASSUME NEW q \in Calls, CallBegin(q) \/ CallTimeout(q) \/ CallStep(q) \/ ReplyStep(q)
         PROVE  net' \in [Sides -> SUBSET Frame] /\ FramesOk'
    BY <1>0, <1>3, <1>4, <1>5, <1>10, Zenon
       DEF CallStep, ReplyStep, CallBegin, CallTimeout, RegisterPending, CallTest, CallSleep,
           CallAbort, CallDone, CallCleanup, ReplyTest, ReplySleep
  <1>11. CASE FailStep BY <1>0, <1>11, Zenon DEF FailStep, ChannelFailed, ChannelFailPending, ServerFailed
  <1>12. ASSUME NEW s \in Sides, Fail(s) PROVE net' \in [Sides -> SUBSET Frame] /\ FramesOk'
    BY <1>0, <1>12, Zenon DEF Fail
  <1>13. ASSUME NEW s \in Sides, NEW r \in Calls, WriteCompletes(s, r)
         PROVE  net' \in [Sides -> SUBSET Frame] /\ FramesOk'
    BY <1>0, <1>13, Zenon DEF WriteCompletes
  <1>14. CASE UNCHANGED rpcVars BY <1>0, <1>14, Zenon DEF rpcVars
  <1>. QED
    BY <1>8, <1>9, <1>10, <1>11, <1>12, <1>13, <1>14, Zenon DEF RpcNext

\* Everything but the frames and the slots keeps its type.
StateTypes ==
    /\ up \in [Sides -> BOOLEAN] /\ failing \in [Sides -> {"no", "lock", "scan", "over"}]
    /\ connection_error \in BOOLEAN /\ closed \in BOOLEAN
    /\ pending_map \subseteq Calls /\ done \in [Calls -> BOOLEAN]
    /\ outcome \in [Calls -> {"none", "ok", "error", "timeout", "transport"}]
    /\ call \in [Calls -> {"start", "register", "send", "test", "decided", "blocked", "abort",
                           "notify", "wait", "cleanup", "returned"}]
    /\ reply \in [Calls -> {"none", "test", "decided", "blocked", "notify", "over"}]
    /\ largeLock \in [Sides -> Calls \cup {Nobody}]
    /\ frames \in [Sides -> SUBSET Calls] /\ blocks \in [Sides -> SUBSET Calls]
    /\ writes \in [Sides -> SUBSET Calls] /\ sent \in [Sides -> SUBSET Calls]

\* Every step keeps these types.
LEMMA StateTypesStep ==
  ASSUME RpcTypeOK, [RpcNext]_rpcVars
  PROVE  StateTypes'
  <1> USE DEF callVars, failureVars, largeVars, StateTypes, CallGoto
  <1>t. StateTypes BY Zenon DEF RpcTypeOK
  <1>m. \A s \in Sides : \A m \in net[s] : m.rpc \in Calls BY DEF RpcTypeOK, Frame
  <1>s. "channel" \in Sides /\ "server" \in Sides BY DEF Sides
  <1>0. CASE UNCHANGED rpcVars BY <1>0, <1>t, Zenon DEF rpcVars
  <1>1. ASSUME NEW q \in Calls, CallBegin(q) PROVE StateTypes'
    BY <1>1, <1>t, <1>s DEF CallBegin
  <1>2. ASSUME NEW q \in Calls, RegisterPending(q) PROVE StateTypes'
    BY <1>2, <1>t, <1>s DEF RegisterPending
  <1>3. ASSUME NEW q \in Calls, CallSend(q) PROVE StateTypes'
    BY <1>3, <1>t, <1>s DEF CallSend
  <1>4. ASSUME NEW q \in Calls, CallTest(q) PROVE StateTypes'
    BY <1>4, <1>t, <1>s DEF CallTest
  <1>5. ASSUME NEW q \in Calls, CallSleep(q) PROVE StateTypes'
    BY <1>5, <1>t, <1>s, Zenon DEF CallSleep
  <1>6. ASSUME NEW q \in Calls, CallAbort(q) PROVE StateTypes'
    BY <1>6, <1>t, <1>s, Zenon DEF CallAbort, Abort
  <1>7. ASSUME NEW q \in Calls, CallNotify(q) PROVE StateTypes'
    BY <1>7, <1>t, <1>s, Zenon DEF CallNotify
  <1>8. ASSUME NEW q \in Calls, CallDone(q) PROVE StateTypes'
    BY <1>8, <1>t, <1>s, Zenon DEF CallDone
  <1>9. ASSUME NEW q \in Calls, CallTimeout(q) PROVE StateTypes'
    BY <1>9, <1>t, <1>s, Zenon DEF CallTimeout
  <1>10. ASSUME NEW q \in Calls, CallCleanup(q) PROVE StateTypes'
    BY <1>10, <1>t, <1>s, Zenon DEF CallCleanup, CleanupFrames
  <1>11. ASSUME NEW q \in Calls, ReplyTest(q) PROVE StateTypes'
    BY <1>11, <1>t, <1>s DEF ReplyTest
  <1>12. ASSUME NEW q \in Calls, ReplySleep(q) PROVE StateTypes'
    BY <1>12, <1>t, <1>s, Zenon DEF ReplySleep
  <1>13. ASSUME NEW q \in Calls, ReplyNotify(q) PROVE StateTypes'
    BY <1>13, <1>t, <1>s DEF ReplyNotify
  <1>14. ASSUME NEW s \in Sides, NEW m \in net[s], HandleNotify(s, m) \/ HandleNotifyNoBlock(s, m) PROVE StateTypes'
    BY <1>14, <1>t, <1>s, <1>m, Zenon DEF HandleNotify, HandleNotifyNoBlock
  <1>15. ASSUME NEW s \in Sides, NEW m \in net[s], HandleNotifyInsert(s, m) PROVE StateTypes'
    BY <1>15, <1>t, <1>s, <1>m DEF HandleNotifyInsert
  <1>16. ASSUME NEW s \in Sides, NEW m \in net[s], NEW b \in BOOLEAN, HandleAuthority(s, m, b) PROVE StateTypes'
    BY <1>16, <1>t, <1>s, <1>m DEF HandleAuthority, LargeTransferComplete
  <1>17. ASSUME NEW s \in Sides, NEW m \in net[s], NEW b \in BOOLEAN, HandleRequest(m, b) PROVE StateTypes'
    BY <1>17, <1>t, <1>s, <1>m DEF HandleRequest
  <1>18. ASSUME NEW s \in Sides, NEW m \in net[s], HandleResponse(m) PROVE StateTypes'
    BY <1>18, <1>t, <1>s, <1>m, Zenon DEF HandleResponse
  <1>19. ASSUME NEW s \in Sides, NEW m \in net[s], Lose(s, m) PROVE StateTypes'
    BY <1>19, <1>t, <1>s, <1>m, Zenon DEF Lose
  <1>20. ASSUME NEW s \in Sides, NEW r \in Calls, WriteArrives(s, r) PROVE StateTypes'
    <2>1. UNCHANGED <<up, failing, connection_error, closed, pending_map, done, outcome, call, reply,
                      largeLock, frames>>
      BY <1>20, Zenon DEF WriteArrives
    <2>2. writes' \in [Sides -> SUBSET Calls] /\ sent' \in [Sides -> SUBSET Calls]
      BY <1>20, <1>t, Zenon DEF WriteArrives
    <2>3. blocks' = blocks \/ blocks' = [blocks EXCEPT ![Other(s)] = @ \ {r}]
      BY <1>20, Zenon DEF WriteArrives
    <2>4. blocks' \in [Sides -> SUBSET Calls] BY <1>t, <2>3
    <2>. QED BY <1>t, <2>1, <2>2, <2>4, Zenon
  <1>21. ASSUME NEW s \in Sides, NEW r \in Calls, WriteCompletes(s, r) PROVE StateTypes'
    BY <1>21, <1>t, <1>s DEF WriteCompletes, LargeTransferComplete
  <1>22. ASSUME NEW s \in Sides, Fail(s) PROVE StateTypes'
    BY <1>22, <1>t, <1>s, Zenon DEF Fail
  <1>23. ASSUME ChannelFailed PROVE StateTypes'
    BY <1>23, <1>t, <1>s, Zenon DEF ChannelFailed
  <1>24. ASSUME ChannelFailPending PROVE StateTypes'
    BY <1>24, <1>t, <1>s, Zenon DEF ChannelFailPending
  <1>25. ASSUME ServerFailed PROVE StateTypes'
    BY <1>25, <1>t, <1>s, Zenon DEF ServerFailed
  <1>. QED
    BY <1>0, <1>1, <1>2, <1>3, <1>4, <1>5, <1>6, <1>7, <1>8, <1>9, <1>10, <1>11, <1>12, <1>13, <1>14, <1>15, <1>16, <1>17, <1>18, <1>19, <1>20, <1>21, <1>22, <1>23, <1>24, <1>25, Zenon
       DEF RpcNext, CallStep, ReplyStep, HandlerStep, FailStep

-----------------------------------------------------------------------------
(* Rpc: the steps that begin, move and end no transfer *)

StagesInv == LargeInv /\ \A r \in Calls : RequestInv(r)

\* The thread of a call moves on and sends nothing.
LEMMA CalmCall ==
  ASSUME RpcTypeOK, StagesInv, NEW q \in Calls, NEW to, CallGoto(q, to), to # "notify",
         to \in EarlyCalls => call[q] \in EarlyCalls,
         UNCHANGED <<reply, net, slots, frames, writes, sent>>
  PROVE  StagesInv'
  <1>1. \A s \in Sides : \A r \in Calls : (Early(s, r)' => Early(s, r)) /\ (Starting(s, r)' => Starting(s, r))
    BY CallMoves, Zenon
  <1>2. \A s \in Sides : frames[s] \subseteq frames'[s] BY Zenon
  <1>3. Adds("server", "INSERT", q) BY SameAdds, Zenon
  <1>. QED BY <1>1, <1>2, <1>3, CalmKeeps, Zenon DEF StagesInv

\* The thread of a response does.
LEMMA CalmReply ==
  ASSUME RpcTypeOK, StagesInv, NEW q \in Calls, NEW to, reply' = [reply EXCEPT ![q] = to], to # "notify",
         to \in EarlyReplies => reply[q] \in EarlyReplies, reply[q] # "none",
         UNCHANGED <<call, net, slots, frames, writes, sent>>
  PROVE  StagesInv'
  <1>1. \A s \in Sides : \A r \in Calls : (Early(s, r)' => Early(s, r)) /\ (Starting(s, r)' => Starting(s, r))
    BY ReplyMoves, Zenon
  <1>2. \A s \in Sides : frames[s] \subseteq frames'[s] BY Zenon
  <1>3. Adds("server", "INSERT", q) BY SameAdds, Zenon
  <1>4. \A r \in Calls : reply[r] = "none" => reply'[r] = "none" BY DEF RpcTypeOK
  <1>. QED BY <1>1, <1>2, <1>3, <1>4, CalmKeeps, Zenon DEF StagesInv

\* A frame is taken and no thread moves.
LEMMA CalmTake ==
  ASSUME RpcTypeOK, StagesInv, NEW s \in Sides, NEW m, Take(s, m),
         UNCHANGED <<call, reply, slots, frames, writes, sent>>
  PROVE  StagesInv'
  <1>1. \A x \in Sides : \A r \in Calls : (Early(x, r)' => Early(x, r)) /\ (Starting(x, r)' => Starting(x, r))
    BY ThreadsStay, Zenon
  <1>2. \A x \in Sides : frames[x] \subseteq frames'[x] BY Zenon
  <1>3. Adds("server", "INSERT", m) BY TakeAdds, Zenon
  <1>. QED BY <1>1, <1>2, <1>3, CalmKeeps, Zenon DEF StagesInv

\* The threads asleep on one side are woken, or none moves.
LEMMA CalmWoken ==
  ASSUME RpcTypeOK, StagesInv,
         \A s \in Sides : \A r \in Calls : /\ (Early(s, r)' <=> Early(s, r)) /\ (Starting(s, r)' <=> Starting(s, r))
                                           /\ reply'[r] = "none" <=> reply[r] = "none",
         UNCHANGED <<net, slots, frames, writes, sent>>
  PROVE  StagesInv'
  <1>1. \A x \in Sides : \A r \in Calls : (Early(x, r)' => Early(x, r)) /\ (Starting(x, r)' => Starting(x, r))
    BY Zenon
  <1>2. \A x \in Sides : frames[x] \subseteq frames'[x] BY Zenon
  <1>3. Adds("server", "INSERT", "server") BY SameAdds, Zenon
  <1>4. \A r \in Calls : reply[r] = "none" => reply'[r] = "none" BY TwoSides, Zenon
  <1>5. "INSERT" \notin {"NOTIFY", "AUTHORITY"} /\ UNCHANGED <<writes, sent, slots>> OBVIOUS
  <1>. QED BY <1>1, <1>2, <1>3, <1>4, <1>5, CalmKeeps, ZenonT(30) DEF StagesInv

\* The steps of a call that only move its thread.
LEMMA CallCalm ==
  ASSUME RpcTypeOK, StagesInv, NEW q \in Calls,
         \/ CallBegin(q) \/ RegisterPending(q) \/ CallSleep(q) \/ CallAbort(q) \/ CallDone(q)
         \/ CallTimeout(q) \/ CallCleanup(q)
  PROVE  StagesInv'
  <1> USE DEF largeVars
  <1>1. CASE CallBegin(q)
    <2>1. call[q] = "start" /\ UNCHANGED <<reply, net, slots, frames, writes, sent>> BY <1>1, Zenon DEF CallBegin
    <2>2. CallGoto(q, "register") \/ CallGoto(q, "returned") BY <1>1, Zenon DEF CallBegin
    <2>3. call[q] \in EarlyCalls /\ "returned" \notin EarlyCalls BY <2>1 DEF EarlyCalls
    <2>. QED BY <2>1, <2>2, <2>3, CalmCall, Zenon
  <1>2. CASE RegisterPending(q)
    <2>1. call[q] = "register" /\ UNCHANGED <<reply, net, slots, frames, writes, sent>>
      BY <1>2, Zenon DEF RegisterPending
    <2>2. CallGoto(q, "test") \/ CallGoto(q, "send") \/ CallGoto(q, "returned") BY <1>2, Zenon DEF RegisterPending
    <2>3. call[q] \in EarlyCalls /\ "returned" \notin EarlyCalls BY <2>1 DEF EarlyCalls
    <2>. QED BY <2>1, <2>2, <2>3, CalmCall, Zenon
  <1>3. CASE CallSleep(q)
    <2>1. call[q] = "decided" /\ CallGoto(q, "blocked") /\ UNCHANGED <<reply, net, slots, frames, writes, sent>>
      BY <1>3, Zenon DEF CallSleep
    <2>2. call[q] \in EarlyCalls BY <2>1 DEF EarlyCalls
    <2>. QED BY <2>1, <2>2, CalmCall, Zenon
  <1>4. CASE CallAbort(q)
    <2>1. CallGoto(q, "returned") /\ UNCHANGED <<reply, net, slots, frames, writes, sent>> BY <1>4, Zenon DEF CallAbort
    <2>2. "returned" \notin EarlyCalls BY DEF EarlyCalls
    <2>. QED BY <2>1, <2>2, CalmCall, Zenon
  <1>5. CASE CallDone(q) \/ CallTimeout(q)
    <2>1. CallGoto(q, "cleanup") /\ UNCHANGED <<reply, net, slots, frames, writes, sent>>
      BY <1>5, Zenon DEF CallDone, CallTimeout
    <2>2. "cleanup" \notin EarlyCalls BY DEF EarlyCalls
    <2>. QED BY <2>1, <2>2, CalmCall, Zenon
  <1>6. CASE CallCleanup(q)
    <2>1. CallGoto(q, "returned") /\ UNCHANGED <<reply, net, slots, frames, writes, sent>>
      BY <1>6, Zenon DEF CallCleanup, CleanupFrames
    <2>2. "returned" \notin EarlyCalls BY DEF EarlyCalls
    <2>. QED BY <2>1, <2>2, CalmCall, Zenon
  <1>. QED BY <1>1, <1>2, <1>3, <1>4, <1>5, <1>6, Zenon

\* The handlers that start nothing, the failures, and a stutter.
LEMMA HandlerCalm ==
  ASSUME RpcTypeOK, StagesInv, NEW s \in Sides, NEW m \in net[s],
         HandleNotifyNoBlock(s, m) \/ HandleNotifyInsert(s, m) \/ HandleResponse(m) \/ Lose(s, m)
  PROVE  StagesInv'
  <1>1. "channel" \in Sides BY TwoSides
  <1>2. UNCHANGED <<call, reply, slots, frames, writes, sent>> /\ \E x \in Sides : Take(x, m)
    BY <1>1, Zenon DEF HandleNotifyNoBlock, HandleNotifyInsert, HandleResponse, Lose, callVars, largeVars
  <1>. QED BY <1>2, CalmTake, Zenon

\* The steps of a failing endpoint.
LEMMA FailureCalm ==
  ASSUME RpcTypeOK, StagesInv, FailStep \/ (\E s \in Sides : Fail(s)) \/ UNCHANGED rpcVars
  PROVE  StagesInv'
  <1> USE DEF callVars, largeVars
  <1>1. CASE UNCHANGED <<call, reply, net, slots, frames, writes, sent>>
    BY <1>1, ThreadsStay, CalmWoken, Zenon
  <1>2. CASE ChannelFailed
    <2>1. UNCHANGED <<reply, net, slots, frames, writes, sent>>
          /\ call' = [r \in Calls |-> IF call[r] = "blocked" THEN "test" ELSE call[r]]
      BY <1>2, Zenon DEF ChannelFailed
    <2>. QED BY <2>1, ThreadsWoken, CalmWoken, Zenon
  <1>3. CASE ServerFailed
    <2>1. UNCHANGED <<call, net, slots, frames, writes, sent>>
          /\ reply' = [r \in Calls |-> IF reply[r] = "blocked" THEN "test" ELSE reply[r]]
      BY <1>3, Zenon DEF ServerFailed
    <2>. QED BY <2>1, ThreadsWoken, CalmWoken, Zenon
  <1>. QED BY <1>1, <1>2, <1>3, Zenon DEF FailStep, ChannelFailPending, Fail, rpcVars

-----------------------------------------------------------------------------
(* Rpc: the steps that begin, move and end a transfer *)

\* CallSend: a small request is sent.
LEMMA SendStages ==
  ASSUME RpcTypeOK, StagesInv, NEW q \in Calls, CallSend(q)
  PROVE  StagesInv'
  <1>0. "channel" \in Sides /\ Other("channel") = "server" BY TwoSides
  <1>1. /\ call[q] = "send" /\ UNCHANGED <<reply, slots, frames, writes, sent>>
        /\ StartWriteFrame("channel", Msg("NORMAL", q, TRUE))
    BY Zenon DEF CallSend, largeVars
  <1>2. PICK to \in {"wait", "returned"} : CallGoto(q, to) BY Zenon DEF CallSend
  <1>3. call[q] \in EarlyCalls /\ to \notin EarlyCalls /\ to # "notify" BY <1>1, <1>2 DEF EarlyCalls
  <1>4. \A s \in Sides : \A r \in Calls : (Early(s, r)' => Early(s, r)) /\ (Starting(s, r)' => Starting(s, r))
    BY <1>1, <1>2, <1>3, CallMoves, Zenon
  <1>5. Adds("server", "NORMAL", q) BY <1>0, <1>1, SendAdds
  <1>6. LargeInv' BY <1>1, <1>4, <1>5, CalmKeeps, Zenon DEF StagesInv
  <1>7. ASSUME NEW r \in Calls, r # q PROVE RequestInv(r)'
    <2>1. /\ (Requested(r)' => Requested(r)) /\ (Answered(r)' => Answered(r))
          /\ (Notified("channel", r)' => Notified("channel", r))
          /\ (Authorized("channel", r)' => Authorized("channel", r))
      <3>1. Grown("server", "NORMAL", q, "channel", r) BY <1>0, <1>5, AddsStages, Zenon
      <3>. QED BY <1>7, <3>1, Zenon DEF Grown
    <2>2. Coming(r)' => Coming(r) BY <1>0, <1>1, <1>4, <2>1, Zenon DEF Coming
    <2>. QED BY <1>0, <1>1, <1>4, <2>1, <2>2, ShrinkKeepsRequest, Zenon DEF RequestsShrink, StagesInv
  <1>8. RequestInv(q)'
    <2>1. Early("channel", q) BY <1>3, Zenon DEF Early
    <2>2. ~Early("channel", q)'
      <3>1. call'[q] = to BY <1>2 DEF CallGoto, RpcTypeOK
      <3>. QED BY <1>3, <3>1, Zenon DEF Early
    <2>3. /\ ~Notified("channel", q) /\ ~Authorized("channel", q) /\ q \notin writes["channel"]
      BY <1>0, <2>1, Zenon DEF StagesInv, LargeInv, TransferInv
    <2>4. ~Notified("channel", q)' /\ ~Authorized("channel", q)'
      <3>1. Grown("server", "NORMAL", q, "channel", q) BY <1>0, <1>5, AddsStages, Zenon
      <3>. QED BY <2>3, <3>1, Zenon DEF Grown
    <2>5. ~Coming(q)' BY <1>1, <2>2, <2>3, <2>4, Zenon DEF Coming
    <2>6. Coming(q) BY <2>1, Zenon DEF Coming
    <2>. QED BY <1>1, <2>2, <2>5, <2>6, Zenon DEF StagesInv, RequestInv
  <1>. QED BY <1>6, <1>7, <1>8, Zenon DEF StagesInv

\* A thread about to announce has not announced.
LEMMA StartingIsEarly ==
  ASSUME NEW s, NEW r, Starting(s, r)
  PROVE  Early(s, r)
  BY Zenon DEF Starting, Early, EarlyCalls, EarlyReplies

\* StartLargeTransfer: one more transfer has a slot.
LEMMA SlotTaken ==
  ASSUME RpcTypeOK, StagesInv, NEW s \in Sides, NEW q \in Calls,
         slots[s] < kMaxLargeTransfers, slots' = [slots EXCEPT ![s] = @ + 1],
         UNCHANGED <<net, frames, writes, sent>>,
         \A x \in Sides : \A r \in Calls : /\ Early(x, r)' => Early(x, r)
                                           /\ Starting(x, r)' => Starting(x, r) \/ (x = s /\ r = q),
         \A r \in Calls : reply[r] = "none" => reply'[r] = "none"
  PROVE  StagesInv'
  <1>t. slots \in [Sides -> Nat] BY DEF RpcTypeOK
  <1>1. \A x, r : (Notified(x, r)' <=> Notified(x, r)) /\ (Authorized(x, r)' <=> Authorized(x, r))
                  /\ (Requested(r)' <=> Requested(r)) /\ (Answered(r)' <=> Answered(r))
    BY Zenon DEF Notified, Authorized, Requested, Answered
  <1>2. ASSUME NEW x \in Sides, NEW r \in Calls PROVE TransferInv(x, r)'
    BY <1>1, TransferShrinks, Zenon DEF StagesInv, LargeInv
  <1>3. ASSUME NEW r \in Calls PROVE RequestInv(r)'
    <2>1. "channel" \in Sides BY TwoSides
    <2>2. Coming(r)' => Coming(r) BY <1>1, <2>1, Zenon DEF Coming
    <2>. QED BY <1>1, <2>1, <2>2, ShrinkKeepsRequest, Zenon DEF RequestsShrink, StagesInv
  <1>4. SlotsInv(s)'
    <2>1. Engaged(s)' \subseteq Engaged(s) \cup {q} BY <1>1, Zenon DEF Engaged
    <2>2. slots[s] \in Nat /\ slots'[s] = slots[s] + 1 BY <1>t
    <2>. QED BY <2>1, <2>2, SlotsBegin, Zenon DEF StagesInv, LargeInv
  <1>5. ASSUME NEW x \in Sides, x # s PROVE SlotsInv(x)'
    <2>1. Engaged(x)' \subseteq Engaged(x) BY <1>1, <1>5, Zenon DEF Engaged
    <2>2. slots[x] \in Nat /\ slots'[x] = slots[x] BY <1>t, <1>5
    <2>. QED BY <2>1, <2>2, SlotsShrink, Zenon DEF StagesInv, LargeInv
  <1>. QED BY <1>2, <1>3, <1>4, <1>5, Zenon DEF StagesInv, LargeInv

\* WaitForLargeWritable of a call, and of a response.
LEMMA TestStages ==
  ASSUME RpcTypeOK, StagesInv, NEW q \in Calls, CallTest(q) \/ ReplyTest(q) \/ ReplySleep(q)
  PROVE  StagesInv'
  <1>s. "channel" \in Sides /\ "server" \in Sides BY TwoSides
  <1>1. CASE CallTest(q)
    <2>1. call[q] = "test" /\ UNCHANGED <<reply, net, frames, writes, sent>> BY <1>1, Zenon DEF CallTest
    <2>2. call[q] \in EarlyCalls BY <2>1 DEF EarlyCalls
    <2>3. CASE UNCHANGED slots /\ (CallGoto(q, "abort") \/ CallGoto(q, "decided"))
      BY <2>1, <2>2, <2>3, CalmCall, Zenon
    <2>4. CASE CanStartLargeTransfer("channel") /\ StartLargeTransfer("channel") /\ CallGoto(q, "notify")
      <3>1. call' = [call EXCEPT ![q] = "notify"] /\ call = [x \in Calls |-> call[x]]
        BY <2>4, Zenon DEF CallGoto, RpcTypeOK
      <3>2. \A x \in Sides : \A r \in Calls :
                /\ Early(x, r)' => Early(x, r)
                /\ Starting(x, r)' => Starting(x, r) \/ (x = "channel" /\ r = q)
        BY <2>1, <2>2, <3>1, Zenon DEF Early, Starting
      <3>3. slots["channel"] < kMaxLargeTransfers /\ slots' = [slots EXCEPT !["channel"] = @ + 1]
        BY <2>4, Zenon DEF CanStartLargeTransfer, StartLargeTransfer
      <3>4. \A r \in Calls : reply[r] = "none" => reply'[r] = "none" BY <2>1, Zenon
      <3>. QED BY <1>s, <2>1, <3>2, <3>3, <3>4, SlotTaken, Zenon
    <2>. QED BY <1>1, <2>3, <2>4, Zenon DEF CallTest
  <1>2. CASE ReplyTest(q)
    <2>1. reply[q] = "test" /\ UNCHANGED <<call, net, frames, writes, sent>>
      BY <1>2, Zenon DEF ReplyTest, callVars
    <2>2. reply[q] \in EarlyReplies /\ reply[q] # "none" /\ "over" \notin EarlyReplies BY <2>1 DEF EarlyReplies
    <2>3. CASE UNCHANGED slots /\ (reply' = [reply EXCEPT ![q] = "over"] \/ reply' = [reply EXCEPT ![q] = "decided"])
      BY <2>1, <2>2, <2>3, CalmReply, Zenon
    <2>4. CASE CanStartLargeTransfer("server") /\ StartLargeTransfer("server") /\ reply' = [reply EXCEPT ![q] = "notify"]
      <3>1. reply = [x \in Calls |-> reply[x]] BY DEF RpcTypeOK
      <3>2. \A x \in Sides : \A r \in Calls :
                /\ Early(x, r)' => Early(x, r)
                /\ Starting(x, r)' => Starting(x, r) \/ (x = "server" /\ r = q)
        BY <2>1, <2>2, <2>4, <3>1, TwoSides, Zenon DEF Early, Starting
      <3>3. slots["server"] < kMaxLargeTransfers /\ slots' = [slots EXCEPT !["server"] = @ + 1]
        BY <2>4, Zenon DEF CanStartLargeTransfer, StartLargeTransfer
      <3>4. \A r \in Calls : reply[r] = "none" => reply'[r] = "none" BY <2>2, <2>4, <3>1
      <3>. QED BY <1>s, <2>1, <3>2, <3>3, <3>4, SlotTaken, Zenon
    <2>. QED BY <1>2, <2>3, <2>4, Zenon DEF ReplyTest
  <1>3. CASE ReplySleep(q)
    <2>1. /\ reply[q] = "decided" /\ reply' = [reply EXCEPT ![q] = "blocked"]
          /\ UNCHANGED <<call, net, slots, frames, writes, sent>>
      BY <1>3, Zenon DEF ReplySleep, callVars
    <2>2. reply[q] \in EarlyReplies /\ reply[q] # "none" BY <2>1 DEF EarlyReplies
    <2>. QED BY <2>1, <2>2, CalmReply, Zenon
  <1>. QED BY <1>1, <1>2, <1>3, Zenon

\* A transfer that has a slot is announced.
LEMMA Announced ==
  ASSUME RpcTypeOK, StagesInv, NEW s \in Sides, NEW q \in Calls, Starting(s, q), ~Early(s, q)',
         Adds(Other(s), "NOTIFY", q), UNCHANGED <<writes, sent, slots>>,
         \A x \in Sides : frames[x] \subseteq frames'[x],
         \A x \in Sides : \A r \in Calls : (Early(x, r)' => Early(x, r)) /\ (Starting(x, r)' => Starting(x, r)),
         \A r \in Calls : reply[r] = "none" => reply'[r] = "none"
  PROVE  StagesInv'
  <1>e. Early(s, q) BY StartingIsEarly, Zenon
  <1>c. "channel" \in Sides BY TwoSides
  <1>1. ASSUME NEW x \in Sides, NEW r \in Calls
        PROVE  /\ Notified(x, r)' => Notified(x, r) \/ (x = s /\ r = q)
               /\ Authorized(x, r)' => Authorized(x, r)
               /\ Requested(r)' => Requested(r)
               /\ Answered(r)' => Answered(r)
    <2>1. Grown(Other(s), "NOTIFY", q, x, r) BY <1>1, AddsStages, Zenon
    <2>2. Other(s) = Other(x) => x = s BY <1>1, TwoSides
    <2>. QED BY <2>1, <2>2, Zenon DEF Grown
  <1>2. ASSUME NEW x \in Sides PROVE SlotsInv(x)'
    <2>1. q \in Engaged(s) BY Zenon DEF Engaged
    <2>2. Engaged(x)' \subseteq Engaged(x) BY <1>1, <2>1, Zenon DEF Engaged
    <2>3. slots[x] \in Nat BY DEF RpcTypeOK
    <2>. QED BY <2>2, <2>3, SlotsShrink, Zenon DEF StagesInv, LargeInv
  <1>3. ASSUME NEW x \in Sides, NEW r \in Calls PROVE TransferInv(x, r)'
    <2>1. TransferInv(x, r) /\ (r \in frames[x] => r \in frames'[x]) BY Zenon DEF StagesInv, LargeInv
    <2>2. CASE x = s /\ r = q BY <1>1, <1>e, <2>1, <2>2, Zenon DEF TransferInv
    <2>3. CASE ~(x = s /\ r = q) BY <1>1, <2>1, <2>3, TransferShrinks, Zenon
    <2>. QED BY <2>2, <2>3, Zenon
  <1>4. ASSUME NEW r \in Calls PROVE RequestInv(r)'
    <2>1. Coming(r)' => Coming(r) BY <1>1, <1>c, <1>e, Zenon DEF Coming
    <2>. QED BY <1>1, <1>c, <2>1, ShrinkKeepsRequest, Zenon DEF RequestsShrink, StagesInv
  <1>. QED BY <1>2, <1>3, <1>4, Zenon DEF StagesInv, LargeInv

\* The two threads that announce a transfer with NOTIFY.
LEMMA NotifyStages ==
  ASSUME RpcTypeOK, StagesInv, NEW q \in Calls, CallNotify(q) \/ ReplyNotify(q)
  PROVE  StagesInv'
  <1>s. "channel" \in Sides /\ "server" \in Sides BY TwoSides
  <1>1. CASE CallNotify(q)
    <2>1. /\ call[q] = "notify" /\ CallGoto(q, "wait") /\ UNCHANGED <<reply, slots, writes, sent>>
          /\ StartWriteFrame("channel", Msg("NOTIFY", q, TRUE))
          /\ frames' = [frames EXCEPT !["channel"] = @ \cup {q}]
      BY <1>1, Zenon DEF CallNotify
    <2>2. "wait" \notin EarlyCalls BY DEF EarlyCalls
    <2>3. \A x \in Sides : \A r \in Calls : (Early(x, r)' => Early(x, r)) /\ (Starting(x, r)' => Starting(x, r))
      BY <2>1, <2>2, CallMoves, Zenon
    <2>4. Starting("channel", q) BY <2>1 DEF Starting
    <2>5. ~Early("channel", q)'
      <3>1. call'[q] = "wait" BY <2>1 DEF CallGoto, RpcTypeOK
      <3>. QED BY <2>2, <3>1, Zenon DEF Early
    <2>6. \A x \in Sides : frames[x] \subseteq frames'[x] BY <2>1 DEF RpcTypeOK
    <2>7. Adds(Other("channel"), "NOTIFY", q) BY <1>s, <2>1, SendAdds, Zenon
    <2>8. \A r \in Calls : reply[r] = "none" => reply'[r] = "none" BY <2>1, Zenon
    <2>. QED BY <1>s, <2>1, <2>3, <2>4, <2>5, <2>6, <2>7, <2>8, Announced, Zenon
  <1>2. CASE ReplyNotify(q)
    <2>1. /\ reply[q] = "notify" /\ reply' = [reply EXCEPT ![q] = "over"] /\ UNCHANGED <<call, slots, frames, writes, sent>>
          /\ StartWriteFrame("server", Msg("NOTIFY", q, TRUE))
      BY <1>2, Zenon DEF ReplyNotify, callVars, largeVars
    <2>2. "over" \notin EarlyReplies BY DEF EarlyReplies
    <2>3. \A x \in Sides : \A r \in Calls : (Early(x, r)' => Early(x, r)) /\ (Starting(x, r)' => Starting(x, r))
      BY <2>1, <2>2, ReplyMoves, Zenon
    <2>4. Starting("server", q) BY <2>1 DEF Starting
    <2>5. ~Early("server", q)'
      <3>1. reply'[q] = "over" BY <2>1 DEF RpcTypeOK
      <3>. QED BY <2>2, <3>1, Zenon DEF Early
    <2>6. \A x \in Sides : frames[x] \subseteq frames'[x] BY <2>1, Zenon
    <2>7. Adds(Other("server"), "NOTIFY", q) BY <1>s, <2>1, SendAdds, Zenon
    <2>8. \A r \in Calls : reply[r] = "none" => reply'[r] = "none" BY <2>1 DEF RpcTypeOK
    <2>. QED BY <1>s, <2>1, <2>3, <2>4, <2>5, <2>6, <2>7, <2>8, Announced, Zenon
  <1>. QED BY <1>1, <1>2, Zenon

\* HandleNotify: the notification becomes an authority.
LEMMA AuthorizeStages ==
  ASSUME RpcTypeOK, FramesOk, StagesInv, NEW p \in Sides, NEW m \in net[p], HandleNotify(p, m)
  PROVE  StagesInv'
  <1> DEFINE s == Other(p)
             q == m.rpc
  <1>s. s \in Sides /\ Other(s) = p /\ s # p /\ "channel" \in Sides BY TwoSides
  <1>m. m = Msg("NOTIFY", q, TRUE) /\ q \in Calls
    <2>1. m.type = "NOTIFY" /\ m.type # "RESPONSE" BY DEF HandleNotify
    <2>. QED BY <2>1, FrameIsMsg, Zenon
  <1>u. UNCHANGED <<call, reply, slots, frames, writes, sent>> BY Zenon DEF HandleNotify, callVars, largeVars
  <1>n. /\ net'[p] = (net[p] \ {m}) \cup {Msg("INSERT", q, TRUE)}
        /\ net'[s] = net[s] \cup {Msg("AUTHORITY", q, TRUE)}
    <2>1. net' = [net EXCEPT ![p] = (@ \ {m}) \cup {Msg("INSERT", q, TRUE)},
                             ![s] = @ \cup {Msg("AUTHORITY", q, TRUE)}]
      BY Zenon DEF HandleNotify
    <2>2. net \in [Sides -> SUBSET Frame] BY Zenon DEF RpcTypeOK
    <2> HIDE DEF s, q
    <2>. QED BY <1>s, <2>1, <2>2
  <1> HIDE DEF s, q
  <1>a. Adds(s, "AUTHORITY", q)
    <2>1. ASSUME NEW y \in Sides, NEW k \in net'[y]
          PROVE  k \in net[y] \/ k.type = "INSERT" \/ (y = s /\ k.type = "AUTHORITY" /\ k.rpc = q)
      <3>1. y = p \/ y = s BY <1>s, TwoSides
      <3>2. Msg("INSERT", q, TRUE).type = "INSERT" BY DEF Msg
      <3>3. Msg("AUTHORITY", q, TRUE).type = "AUTHORITY" /\ Msg("AUTHORITY", q, TRUE).rpc = q BY DEF Msg
      <3>. QED BY <1>n, <2>1, <3>1, <3>2, <3>3, Zenon
    <2>. QED BY <2>1, Zenon DEF Adds
  <1>b. Notified(s, q) /\ ~Notified(s, q)'
    <2>1. Notified(s, q) BY <1>m, <1>s, Zenon DEF Notified
    <2>2. Msg("INSERT", q, TRUE) # Msg("NOTIFY", q, TRUE)
      <3>1. Msg("INSERT", q, TRUE).type = "INSERT" /\ Msg("NOTIFY", q, TRUE).type = "NOTIFY" BY DEF Msg
      <3>. QED BY <3>1, Zenon
    <2>. QED BY <1>m, <1>n, <1>s, <2>1, <2>2, Zenon DEF Notified
  <1>1. ASSUME NEW x \in Sides, NEW r \in Calls
        PROVE  /\ Notified(x, r)' => Notified(x, r)
               /\ Authorized(x, r)' => Authorized(x, r) \/ (x = s /\ r = q)
               /\ Requested(r)' => Requested(r)
               /\ Answered(r)' => Answered(r)
    <2>1. Grown(s, "AUTHORITY", q, x, r) BY <1>1, <1>a, AddsStages, Zenon
    <2>. QED BY <2>1, Zenon DEF Grown
  <1>t. \A x \in Sides : \A r \in Calls : (Early(x, r)' <=> Early(x, r)) /\ (Starting(x, r)' <=> Starting(x, r))
    BY <1>u, ThreadsStay, Zenon
  <1>2. ASSUME NEW x \in Sides PROVE SlotsInv(x)'
    <2>1. q \in Engaged(s) BY <1>b, <1>m, Zenon DEF Engaged
    <2>2. Engaged(x)' \subseteq Engaged(x) BY <1>1, <1>t, <1>u, <2>1, Zenon DEF Engaged
    <2>3. slots[x] \in Nat BY DEF RpcTypeOK
    <2>. QED BY <1>u, <2>2, <2>3, SlotsShrink, Zenon DEF StagesInv, LargeInv
  <1>3. ASSUME NEW x \in Sides, NEW r \in Calls PROVE TransferInv(x, r)'
    <2>1. TransferInv(x, r) BY Zenon DEF StagesInv, LargeInv
    <2>2. CASE x = s /\ r = q BY <1>1, <1>b, <1>t, <1>u, <2>1, <2>2, Zenon DEF TransferInv
    <2>3. CASE ~(x = s /\ r = q) BY <1>1, <1>t, <1>u, <2>1, <2>3, TransferShrinks, Zenon
    <2>. QED BY <2>2, <2>3, Zenon
  <1>4. ASSUME NEW r \in Calls PROVE RequestInv(r)'
    <2>1. Coming(r)' => Coming(r) BY <1>1, <1>b, <1>s, <1>t, <1>u, Zenon DEF Coming
    <2>. QED BY <1>1, <1>s, <1>t, <1>u, <2>1, ShrinkKeepsRequest, Zenon DEF RequestsShrink, StagesInv
  <1>. QED BY <1>2, <1>3, <1>4, Zenon DEF StagesInv, LargeInv

\* A transfer ends: its frame and its slot are given back, and the sleepers woken.
LEMMA TransferEnds ==
  ASSUME RpcTypeOK, StagesInv, NEW s \in Sides, NEW q \in Calls, Authorized(s, q) \/ q \in sent[s],
         ~Authorized(s, q)', q \notin sent'[s],
         frames' = [frames EXCEPT ![s] = @ \ {q}], LargeTransferComplete(s), UNCHANGED writes,
         \A x \in Sides : \A r \in Calls : r \in sent'[x] => r \in sent[x],
         Adds("server", "INSERT", q)
  PROVE  StagesInv' /\ slots' \in [Sides -> Nat]
  <1>c. "channel" \in Sides BY TwoSides
  <1>f. frames \in [Sides -> SUBSET Calls] /\ slots \in [Sides -> Nat] BY DEF RpcTypeOK
  <1>l. slots' = [slots EXCEPT ![s] = @ - 1] BY Zenon DEF LargeTransferComplete
  <1>t. ASSUME NEW x \in Sides, NEW r \in Calls
        PROVE  /\ (Early(x, r)' <=> Early(x, r)) /\ (Starting(x, r)' <=> Starting(x, r))
               /\ reply'[r] = "none" <=> reply[r] = "none"
    BY ThreadsWoken, Zenon DEF LargeTransferComplete
  <1>1. ASSUME NEW x \in Sides, NEW r \in Calls
        PROVE  /\ Notified(x, r)' => Notified(x, r)
               /\ Authorized(x, r)' => Authorized(x, r)
               /\ Requested(r)' => Requested(r)
               /\ Answered(r)' => Answered(r)
    <2>1. Grown("server", "INSERT", q, x, r) BY <1>1, AddsStages, Zenon
    <2>. QED BY <2>1, Zenon DEF Grown
  <1>q. /\ TransferInv(s, q) /\ ~Early(s, q) /\ ~Starting(s, q) /\ ~Notified(s, q) /\ q \notin writes[s]
    <2>1. TransferInv(s, q) BY Zenon DEF StagesInv, LargeInv
    <2>2. ~Early(s, q) /\ ~Notified(s, q) /\ q \notin writes[s] BY <2>1, Zenon DEF TransferInv
    <2>. QED BY <2>1, <2>2, StartingIsEarly, Zenon
  <1>2. SlotsInv(s)' /\ slots'[s] \in Nat
    <2>1. q \in Engaged(s) BY Zenon DEF Engaged
    <2>2. q \notin Engaged(s)' BY <1>1, <1>q, <1>t, Zenon DEF Engaged
    <2>3. Engaged(s)' \subseteq Engaged(s) BY <1>1, <1>t, Zenon DEF Engaged
    <2>4. slots[s] \in Nat /\ slots'[s] = slots[s] - 1 BY <1>f, <1>l
    <2>5. Engaged(s)' \subseteq Engaged(s) \ {q} BY <2>2, <2>3, Zenon
    <2>. QED BY <2>1, <2>4, <2>5, SlotsEnd, Zenon DEF StagesInv, LargeInv
  <1>3. ASSUME NEW x \in Sides, x # s PROVE SlotsInv(x)'
    <2>1. Engaged(x)' \subseteq Engaged(x) BY <1>1, <1>t, Zenon DEF Engaged
    <2>2. slots[x] \in Nat /\ slots'[x] = slots[x] BY <1>f, <1>l, <1>3
    <2>. QED BY <2>1, <2>2, SlotsShrink, Zenon DEF StagesInv, LargeInv
  <1>4. ASSUME NEW x \in Sides, NEW r \in Calls PROVE TransferInv(x, r)'
    <2>1. TransferInv(x, r) BY Zenon DEF StagesInv, LargeInv
    <2>2. r \in frames[x] => r \in frames'[x] \/ (r \notin writes'[x] /\ r \notin sent'[x])
      <3>1. r \in frames[x] => r \in frames'[x] \/ (x = s /\ r = q) BY <1>f
      <3>. QED BY <1>q, <3>1, Zenon
    <2>. QED BY <1>1, <1>t, <2>1, <2>2, TransferShrinks, Zenon
  <1>5. ASSUME NEW r \in Calls PROVE RequestInv(r)'
    <2>1. Coming(r)' => Coming(r) BY <1>1, <1>c, <1>t, Zenon DEF Coming
    <2>. QED BY <1>1, <1>c, <1>t, <2>1, ShrinkKeepsRequest, Zenon DEF RequestsShrink, StagesInv
  <1>6. slots' \in [Sides -> Nat] BY <1>2, <1>f, <1>l
  <1>. QED BY <1>2, <1>3, <1>4, <1>5, <1>6, Zenon DEF StagesInv, LargeInv

\* HandleAuthority: the authority becomes a write, ends the transfer, or finds none.
LEMMA WriteStages ==
  ASSUME RpcTypeOK, FramesOk, StagesInv, NEW s \in Sides, NEW m \in net[s], NEW posts,
         HandleAuthority(s, m, posts)
  PROVE  StagesInv' /\ slots' \in [Sides -> Nat]
  <1> DEFINE q == m.rpc
  <1>m. m = Msg("AUTHORITY", q, TRUE) /\ q \in Calls
    <2>1. m.type = "AUTHORITY" /\ m.type # "RESPONSE" BY DEF HandleAuthority
    <2>. QED BY <2>1, FrameIsMsg
  <1>c. "channel" \in Sides BY TwoSides
  <1>n. Take(s, m) /\ UNCHANGED sent BY Zenon DEF HandleAuthority
  <1>f. /\ frames \in [Sides -> SUBSET Calls] /\ writes \in [Sides -> SUBSET Calls]
        /\ slots \in [Sides -> Nat]
    BY Zenon DEF RpcTypeOK
  <1>1. CASE q \notin frames[s]
    <2>1. /\ writes' = [writes EXCEPT ![s] = @ \cup (frames[s] \cap {q})]
          /\ UNCHANGED <<call, reply, slots, frames>>
      BY <1>1, Zenon DEF HandleAuthority
    <2>2. UNCHANGED writes BY <1>1, <1>f, <2>1
    <2>. QED BY <1>f, <1>n, <2>1, <2>2, CalmTake, Zenon
  <1>2. CASE q \in frames[s] /\ posts /\ up[s]
    <2>u. /\ writes' = [writes EXCEPT ![s] = @ \cup (frames[s] \cap {q})]
          /\ UNCHANGED <<call, reply, slots, frames>>
      BY <1>2, Zenon DEF HandleAuthority
    <2>w. ASSUME NEW x \in Sides, NEW r \in Calls
          PROVE  r \in writes'[x] => r \in writes[x] \/ (x = s /\ r = q)
      BY <1>f, <2>u, Zenon
    <2>a. Authorized(s, q) /\ ~Authorized(s, q)'
      <3>1. net'[s] = net[s] \ {m} BY <1>n DEF Take, RpcTypeOK
      <3>. QED BY <1>m, <3>1, Zenon DEF Authorized
    <2> HIDE DEF q
    <2>1. ASSUME NEW x \in Sides, NEW r \in Calls
          PROVE  /\ Notified(x, r)' => Notified(x, r)
                 /\ Authorized(x, r)' => Authorized(x, r)
                 /\ Requested(r)' => Requested(r)
                 /\ Answered(r)' => Answered(r)
      <3>1. Adds("server", "INSERT", q) BY <1>n, TakeAdds, Zenon
      <3>2. Grown("server", "INSERT", q, x, r) BY <2>1, <3>1, AddsStages, Zenon
      <3>. QED BY <3>2, Zenon DEF Grown
    <2>t. \A x \in Sides : \A r \in Calls : (Early(x, r)' <=> Early(x, r)) /\ (Starting(x, r)' <=> Starting(x, r))
      BY <2>u, ThreadsStay, Zenon
    <2>2. ASSUME NEW x \in Sides PROVE SlotsInv(x)'
      <3>1. q \in Engaged(s) BY <1>m, <2>a, Zenon DEF Engaged
      <3>2. Engaged(x)' \subseteq Engaged(x) BY <1>n, <2>1, <2>t, <2>w, <3>1, Zenon DEF Engaged
      <3>3. slots[x] \in Nat BY <1>f
      <3>. QED BY <2>u, <3>2, <3>3, SlotsShrink, Zenon DEF StagesInv, LargeInv
    <2>3. ASSUME NEW x \in Sides, NEW r \in Calls PROVE TransferInv(x, r)'
      <3>1. TransferInv(x, r) BY Zenon DEF StagesInv, LargeInv
      <3>2. CASE x = s /\ r = q BY <1>2, <1>n, <2>1, <2>a, <2>t, <2>u, <3>1, <3>2, Zenon DEF TransferInv
      <3>3. CASE ~(x = s /\ r = q) BY <1>n, <2>1, <2>t, <2>u, <2>w, <3>1, <3>3, TransferShrinks, Zenon
      <3>. QED BY <3>2, <3>3, Zenon
    <2>4. ASSUME NEW r \in Calls PROVE RequestInv(r)'
      <3>1. Coming(r)' => Coming(r) BY <1>c, <2>1, <2>a, <2>t, <2>w, Zenon DEF Coming
      <3>. QED BY <1>c, <2>1, <2>t, <2>u, <3>1, ShrinkKeepsRequest, Zenon DEF RequestsShrink, StagesInv
    <2>. QED BY <1>f, <2>2, <2>3, <2>4, <2>u, Zenon DEF StagesInv, LargeInv
  <1>3. CASE q \in frames[s] /\ ~(posts /\ up[s])
    <2>1. frames' = [frames EXCEPT ![s] = @ \ {q}] /\ LargeTransferComplete(s) /\ UNCHANGED writes
      BY <1>3, Zenon DEF HandleAuthority
    <2>2. Authorized(s, q) /\ ~Authorized(s, q)'
      <3>1. net'[s] = net[s] \ {m} BY <1>n DEF Take, RpcTypeOK
      <3>. QED BY <1>m, <3>1, Zenon DEF Authorized
    <2>3. q \notin sent'[s]
      <3>1. TransferInv(s, q) BY <1>m, Zenon DEF StagesInv, LargeInv
      <3>. QED BY <1>n, <2>2, <3>1, Zenon DEF TransferInv
    <2>4. Adds("server", "INSERT", q) BY <1>n, TakeAdds, Zenon
    <2> HIDE DEF q
    <2>. QED BY <1>m, <1>n, <2>1, <2>2, <2>3, <2>4, TransferEnds, Zenon
  <1>. QED BY <1>1, <1>2, <1>3, Zenon

\* The write has arrived, and is dispatched at the peer as a request or a response.
LEMMA ArriveStages ==
  ASSUME RpcTypeOK, StagesInv, NEW s \in Sides, NEW q \in Calls, WriteArrives(s, q)
  PROVE  StagesInv'
  <1> DEFINE t == IF s = "channel" THEN "NORMAL" ELSE "RESPONSE"
  <1>c. "channel" \in Sides /\ "server" \in Sides /\ (s = "channel" \/ s = "server") BY TwoSides
  <1>f. /\ writes \in [Sides -> SUBSET Calls] /\ sent \in [Sides -> SUBSET Calls]
        /\ slots \in [Sides -> Nat] /\ net \in [Sides -> SUBSET Frame]
    BY Zenon DEF RpcTypeOK
  <1>u. /\ q \in writes[s] /\ UNCHANGED <<call, reply, slots, frames>>
        /\ writes' = [writes EXCEPT ![s] = @ \ {q}] /\ sent' = [sent EXCEPT ![s] = @ \cup {q}]
        /\ net' = net \/ net' = [net EXCEPT ![Other(s)] = @ \cup {Msg(t, q, TRUE)}]
    BY Zenon DEF WriteArrives, callVars
  <1> HIDE DEF t
  <1>w. ASSUME NEW x \in Sides, NEW r \in Calls
        PROVE  /\ r \in writes'[x] => r \in writes[x] /\ ~(x = s /\ r = q)
               /\ r \in sent'[x] => r \in sent[x] \/ (x = s /\ r = q)
    BY <1>f, <1>u, Zenon
  <1>a. Adds(Other(s), t, q)
    <2>1. ASSUME NEW y \in Sides
          PROVE  net'[y] = net[y] \/ (y = Other(s) /\ net'[y] = net[y] \cup {Msg(t, q, TRUE)})
      BY <1>f, <1>u, TwoSides, Zenon
    <2>2. Msg(t, q, TRUE).type = t /\ Msg(t, q, TRUE).rpc = q BY DEF Msg
    <2>. QED BY <2>1, <2>2, Zenon DEF Adds
  <1>t. t \in {"NORMAL", "RESPONSE"} /\ (t = "NORMAL" <=> s = "channel") BY DEF t
  <1>1. ASSUME NEW x \in Sides, NEW r \in Calls
        PROVE  /\ Notified(x, r)' => Notified(x, r)
               /\ Authorized(x, r)' => Authorized(x, r)
               /\ Requested(r)' => Requested(r) \/ (s = "channel" /\ r = q)
               /\ Answered(r)' => Answered(r) \/ (s = "server" /\ r = q)
    <2>1. Grown(Other(s), t, q, x, r) BY <1>1, <1>a, AddsStages, Zenon
    <2>. QED BY <1>c, <1>t, <2>1, Zenon DEF Grown
  <1>e. \A x \in Sides : \A r \in Calls : (Early(x, r)' <=> Early(x, r)) /\ (Starting(x, r)' <=> Starting(x, r))
    BY <1>u, ThreadsStay, Zenon
  <1>2. ASSUME NEW x \in Sides PROVE SlotsInv(x)'
    <2>1. q \in Engaged(s) BY <1>u, Zenon DEF Engaged
    <2>2. Engaged(x)' \subseteq Engaged(x) BY <1>1, <1>e, <1>w, <2>1, Zenon DEF Engaged
    <2>3. slots[x] \in Nat BY <1>f
    <2>. QED BY <1>u, <2>2, <2>3, SlotsShrink, Zenon DEF StagesInv, LargeInv
  <1>q. TransferInv(s, q) /\ ~Early(s, q) /\ ~Notified(s, q) /\ ~Authorized(s, q)
    <2>1. TransferInv(s, q) BY Zenon DEF StagesInv, LargeInv
    <2>. QED BY <1>u, <2>1, Zenon DEF TransferInv
  <1>3. ASSUME NEW x \in Sides, NEW r \in Calls PROVE TransferInv(x, r)'
    <2>1. TransferInv(x, r) BY Zenon DEF StagesInv, LargeInv
    <2>2. CASE x = s /\ r = q BY <1>1, <1>e, <1>q, <1>u, <1>w, <2>1, <2>2, Zenon DEF TransferInv
    <2>3. CASE ~(x = s /\ r = q) BY <1>1, <1>e, <1>u, <1>w, <2>1, <2>3, TransferShrinks, Zenon
    <2>. QED BY <2>2, <2>3, Zenon
  <1>4. ASSUME NEW r \in Calls PROVE RequestInv(r)'
    <2>1. RequestInv(r) BY Zenon DEF StagesInv
    <2>2. Coming(r)' => Coming(r) BY <1>1, <1>c, <1>e, <1>w, Zenon DEF Coming
    <2>3. CASE r # q BY <1>1, <1>c, <1>e, <1>u, <2>1, <2>2, <2>3, ShrinkKeepsRequest, Zenon DEF RequestsShrink
    <2>4. CASE r = q /\ s = "channel"
      <3>1. Coming(q) BY <1>u, <2>4, Zenon DEF Coming
      <3>2. ~Coming(q)' BY <1>1, <1>c, <1>e, <1>q, <1>w, <2>4, Zenon DEF Coming
      <3>3. ~Early("channel", q)' BY <1>c, <1>e, <1>q, <2>4, Zenon
      <3>. QED BY <1>u, <2>1, <2>4, <3>1, <3>2, <3>3, Zenon DEF RequestInv
    <2>5. CASE r = q /\ s = "server"
      <3>1. ~Early("channel", q)
        <4>1. SUFFICES ASSUME Early("channel", q) PROVE FALSE OBVIOUS
        <4>2. Coming(q) BY <4>1, Zenon DEF Coming
        <4>3. reply[q] = "none" BY <2>1, <2>5, <4>2, Zenon DEF RequestInv
        <4>4. Early("server", q) BY <4>3 DEF Early, EarlyReplies
        <4>. QED BY <1>q, <2>5, <4>4, Zenon
      <3>2. s # "channel" BY <2>5
      <3>3. Requested(r)' => Requested(r) BY <1>1, <1>c, <3>2, Zenon
      <3>. QED BY <1>c, <1>e, <1>u, <2>1, <2>2, <2>5, <3>1, <3>3, Zenon DEF RequestInv
    <2>. QED BY <1>c, <2>3, <2>4, <2>5, Zenon
  <1>. QED BY <1>2, <1>3, <1>4, Zenon DEF StagesInv, LargeInv

\* The completion of a write at its sender.
LEMMA CompleteStages ==
  ASSUME RpcTypeOK, StagesInv, NEW s \in Sides, NEW q \in Calls, WriteCompletes(s, q)
  PROVE  StagesInv' /\ slots' \in [Sides -> Nat]
  <1>1. /\ q \in sent[s] /\ sent' = [sent EXCEPT ![s] = @ \ {q}] /\ frames' = [frames EXCEPT ![s] = @ \ {q}]
        /\ LargeTransferComplete(s) /\ UNCHANGED <<writes, net>>
    BY Zenon DEF WriteCompletes
  <1>2. sent \in [Sides -> SUBSET Calls] BY DEF RpcTypeOK
  <1>3. q \notin sent'[s] /\ \A x \in Sides : \A r \in Calls : r \in sent'[x] => r \in sent[x] BY <1>1, <1>2
  <1>4. ~Authorized(s, q)'
    <2>1. TransferInv(s, q) BY Zenon DEF StagesInv, LargeInv
    <2>2. ~Authorized(s, q) BY <1>1, <2>1, Zenon DEF TransferInv
    <2>. QED BY <1>1, <2>2, Zenon DEF Authorized
  <1>5. Adds("server", "INSERT", q) BY <1>1, SameAdds, Zenon
  <1>. QED BY <1>1, <1>3, <1>4, <1>5, TransferEnds, Zenon

\* HandleRequest: the request is handled once, and answered or its response begun.
LEMMA RequestStages ==
  ASSUME RpcTypeOK, FramesOk, StagesInv, NEW p \in Sides, NEW m \in net[p], NEW ok, HandleRequest(m, ok)
  PROVE  StagesInv'
  <1> DEFINE q == m.rpc
  <1>c. "channel" \in Sides /\ "server" \in Sides /\ Other("server") = "channel" BY TwoSides
  <1>m. m = Msg("NORMAL", q, TRUE) /\ q \in Calls
    <2>1. m \in net["server"] /\ m.type = "NORMAL" /\ m.type # "RESPONSE" BY DEF HandleRequest
    <2>. QED BY <1>c, <2>1, FrameIsMsg, Zenon
  <1>f. /\ frames \in [Sides -> SUBSET Calls] /\ net \in [Sides -> SUBSET Frame]
        /\ reply = [x \in Calls |-> reply[x]]
    BY Zenon DEF RpcTypeOK
  <1>u. UNCHANGED <<call, slots, writes, sent>> BY Zenon DEF HandleRequest, callVars
  <1>r. Requested(q) BY <1>m, Zenon DEF Requested, HandleRequest
  <1>i. RequestInv(q) /\ reply[q] = "none" /\ ~Coming(q)
    <2>1. RequestInv(q) BY <1>m, Zenon DEF StagesInv
    <2>. QED BY <1>r, <2>1, Zenon DEF RequestInv
  <1>p. reply' = reply \/ reply' = [reply EXCEPT ![q] = "test"] BY Zenon DEF HandleRequest
  <1>g. \A x \in Sides : frames[x] \subseteq frames'[x]
    <2>1. frames' = frames \/ frames' = [frames EXCEPT !["server"] = @ \cup {q}] BY Zenon DEF HandleRequest
    <2> HIDE DEF q
    <2>. QED BY <1>c, <1>f, <2>1, Zenon
  <1>n. /\ net'["server"] = net["server"] \ {m}
        /\ net'["channel"] = net["channel"] \/ net'["channel"] = net["channel"] \cup {Msg("RESPONSE", q, ok)}
    <2>1. net' = [net EXCEPT !["server"] = @ \ {m},
                             !["channel"] = IF up["server"] /\ (~ok \/ q \notin respLarge)
                                            THEN @ \cup {Msg("RESPONSE", q, ok)} ELSE @]
      BY Zenon DEF HandleRequest
    <2> HIDE DEF q
    <2>. QED BY <1>c, <1>f, <2>1, Zenon
  <1> HIDE DEF q
  <1>a. Adds("channel", "RESPONSE", q)
    <2>1. ASSUME NEW y \in Sides, NEW k \in net'[y]
          PROVE  k \in net[y] \/ k.type = "INSERT" \/ (y = "channel" /\ k.type = "RESPONSE" /\ k.rpc = q)
      <3>1. y = "channel" \/ y = "server" BY TwoSides
      <3>2. Msg("RESPONSE", q, ok).type = "RESPONSE" /\ Msg("RESPONSE", q, ok).rpc = q BY DEF Msg
      <3>. QED BY <1>n, <2>1, <3>1, <3>2, Zenon
    <2>. QED BY <2>1, Zenon DEF Adds
  <1>e. \A x \in Sides : \A r \in Calls : (Early(x, r)' => Early(x, r)) /\ (Starting(x, r)' => Starting(x, r))
    <2>1. CASE reply' = reply BY <1>u, <2>1, ThreadsStay, Zenon
    <2>2. CASE reply' = [reply EXCEPT ![q] = "test"]
      <3>1. reply[q] \in EarlyReplies BY <1>i DEF EarlyReplies
      <3>. QED BY <1>m, <1>u, <2>2, <3>1, ReplyMoves, Zenon
    <2>. QED BY <1>p, <2>1, <2>2, Zenon
  <1>1. LargeInv' BY <1>a, <1>e, <1>g, <1>u, CalmKeeps DEF StagesInv
  <1>2. ASSUME NEW x \in Sides, NEW r \in Calls
        PROVE  /\ Notified(x, r)' => Notified(x, r)
               /\ Authorized(x, r)' => Authorized(x, r)
               /\ Requested(r)' => Requested(r)
               /\ Answered(r)' => Answered(r) \/ r = q
    <2>1. Grown("channel", "RESPONSE", q, x, r) BY <1>2, <1>a, AddsStages, Zenon
    <2>. QED BY <2>1, Zenon DEF Grown
  <1>3. ASSUME NEW r \in Calls PROVE RequestInv(r)'
    <2>1. Coming(r)' => Coming(r) BY <1>2, <1>c, <1>e, <1>u, Zenon DEF Coming
    <2>2. CASE r # q
      <3>1. reply[r] = "none" => reply'[r] = "none" BY <1>f, <1>m, <1>p, <2>2
      <3>. QED BY <1>2, <1>c, <1>e, <2>1, <2>2, <3>1, ShrinkKeepsRequest, Zenon DEF RequestsShrink, StagesInv
    <2>3. CASE r = q
      <3>1. ~Requested(q)' BY <1>m, <1>n, Zenon DEF Requested
      <3>2. ~Coming(q)' BY <1>i, <2>1, <2>3, Zenon
      <3>3. ~Early("channel", q)' BY <3>2, Zenon DEF Coming
      <3>. QED BY <2>3, <3>1, <3>2, <3>3, Zenon DEF RequestInv
    <2>. QED BY <2>2, <2>3, Zenon
  <1>. QED BY <1>1, <1>3, Zenon DEF StagesInv

-----------------------------------------------------------------------------
(* Rpc: all the steps *)

\* Every step keeps the stages of transfers and requests.
LEMMA StagesStep ==
  ASSUME RpcTypeOK, FramesOk, StagesInv, [RpcNext]_rpcVars
  PROVE  StagesInv'
  <1>1. ASSUME NEW q \in Calls, CallBegin(q) \/ CallTimeout(q) \/ CallStep(q) \/ ReplyStep(q)
        PROVE  StagesInv'
    BY <1>1, CallCalm, SendStages, TestStages, NotifyStages, Zenon DEF CallStep, ReplyStep
  <1>2. ASSUME NEW s \in Sides, NEW m \in net[s], HandlerStep(s, m) \/ Lose(s, m)
        PROVE  StagesInv'
    BY <1>2, HandlerCalm, AuthorizeStages, WriteStages, RequestStages, Zenon DEF HandlerStep
  <1>3. ASSUME NEW s \in Sides, NEW r \in Calls, WriteArrives(s, r) \/ WriteCompletes(s, r)
        PROVE  StagesInv'
    BY <1>3, ArriveStages, CompleteStages, Zenon
  <1>. QED BY <1>1, <1>2, <1>3, FailureCalm, Zenon DEF RpcNext

\* The slots stay natural numbers: one is given back only by a transfer that has it.
LEMMA SlotsTypeStep ==
  ASSUME RpcTypeOK, FramesOk, StagesInv, [RpcNext]_rpcVars
  PROVE  slots' \in [Sides -> Nat]
  <1>t. slots \in [Sides -> Nat] BY DEF RpcTypeOK
  <1>0. CASE UNCHANGED slots BY <1>0, <1>t
  <1>1. ASSUME NEW s \in Sides, StartLargeTransfer(s) PROVE slots' \in [Sides -> Nat]
    BY <1>1, <1>t DEF StartLargeTransfer
  <1>2. ASSUME NEW q \in Calls, CallBegin(q) \/ CallTimeout(q) \/ CallStep(q) \/ ReplyStep(q)
        PROVE  slots' \in [Sides -> Nat]
    <2>1. "channel" \in Sides /\ "server" \in Sides BY TwoSides
    <2>. QED
      BY <1>0, <1>1, <1>2, <2>1, Zenon
         DEF CallStep, ReplyStep, CallBegin, CallTimeout, RegisterPending, CallSend, CallTest, CallSleep,
             CallAbort, CallNotify, CallDone, CallCleanup, ReplyTest, ReplySleep, ReplyNotify, largeVars
  <1>3. ASSUME NEW s \in Sides, NEW m \in net[s], HandlerStep(s, m) \/ Lose(s, m)
        PROVE  slots' \in [Sides -> Nat]
    BY <1>0, <1>3, WriteStages, Zenon
       DEF HandlerStep, Lose, HandleNotify, HandleNotifyNoBlock, HandleNotifyInsert, HandleRequest,
           HandleResponse, largeVars
  <1>4. ASSUME NEW s \in Sides, NEW r \in Calls, WriteArrives(s, r) \/ WriteCompletes(s, r)
        PROVE  slots' \in [Sides -> Nat]
    BY <1>0, <1>4, CompleteStages, Zenon DEF WriteArrives
  <1>5. ASSUME FailStep \/ (\E s \in Sides : Fail(s)) \/ UNCHANGED rpcVars
        PROVE  slots' \in [Sides -> Nat]
    BY <1>0, <1>5, Zenon
       DEF FailStep, ChannelFailed, ChannelFailPending, ServerFailed, Fail, rpcVars, largeVars
  <1>. QED BY <1>2, <1>3, <1>4, <1>5, Zenon DEF RpcNext

-----------------------------------------------------------------------------
(* Rpc: the outcome of a call *)

\* The outcome of a call that is done is kept, and the request is pending only
\* while its call runs.
LEMMA OutcomeStep ==
  ASSUME RpcTypeOK, \A r \in Calls : RequestInv(r) /\ OutcomeInv(r), [RpcNext]_rpcVars, NEW r \in Calls
  PROVE  OutcomeInv(r)' /\ (done[r] => done'[r] /\ outcome'[r] = outcome[r])
  <1> DEFINE Goal == OutcomeInv(r)' /\ (done[r] => done'[r] /\ outcome'[r] = outcome[r])
  <1> SUFFICES Goal OBVIOUS
  <1>t. /\ pending_map \subseteq Calls /\ done \in [Calls -> BOOLEAN]
        /\ outcome \in [Calls -> {"none", "ok", "error", "timeout", "transport"}]
        /\ call = [x \in Calls |-> call[x]]
    BY Zenon DEF RpcTypeOK
  <1>i. /\ call[r] \in {"start", "register"} => ~done[r] /\ r \notin pending_map
        /\ call[r] = "returned" => r \notin pending_map
        /\ call[r] \in EarlyCalls /\ done[r] => outcome[r] = "transport"
    BY Zenon DEF OutcomeInv, Early
  <1>g. \/ ~(/\ call'[r] \in {"start", "register"} => ~done'[r] /\ r \notin pending_map'
             /\ call'[r] = "returned" => r \notin pending_map'
             /\ call'[r] \in EarlyCalls /\ done'[r] => outcome'[r] = "transport"
             /\ done[r] => done'[r] /\ outcome'[r] = outcome[r])
        \/ Goal
    BY Zenon DEF OutcomeInv, Early
  <1>0. CASE UNCHANGED callVars BY <1>0, <1>i, <1>g, Zenon DEF callVars
  <1>w. CASE /\ call' = [x \in Calls |-> IF call[x] = "blocked" THEN "test" ELSE call[x]]
             /\ UNCHANGED <<pending_map, done, outcome>>
    <2>1. /\ call'[r] \in {"start", "register"} => call[r] \in {"start", "register"}
          /\ call'[r] = "returned" => call[r] = "returned"
          /\ call'[r] \in EarlyCalls => call[r] \in EarlyCalls
      BY <1>w, Zenon DEF EarlyCalls
    <2>. QED BY <1>i, <1>g, <1>w, <2>1, Zenon
  <1> HIDE DEF Goal
  <1>1. ASSUME NEW q \in Calls, CallBegin(q) PROVE Goal
    BY <1>1, <1>t, <1>i, <1>g, Zenon DEF CallBegin, CallGoto, EarlyCalls
  <1>2. ASSUME NEW q \in Calls, RegisterPending(q) PROVE Goal
    BY <1>2, <1>t, <1>i, <1>g, Zenon DEF RegisterPending, CallGoto, EarlyCalls
  <1>3. ASSUME NEW q \in Calls, CallSend(q) PROVE Goal
    BY <1>3, <1>t, <1>i, <1>g DEF CallSend, CallGoto, EarlyCalls
  <1>4. ASSUME NEW q \in Calls, CallTest(q) \/ CallSleep(q) \/ CallNotify(q) PROVE Goal
    BY <1>4, <1>t, <1>i, <1>g, Zenon DEF CallTest, CallSleep, CallNotify, CallGoto, EarlyCalls
  <1>5. ASSUME NEW q \in Calls, CallAbort(q) PROVE Goal
    BY <1>5, <1>t, <1>i, <1>g, Zenon DEF CallAbort, Abort, CallGoto, EarlyCalls
  <1>6. ASSUME NEW q \in Calls, CallDone(q) \/ CallCleanup(q) PROVE Goal
    BY <1>6, <1>t, <1>i, <1>g, Zenon DEF CallDone, CallCleanup, CallGoto, EarlyCalls
  <1>7. ASSUME NEW q \in Calls, CallTimeout(q) PROVE Goal
    BY <1>7, <1>t, <1>i, <1>g, Zenon DEF CallTimeout, CallGoto, EarlyCalls
  <1>8. ASSUME NEW s \in Sides, NEW m \in net[s], HandleResponse(m) PROVE Goal
    <2>1. m \in net["channel"] /\ m.type = "RESPONSE" BY <1>8, Zenon DEF HandleResponse
    <2>2. m.rpc = r => call[r] \notin EarlyCalls
      <3>1. m.rpc = r => Answered(r) BY <2>1, Zenon DEF Answered
      <3>. QED BY <3>1, Zenon DEF RequestInv, Early
    <2>3. /\ UNCHANGED <<pending_map, call>>
          /\ \/ UNCHANGED <<done, outcome>>
             \/ /\ ~done[m.rpc] /\ m.rpc \in Calls
                /\ done' = [done EXCEPT ![m.rpc] = TRUE]
                /\ \E o : outcome' = [outcome EXCEPT ![m.rpc] = o]
      BY <1>8, <1>t, Zenon DEF HandleResponse, StillPending
    <2>4. {"start", "register"} \subseteq EarlyCalls BY DEF EarlyCalls
    <2>. QED BY <1>t, <1>i, <1>g, <2>2, <2>3, <2>4, Zenon
  <1>9. CASE ChannelFailPending
    BY <1>9, <1>t, <1>i, <1>g, Zenon DEF ChannelFailPending, EarlyCalls
  <1>10. ASSUME NEW s, LargeTransferComplete(s), UNCHANGED <<pending_map, done, outcome>> PROVE Goal
    BY <1>0, <1>w, <1>10, Zenon DEF LargeTransferComplete, callVars
  <1>11. ASSUME NEW s \in Sides, NEW m \in net[s], HandlerStep(s, m) \/ Lose(s, m) PROVE Goal
    BY <1>0, <1>8, <1>10, <1>11, Zenon
       DEF HandlerStep, Lose, HandleNotify, HandleNotifyNoBlock, HandleNotifyInsert, HandleAuthority,
           HandleRequest, callVars
  <1>12. ASSUME NEW q \in Calls, CallBegin(q) \/ CallTimeout(q) \/ CallStep(q) \/ ReplyStep(q) PROVE Goal
    BY <1>0, <1>1, <1>2, <1>3, <1>4, <1>5, <1>6, <1>7, <1>12, Zenon
       DEF CallStep, ReplyStep, ReplyTest, ReplySleep, ReplyNotify
  <1>13. ASSUME NEW s \in Sides, NEW q \in Calls, WriteArrives(s, q) \/ WriteCompletes(s, q) PROVE Goal
    BY <1>0, <1>10, <1>13, Zenon DEF WriteArrives, WriteCompletes
  <1>14. CASE FailStep \/ (\E s \in Sides : Fail(s)) \/ UNCHANGED rpcVars
    BY <1>0, <1>w, <1>9, <1>14, Zenon DEF FailStep, ChannelFailed, ServerFailed, Fail, rpcVars
  <1>. QED BY <1>11, <1>12, <1>13, <1>14, Zenon DEF RpcNext

\* The invariant holds initially, is kept by every step, and implies what the run checks.
LEMMA RpcInvInit == RpcInit => RpcInv
  <1> SUFFICES ASSUME RpcInit PROVE RpcInv
    BY Zenon
  <1>1. RpcTypeOK BY RpcAssumption DEF RpcInit, RpcTypeOK
  <1>2. \A s \in Sides : /\ net[s] = {} /\ writes[s] = {} /\ sent[s] = {} /\ slots[s] = 0
    BY Zenon DEF RpcInit
  <1>3. \A r \in Calls : call[r] = "start" /\ reply[r] = "none" /\ ~done[r] /\ r \notin pending_map
    BY Zenon DEF RpcInit
  <1>4. \A s \in Sides : \A r : ~Notified(s, r) /\ ~Authorized(s, r)
    BY <1>2, TwoSides, Zenon DEF Notified, Authorized
  <1>5. ASSUME NEW r \in Calls PROVE RequestInv(r) /\ OutcomeInv(r)
    <2>1. ~Requested(r) /\ ~Answered(r) BY <1>2, TwoSides DEF Requested, Answered
    <2>2. RequestInv(r) BY <1>3, <2>1, Zenon DEF RequestInv
    <2>3. OutcomeInv(r) BY <1>3 DEF OutcomeInv
    <2>. QED BY <2>2, <2>3
  <1>6. ASSUME NEW s \in Sides PROVE SlotsInv(s)
    <2>1. \A r \in Calls : ~Starting(s, r) BY <1>3 DEF Starting
    <2>2. Engaged(s) = {} BY <1>2, <1>4, <2>1, Zenon DEF Engaged
    <2>3. IsFiniteSet(Engaged(s)) /\ Cardinality(Engaged(s)) = 0 BY <2>2, FS_EmptySet, Zenon
    <2>. QED BY <1>2, <2>3, RpcAssumption DEF SlotsInv
  <1>7. \A s \in Sides : \A r \in Calls : TransferInv(s, r) BY <1>2, <1>4, Zenon DEF TransferInv
  <1>8. FramesOk BY <1>2, Zenon DEF FramesOk
  <1>. QED BY <1>1, <1>5, <1>6, <1>7, <1>8, Zenon DEF RpcInv

LEMMA RpcInvNext == RpcInv /\ [RpcNext]_rpcVars => RpcInv'
  <1> SUFFICES ASSUME RpcInv, [RpcNext]_rpcVars PROVE RpcInv'
    BY Zenon
  <1>1. RpcTypeOK /\ FramesOk /\ StagesInv /\ \A r \in Calls : RequestInv(r) /\ OutcomeInv(r)
    BY Zenon DEF RpcInv, StagesInv, LargeInv
  <1>2. net' \in [Sides -> SUBSET Frame] /\ FramesOk' BY <1>1, FramesStep, Zenon
  <1>3. slots' \in [Sides -> Nat] BY <1>1, SlotsTypeStep, Zenon
  <1>4. StateTypes' BY <1>1, StateTypesStep, Zenon
  <1>5. RpcTypeOK' BY <1>2, <1>3, <1>4, Zenon DEF RpcTypeOK, StateTypes
  <1>6. StagesInv' BY <1>1, StagesStep, Zenon
  <1>7. \A r \in Calls : OutcomeInv(r)' BY <1>1, OutcomeStep, Zenon
  <1>. QED BY <1>2, <1>5, <1>6, <1>7, Zenon DEF RpcInv, StagesInv, LargeInv

LEMMA RpcInvSafe == RpcInv => RpcTypeOK /\ RpcSafe
  <1> SUFFICES ASSUME RpcInv PROVE RpcTypeOK /\ RpcSafe
    BY Zenon
  <1>1. RpcTypeOK BY Zenon DEF RpcInv
  <1>2. PendingAlive
    <2>1. \A r \in pending_map : r \in Calls BY <1>1, Zenon DEF RpcTypeOK
    <2>. QED BY <2>1, Zenon DEF RpcInv, OutcomeInv, PendingAlive
  <1>3. ASSUME NEW s \in Sides
        PROVE  /\ writes[s] \cup sent[s] \subseteq frames[s]
               /\ slots[s] <= kMaxLargeTransfers
               /\ Cardinality(writes[s] \cup sent[s]) <= slots[s]
    <2>1. writes[s] \subseteq Calls /\ sent[s] \subseteq Calls /\ slots[s] \in Nat BY <1>1 DEF RpcTypeOK
    <2>2. SlotsInv(s) /\ \A r \in Calls : TransferInv(s, r) BY Zenon DEF RpcInv
    <2>3. writes[s] \cup sent[s] \subseteq frames[s] BY <2>1, <2>2, Zenon DEF TransferInv
    <2>4. writes[s] \cup sent[s] \subseteq Engaged(s) BY <2>1, Zenon DEF Engaged
    <2>5. /\ IsFiniteSet(writes[s] \cup sent[s])
          /\ Cardinality(writes[s] \cup sent[s]) <= Cardinality(Engaged(s))
      BY <2>2, <2>4, FS_Subset, Zenon DEF SlotsInv
    <2>6. Cardinality(writes[s] \cup sent[s]) \in Nat /\ Cardinality(Engaged(s)) \in Nat
      BY <2>2, <2>5, FS_CardinalityType, Zenon DEF SlotsInv
    <2>. QED BY <2>1, <2>2, <2>3, <2>5, <2>6, RpcAssumption DEF SlotsInv
  <1>. QED BY <1>1, <1>2, <1>3, Zenon DEF RpcSafe, LargeTransfersSafe

-----------------------------------------------------------------------------
(* The theorems *)

\* A behaviour is one of Connect or one of Rpc: what is invariant in each is
\* invariant in both.
LEMMA EndpointInvariant == McSpec => [](ConnectInv /\ RpcInv)
  <1>1. McInit => ConnectInv /\ RpcInv BY ConnectInvInit, RpcInvInit, Zenon DEF McInit
  <1>2. ConnectInv /\ RpcInv /\ [McNext]_McVars => ConnectInv' /\ RpcInv'
    BY ConnectInvNext, RpcInvNext, Zenon DEF McNext, McVars, Connecting, Calling
  <1>. QED BY <1>1, <1>2, PTL DEF McSpec

\* The state of a connection and of the calls over it has its type; in particular
\* active_large_transfers_ never drops below zero (src/src-endpoint/fast_channel.cc,
\* fast_server.cc).
THEOREM EndpointTypes == McSpec => []McTypeOK
  <1>1. ConnectInv /\ RpcInv => McTypeOK BY ConnectInvSafe, RpcInvSafe, Zenon DEF McTypeOK
  <1>. QED BY <1>1, EndpointInvariant, PTL

\* A pending request is alive, a large frame is kept while the hardware may read it, and
\* an end keeps its limit of transfers, for any set of calls and any limit
\* (src/src-endpoint/fast_channel.cc, fast_rdma_endpoint.cc).
THEOREM CallsSafe == McSpec => []RpcSafe
  <1>. QED BY RpcInvSafe, EndpointInvariant, PTL

\* Of a response, a timeout and a failure that race for the outcome of a call the first
\* wins, for any set of calls (src/src-endpoint/fast_channel.cc).
THEOREM OutcomesFinal == McSpec => OutcomeFinal
  <1>1. ConnectInv /\ RpcInv /\ [McNext]_McVars
          => [\A r \in Calls : done[r] => done'[r] /\ outcome'[r] = outcome[r]]_rpcVars
    <2> SUFFICES ASSUME RpcInv, [McNext]_McVars, NEW r \in Calls
                 PROVE  done[r] => done'[r] /\ outcome'[r] = outcome[r]
      BY Zenon
    <2>1. RpcTypeOK /\ \A x \in Calls : RequestInv(x) /\ OutcomeInv(x) BY Zenon DEF RpcInv
    <2>2. [RpcNext]_rpcVars BY Zenon DEF McNext, McVars, Connecting, Calling
    <2>. QED BY <2>1, <2>2, OutcomeStep, Zenon
  <1>. QED BY <1>1, EndpointInvariant, PTL DEF McSpec, OutcomeFinal
=============================================================================
