------------------------------ MODULE CqPoller ------------------------------
(***************************************************************************)
(* Who polls the four completion queues of an endpoint                     *)
(* (src-endpoint/fast_rdma_endpoint.cc: OnCompChannelEvent, AddReadEvent,  *)
(* PollCq, MoreReadEvents, GetAndAckEvents, DeallocateResources).          *)
(*                                                                         *)
(* The hardware adds completions and, when the queue is armed, an event to *)
(* the completion channel, whose fd is watched edge-triggered by the epoll *)
(* thread.  The counter _nevent merges events and hands the right to poll  *)
(* over: the callback that moves it from zero starts a poller thread, and  *)
(* the poller gives the right up with the CAS of MoreReadEvents.           *)
(***************************************************************************)
EXTENDS Integers, Sequences, FiniteSets

CONSTANTS
    Pollers,         \* identities for the poller threads
    MaxCompletions,  \* bound: the completions the hardware produces
    MaxCqEvents,     \* MAX_CQ_EVENTS, the batch of acknowledged events
    PollBatch        \* the completions one ibv_poll_cq returns at most

ASSUME CqPollerAssumption ==
    /\ MaxCompletions \in Nat
    /\ MaxCqEvents \in Nat \ {0} /\ PollBatch \in Nat \ {0}

\* The completion queues in the order in which PollCq visits them.
recv == 0
dataRecv == 1
send == 2
dataSend == 3
Cqs == {recv, dataRecv, send, dataSend}

VARIABLES
    cq,        \* the completions in each queue: TRUE for a solicited one
    armed,     \* "no", "solicited" or "all": which completion raises an event
    made,      \* the number of completions produced so far
    chan,      \* the events of each queue that wait in the completion channel
    edge,      \* the channel fd has an edge that epoll has not reported yet
    dpc,       \* the epoll thread, in OnCompChannelEvent
    nevent,    \* _nevent
    ppc,       \* the poller threads, in PollCq
    phase, notified, progress,   \* their local variables
    events,    \* *_cq_events: fetched and not yet acknowledged
    owed,      \* history: the acknowledgements ibv_destroy_cq would wait for
    cqFail,      \* 0 healthy, 1 version failed, 2 _stop set, 3 events unregistered
    alive      \* the queues exist

hwVars == <<cq, armed, made, chan, edge>>
pollVars == <<ppc, phase, notified, progress>>
ackVars == <<events, owed>>
cqVars == <<hwVars, dpc, nevent, pollVars, ackVars, cqFail, alive>>

CqTypeOK ==
    /\ cq \in [Cqs -> Seq(BOOLEAN)]
    /\ armed \in [Cqs -> {"no", "solicited", "all"}]
    /\ made \in 0..MaxCompletions
    /\ chan \in [Cqs -> Nat]
    /\ edge \in BOOLEAN
    /\ dpc \in {"idle", "addressed", "add", "start", "setFailed"}
    /\ nevent \in Nat
    /\ ppc \in [Pollers -> {"none", "begin", "get", "poll", "arm", "more", "setFailed"}]
    /\ phase \in [Pollers -> Cqs]
    /\ notified \in [Pollers -> BOOLEAN]
    /\ progress \in [Pollers -> Nat]
    /\ events \in [Cqs -> Nat] /\ owed \in [Cqs -> Int]
    /\ cqFail \in 0..3
    /\ alive \in BOOLEAN

\* Receive queues are armed for solicited completions only.
ArmKind(c) == IF c \in {recv, dataRecv} THEN "solicited" ELSE "all"

\* AllocateResources has armed the queues and registered the channel.
CqInit ==
    /\ cq = [c \in Cqs |-> <<>>]
    /\ armed = [c \in Cqs |-> ArmKind(c)]
    /\ made = 0
    /\ chan = [c \in Cqs |-> 0]
    /\ edge = FALSE
    /\ dpc = "idle"
    /\ nevent = 0
    /\ ppc = [p \in Pollers |-> "none"]
    /\ phase = [p \in Pollers |-> recv]
    /\ notified = [p \in Pollers |-> FALSE]
    /\ progress = [p \in Pollers |-> 1]
    /\ events = [c \in Cqs |-> 0]
    /\ owed = [c \in Cqs |-> 0]
    /\ cqFail = 0
    /\ alive = TRUE

-----------------------------------------------------------------------------
(* The hardware and the completion channel *)

Notifies(c, solicited) == armed[c] = "all" \/ (armed[c] = "solicited" /\ solicited)

\* A completion arrives; an armed queue raises one event and is disarmed.
Complete(c, solicited) ==
    /\ alive /\ made < MaxCompletions
    /\ made' = made + 1
    /\ cq' = [cq EXCEPT ![c] = Append(@, solicited)]
    /\ IF Notifies(c, solicited)
       THEN /\ armed' = [armed EXCEPT ![c] = "no"]
            /\ chan' = [chan EXCEPT ![c] = @ + 1]
            /\ edge' = IF cqFail < 3 THEN TRUE ELSE edge
       ELSE UNCHANGED <<armed, chan, edge>>
    /\ UNCHANGED <<dpc, nevent, pollVars, ackVars, cqFail, alive>>

-----------------------------------------------------------------------------
(* The epoll thread: OnCompChannelEvent *)

\* epoll reports the edge; the callback addresses the endpoint by its id.
OnCompChannelEvent ==
    /\ dpc = "idle" /\ edge
    /\ edge' = FALSE
    /\ dpc' = IF cqFail = 0 THEN "addressed" ELSE "idle"
    /\ UNCHANGED <<cq, armed, made, chan, nevent, pollVars, ackVars, cqFail, alive>>

\* AddReadEvent: an endpoint that is stopping takes no more events.
AddReadEventStop ==
    /\ dpc = "addressed"
    /\ dpc' = IF cqFail >= 2 THEN "idle" ELSE "add"
    /\ UNCHANGED <<hwVars, nevent, pollVars, ackVars, cqFail, alive>>

\* Mutant: every event starts a poller, not only the one that moved zero.
AddReadEventMutantAlways ==
    /\ dpc = "add"
    /\ nevent' = nevent + 1
    /\ dpc' = "start"
    /\ UNCHANGED <<hwVars, pollVars, ackVars, cqFail, alive>>

AddReadEvent ==
    /\ dpc = "add"
    /\ nevent' = nevent + 1
    /\ dpc' = IF nevent = 0 THEN "start" ELSE "idle"
    /\ UNCHANGED <<hwVars, pollVars, ackVars, cqFail, alive>>

\* A new bthread: which of those that are not in use makes no difference.
Unused == CHOOSE p \in Pollers : ppc[p] = "none"
StartPoller(p) ==
    /\ dpc = "start" /\ ppc[p] = "none" /\ p = Unused
    /\ dpc' = "idle"
    /\ ppc' = [ppc EXCEPT ![p] = "begin"]
    /\ phase' = [phase EXCEPT ![p] = recv]
    /\ notified' = [notified EXCEPT ![p] = FALSE]
    /\ progress' = [progress EXCEPT ![p] = 1]
    /\ UNCHANGED <<hwVars, nevent, ackVars, cqFail, alive>>

\* The thread cannot be created: SetFailed.
StartPollerFails ==
    /\ dpc = "start"
    /\ dpc' = "setFailed"
    /\ UNCHANGED <<hwVars, nevent, pollVars, ackVars, cqFail, alive>>

-----------------------------------------------------------------------------
(* The poller threads: PollCq *)

Poller(p, l) == ppc' = [ppc EXCEPT ![p] = l]

PollBegin(p) ==
    /\ ppc[p] = "begin"
    /\ Poller(p, IF cqFail >= 2 THEN "none" ELSE "get")
    /\ UNCHANGED <<hwVars, dpc, nevent, phase, notified, progress, ackVars, cqFail, alive>>

\* GetAndAckEvents: ibv_get_cq_event returns one event of queue c.
GetEvent(p, c) ==
    /\ ppc[p] = "get" /\ chan[c] > 0
    /\ chan' = [chan EXCEPT ![c] = @ - 1]
    /\ events' = [events EXCEPT ![c] = @ + 1]
    /\ owed' = [owed EXCEPT ![c] = @ + 1]
    /\ UNCHANGED <<cq, armed, made, edge, dpc, nevent, pollVars, cqFail, alive>>

\* Mutant: a batch is taken off every counter, full or not.
AckEventsMutantBatch(p) ==
    /\ ppc[p] = "get" /\ \A c \in Cqs : chan[c] = 0
    /\ owed' = [c \in Cqs |-> owed[c] - MaxCqEvents]
    /\ events' = [c \in Cqs |-> events[c] - MaxCqEvents]
    /\ Poller(p, "poll")
    /\ UNCHANGED <<hwVars, dpc, nevent, phase, notified, progress, cqFail, alive>>

\* EAGAIN: the channel is drained; events are acknowledged in batches.
AckEvents(p) ==
    LET full == {c \in Cqs : events[c] >= MaxCqEvents}
    IN  /\ ppc[p] = "get" /\ \A c \in Cqs : chan[c] = 0
        /\ owed' = [c \in Cqs |-> IF c \in full THEN owed[c] - events[c] ELSE owed[c]]
        /\ events' = [c \in Cqs |-> IF c \in full THEN 0 ELSE events[c]]
        /\ Poller(p, "poll")
        /\ UNCHANGED <<hwVars, dpc, nevent, phase, notified, progress, cqFail, alive>>

\* Mutant: the loop goes on instead of returning.
PollStoppedMutantContinue(p) ==
    /\ ppc[p] = "poll" /\ cqFail >= 2
    /\ Poller(p, "get")
    /\ UNCHANGED <<hwVars, dpc, nevent, phase, notified, progress, ackVars, cqFail, alive>>

\* A poller that sees _stop returns without giving _nevent back.
PollStopped(p) ==
    /\ ppc[p] = "poll" /\ cqFail >= 2
    /\ Poller(p, "none")
    /\ UNCHANGED <<hwVars, dpc, nevent, phase, notified, progress, ackVars, cqFail, alive>>

Batch(c) == IF Len(cq[c]) < PollBatch THEN Len(cq[c]) ELSE PollBatch

\* The queue of this phase has completions: they are handled, the phase stays.
PollSome(p) ==
    LET c == phase[p]
    IN  /\ ppc[p] = "poll" /\ cqFail < 2 /\ cq[c] # <<>>
        /\ cq' = [cq EXCEPT ![c] = SubSeq(@, Batch(c) + 1, Len(@))]
        /\ notified' = [notified EXCEPT ![p] = FALSE]
        /\ UNCHANGED <<armed, made, chan, edge, dpc, nevent, ppc, phase, progress,
                       ackVars, cqFail, alive>>

\* The queue of this phase is empty: next phase, or arm, or try to leave.
PollEmpty(p) ==
    /\ ppc[p] = "poll" /\ cqFail < 2 /\ cq[phase[p]] = <<>>
    /\ IF phase[p] # dataSend
       THEN phase' = [phase EXCEPT ![p] = @ + 1] /\ UNCHANGED ppc
       ELSE phase' = [phase EXCEPT ![p] = recv]
            /\ Poller(p, IF notified[p] THEN "more" ELSE "arm")
    /\ UNCHANGED <<hwVars, dpc, nevent, notified, progress, ackVars, cqFail, alive>>

\* Mutant: the queues are not polled again after they have been armed.
ArmCqMutantNoRepoll(p) ==
    LET c == phase[p]
    IN  /\ ppc[p] = "arm"
        /\ armed' = [armed EXCEPT ![c] = ArmKind(c)]
        /\ IF c # dataSend
           THEN phase' = [phase EXCEPT ![p] = @ + 1] /\ UNCHANGED ppc
           ELSE phase' = [phase EXCEPT ![p] = recv] /\ Poller(p, "more")
        /\ UNCHANGED <<cq, made, chan, edge, dpc, nevent, notified, progress, ackVars, cqFail, alive>>

\* ibv_req_notify_cq on each queue, then all four are polled once more.
ArmCq(p) ==
    LET c == phase[p]
    IN  /\ ppc[p] = "arm"
        /\ armed' = [armed EXCEPT ![c] = ArmKind(c)]
        /\ IF c # dataSend
           THEN phase' = [phase EXCEPT ![p] = @ + 1] /\ UNCHANGED <<ppc, notified>>
           ELSE /\ phase' = [phase EXCEPT ![p] = recv]
                /\ notified' = [notified EXCEPT ![p] = TRUE]
                /\ Poller(p, "poll")
        /\ UNCHANGED <<cq, made, chan, edge, dpc, nevent, progress, ackVars, cqFail, alive>>

\* Mutant: the counter is reset without being compared.
MoreReadEventsMutantStore(p) ==
    /\ ppc[p] = "more"
    /\ nevent' = 0
    /\ Poller(p, "none")
    /\ UNCHANGED <<hwVars, dpc, phase, notified, progress, ackVars, cqFail, alive>>

\* The CAS gives the right to poll up, unless events were added meanwhile.
MoreReadEvents(p) ==
    /\ ppc[p] = "more"
    /\ IF nevent = progress[p]
       THEN nevent' = 0 /\ Poller(p, "none") /\ UNCHANGED <<progress, notified>>
       ELSE /\ progress' = [progress EXCEPT ![p] = nevent]
            /\ notified' = [notified EXCEPT ![p] = FALSE]
            /\ Poller(p, "get")
            /\ UNCHANGED nevent
    /\ UNCHANGED <<hwVars, dpc, phase, ackVars, cqFail, alive>>

\* Any verbs call, a bad completion or the message dispatcher may fail.
PollFails(p) ==
    /\ ppc[p] \in {"get", "poll", "arm"}
    /\ Poller(p, "setFailed")
    /\ UNCHANGED <<hwVars, dpc, nevent, phase, notified, progress, ackVars, cqFail, alive>>

-----------------------------------------------------------------------------
(* Failure and the end of the queues *)

\* SetFailed returns at once when the endpoint has failed already.  The first
\* caller runs OnFailed (below); that it may leave here before OnFailed is over
\* only adds behaviours, since DeallocateResources waits for the end of OnFailed.
SetFailedByPoller(p) ==
    /\ ppc[p] = "setFailed"
    /\ \/ cqFail = 0 /\ cqFail' = 1 /\ UNCHANGED ppc
       \/ cqFail > 0 /\ Poller(p, "none") /\ UNCHANGED cqFail
    /\ UNCHANGED <<hwVars, dpc, nevent, phase, notified, progress, ackVars, alive>>

SetFailedByDispatcher ==
    /\ dpc = "setFailed"
    /\ \/ cqFail = 0 /\ cqFail' = 1 /\ UNCHANGED dpc
       \/ cqFail > 0 /\ dpc' = "idle" /\ UNCHANGED cqFail
    /\ UNCHANGED <<hwVars, nevent, pollVars, ackVars, alive>>

SetFailedByOthers ==
    /\ cqFail = 0
    /\ cqFail' = 1
    /\ UNCHANGED <<hwVars, dpc, nevent, pollVars, ackVars, alive>>

\* _stop, then the registrations under connection_mutex_.
CqOnFailed ==
    /\ cqFail \in {1, 2}
    /\ cqFail' = cqFail + 1
    /\ edge' = (edge /\ cqFail = 1)
    /\ UNCHANGED <<cq, armed, made, chan, dpc, nevent, pollVars, ackVars, alive>>

\* Mutant: what is left of the last batch is not acknowledged.
DeallocateResourcesMutantNoAck ==
    /\ alive /\ cqFail = 3 /\ dpc = "idle" /\ \A p \in Pollers : ppc[p] = "none"
    /\ alive' = FALSE
    /\ UNCHANGED <<hwVars, dpc, nevent, pollVars, ackVars, cqFail>>

\* DeallocateResources, after the last reference: the rest is acknowledged.
DeallocateResources ==
    /\ alive /\ cqFail = 3 /\ dpc = "idle" /\ \A p \in Pollers : ppc[p] = "none"
    /\ owed' = [c \in Cqs |-> owed[c] - events[c]]
    /\ events' = [c \in Cqs |-> 0]
    /\ alive' = FALSE
    /\ UNCHANGED <<hwVars, dpc, nevent, pollVars, cqFail>>

-----------------------------------------------------------------------------

Dispatcher ==
    \/ OnCompChannelEvent \/ AddReadEventStop \/ AddReadEvent
    \/ (\E p \in Pollers : StartPoller(p)) \/ SetFailedByDispatcher

PollCq(p) ==
    \/ PollBegin(p) \/ (\E c \in Cqs : GetEvent(p, c)) \/ AckEvents(p)
    \/ PollStopped(p) \/ PollSome(p) \/ PollEmpty(p) \/ ArmCq(p) \/ MoreReadEvents(p)
    \/ SetFailedByPoller(p)

CqNext ==
    \/ \E c \in Cqs, solicited \in BOOLEAN : Complete(c, solicited)
    \/ Dispatcher \/ StartPollerFails
    \/ \E p \in Pollers : PollCq(p) \/ PollFails(p)
    \/ SetFailedByOthers \/ CqOnFailed \/ DeallocateResources

CqSpec == CqInit /\ [][CqNext]_cqVars

\* The threads run; nothing has to fail and nothing has to complete.
CqFairness ==
    /\ WF_cqVars(Dispatcher)
    /\ \A p \in Pollers : WF_cqVars(PollCq(p))
    /\ WF_cqVars(CqOnFailed) /\ WF_cqVars(DeallocateResources)

CqFairSpec == CqSpec /\ CqFairness

-----------------------------------------------------------------------------
(* Properties *)

Polling(p) == ppc[p] # "none"

\* An endpoint has at most one CQ consumer: between the fetch_add from zero and
\* the CAS back to zero exactly one thread polls or is about to be started, so
\* the event counters and the read buffer need no lock.
SinglePoller ==
    /\ \A p, q \in Pollers : Polling(p) /\ Polling(q) => p = q
    /\ dpc = "start" => \A p \in Pollers : ~Polling(p)
    /\ nevent = 0 => \A p \in Pollers : ~Polling(p)

\* A completion that should have raised an event is in the queue.
Unpolled(c) == \E i \in 1..Len(cq[c]) : ArmKind(c) = "all" \/ cq[c][i]

\* No event is left behind: when nobody polls, and no edge or callback is on
\* its way, every queue of a healthy endpoint is armed and holds nothing that
\* should have raised an event.  This is why all queues are polled again after
\* they are armed, and why the CAS compares the counter.
NothingForgotten ==
    (cqFail = 0 /\ ~edge /\ dpc = "idle" /\ \A p \in Pollers : ~Polling(p)) =>
        \A c \in Cqs : armed[c] = ArmKind(c) /\ chan[c] = 0 /\ ~Unpolled(c)

\* Every fetched event is acknowledged exactly once by the time the queue is
\* destroyed, whatever path the poller left by: ibv_destroy_cq waits for it.
AckedOnce ==
    \A c \in Cqs :
        /\ owed[c] >= 0
        /\ ~alive => owed[c] = 0

\* A completion that should raise an event is polled, or the endpoint fails.
WorkIsPolled == \A c \in Cqs : Unpolled(c) ~> (~Unpolled(c) \/ cqFail > 0)

\* A failed endpoint loses its pollers and releases its queues.
QueuesReleased == cqFail > 0 ~> ~alive
=============================================================================
