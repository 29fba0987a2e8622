--------------------------- MODULE CqPollerProofs ---------------------------
(***************************************************************************)
(* Proofs that an endpoint has one poller, acknowledges what it fetched    *)
(* and forgets no completion, for any number of poller threads,            *)
(* completions and batch sizes.                                            *)
(***************************************************************************)
EXTENDS CqPoller, TLAPS

-----------------------------------------------------------------------------
(* The inductive invariant *)

\* The counter covers the poller: it is at least what the poller has seen, so
\* it cannot drop to zero under it.
OwnInv ==
    /\ SinglePoller
    /\ dpc = "start" => nevent > 0
    /\ \A p \in Pollers : Polling(p) => nevent >= progress[p] /\ progress[p] >= 1

AckInv ==
    /\ owed = events
    /\ ~alive => /\ cqFail = 3 /\ dpc = "idle"
                 /\ \A c \in Cqs : events[c] = 0
                 /\ \A p \in Pollers : ~Polling(p)

\* Somebody is going to add an event.
Signal == edge \/ dpc \in {"addressed", "add"}

\* The queue is armed, or has raised an event that nobody has fetched.
Covered(c) == armed[c] = ArmKind(c) \/ chan[c] > 0

\* An event that was raised since the poller drained the channel is going to
\* be seen by its CAS, or to be added after it.
PendingInv(p) ==
    ppc[p] \in {"poll", "arm", "more"} =>
        \A c \in Cqs : chan[c] > 0 => Signal \/ nevent > progress[p]

\* The queues the poller has armed are covered.
ArmedInv(p) ==
    /\ ppc[p] \in {"begin", "get"} => ~notified[p]
    /\ ppc[p] = "more" \/ (ppc[p] = "poll" /\ notified[p]) => \A c \in Cqs : Covered(c)
    /\ ppc[p] = "arm" => \A c \in Cqs : c < phase[p] => Covered(c)

\* The queues it has polled since it armed them hold nothing, or have raised
\* an event.
EmptyInv(p) ==
    /\ ppc[p] = "more" => \A c \in Cqs : Unpolled(c) => chan[c] > 0
    /\ ppc[p] = "poll" /\ notified[p] =>
          \A c \in Cqs : c < phase[p] /\ Unpolled(c) => chan[c] > 0

\* When nobody polls, an event that was raised is going to be added.
IdleInv ==
    (dpc \notin {"start", "setFailed"} /\ \A p \in Pollers : ~Polling(p)) =>
        /\ nevent = 0
        /\ \A c \in Cqs :
            /\ Covered(c)
            /\ Unpolled(c) => chan[c] > 0
            /\ chan[c] > 0 => Signal

CoverInv ==
    cqFail = 0 =>
        /\ IdleInv
        /\ \A p \in Pollers : PendingInv(p) /\ ArmedInv(p) /\ EmptyInv(p)

IInv == CqTypeOK /\ OwnInv /\ AckInv /\ CoverInv

-----------------------------------------------------------------------------
(* Every action keeps the invariant *)

LEMMA CqFacts == Cqs = 0..3 /\ recv = 0 /\ dataRecv = 1 /\ send = 2 /\ dataSend = 3
  BY DEF Cqs, recv, dataRecv, send, dataSend

LEMMA PhaseFacts ==
  ASSUME CqTypeOK, NEW p \in Pollers
  PROVE  /\ phase[p] \in 0..3
         /\ recv \in Cqs
         /\ phase[p] # dataSend => phase[p] + 1 \in Cqs
<1>1. phase[p] \in Cqs
  BY Zenon DEF CqTypeOK
<1>2. QED
  BY <1>1, CqFacts

LEMMA PollersAlone ==
  ASSUME OwnInv, NEW p \in Pollers, ppc[p] # "none", NEW q \in Pollers, q # p
  PROVE  ppc[q] = "none"
  BY Zenon DEF OwnInv, SinglePoller, Polling

LEMMA CompleteStep ==
  ASSUME IInv, NEW c \in Cqs, NEW solicited \in BOOLEAN, Complete(c, solicited)
  PROVE  IInv'
<1> USE DEF hwVars, pollVars, ackVars
<1>1. CqTypeOK'
  <2>1. cq' \in [Cqs -> Seq(BOOLEAN)]
    BY DEF IInv, CqTypeOK, Complete
  <2>2. armed \in [Cqs -> {"no", "solicited", "all"}] /\ chan \in [Cqs -> Nat] /\ edge \in BOOLEAN
    BY Zenon DEF IInv, CqTypeOK
  <2>3. armed' \in [Cqs -> {"no", "solicited", "all"}] /\ chan' \in [Cqs -> Nat]
    <3>1. CASE Notifies(c, solicited)
      <4>1. armed' = [armed EXCEPT ![c] = "no"] /\ chan' = [chan EXCEPT ![c] = @ + 1]
        BY <3>1, Zenon DEF Complete
      <4>2. QED
        BY <2>2, <4>1
    <3>2. CASE ~Notifies(c, solicited)
      BY <2>2, <3>2, Zenon DEF Complete
    <3>3. QED
      BY <3>1, <3>2, Zenon
  <2>4. edge' \in BOOLEAN
    BY <2>2, Zenon DEF Complete
  <2>5. made' \in 0..MaxCompletions
    BY CqPollerAssumption DEF IInv, CqTypeOK, Complete
  <2>6. QED
    BY <2>1, <2>3, <2>4, <2>5, Zenon DEF IInv, CqTypeOK, Complete
<1>2. OwnInv'
  BY Zenon DEF IInv, CqTypeOK, OwnInv, SinglePoller, Polling, Complete, Notifies
<1>3. AckInv'
  BY Zenon DEF IInv, CqTypeOK, AckInv, Polling, Complete, Notifies
<1>4. CoverInv'
  <2> SUFFICES ASSUME cqFail' = 0
               PROVE  /\ IdleInv'
                      /\ \A q \in Pollers : PendingInv(q)' /\ ArmedInv(q)' /\ EmptyInv(q)'
    BY Zenon DEF CoverInv
  <2>1. cqFail = 0 /\ IdleInv /\ \A q \in Pollers : PendingInv(q) /\ ArmedInv(q) /\ EmptyInv(q)
    BY Zenon DEF IInv, CoverInv, Complete, Notifies
  <2>2. \A d \in Cqs : chan'[d] >= chan[d] /\ (d # c => chan'[d] = chan[d] /\ armed'[d] = armed[d])
    <3>1. chan \in [Cqs -> Nat] /\ armed \in [Cqs -> {"no", "solicited", "all"}]
      BY Zenon DEF IInv, CqTypeOK
    <3>2. \/ armed' = [armed EXCEPT ![c] = "no"] /\ chan' = [chan EXCEPT ![c] = @ + 1]
          \/ UNCHANGED <<armed, chan>>
      BY Zenon DEF Complete
    <3>3. QED
      BY <3>1, <3>2
  <2>3. \A d \in Cqs : Unpolled(d)' => Unpolled(d) \/ (d = c /\ (ArmKind(c) = "all" \/ solicited))
    <3>1. ASSUME NEW d \in Cqs, d # c PROVE Unpolled(d)' => Unpolled(d)
      BY <3>1, Zenon DEF IInv, CqTypeOK, Complete, Unpolled
    <3>2. cq[c] \in Seq(BOOLEAN) /\ cq'[c] = Append(cq[c], solicited)
      BY Zenon DEF IInv, CqTypeOK, Complete
    <3>3. ASSUME Unpolled(c)' PROVE Unpolled(c) \/ ArmKind(c) = "all" \/ solicited
      <4>1. PICK i \in 1..Len(cq'[c]) : ArmKind(c) = "all" \/ cq'[c][i]
        BY <3>3, Zenon DEF Unpolled
      <4>2. CASE i = Len(cq[c]) + 1
        BY <4>1, <4>2, <3>2
      <4>3. CASE i # Len(cq[c]) + 1
        <5>1. i \in 1..Len(cq[c]) /\ cq'[c][i] = cq[c][i]
          BY <4>3, <3>2
        <5>2. QED
          BY <4>1, <5>1, Zenon DEF Unpolled
      <4>4. QED
        BY <4>2, <4>3, Zenon
    <3>4. QED
      BY <3>1, <3>3, Zenon
  <2>4. Notifies(c, solicited) => chan'[c] > 0 /\ edge'
    BY <2>1 DEF IInv, CqTypeOK, Complete
  <2>5. ~Notifies(c, solicited) => armed'[c] = armed[c] /\ chan'[c] = chan[c] /\ edge' = edge
    BY <2>1, Zenon DEF IInv, CqTypeOK, Complete
  <2>6. armed[c] = ArmKind(c) /\ (ArmKind(c) = "all" \/ solicited) => Notifies(c, solicited)
    BY Zenon DEF Notifies, ArmKind
  <2>7. Signal => Signal'
    BY <2>4, <2>5, Zenon DEF Signal, Complete
  <2>8. chan \in [Cqs -> Nat] /\ chan' \in [Cqs -> Nat]
    BY <1>1, Zenon DEF IInv, CqTypeOK
  <2>9. \A d \in Cqs : Covered(d) => Covered(d)'
    BY <2>2, <2>4, <2>5, <2>8, Zenon DEF Covered
  <2>10. \A d \in Cqs : Covered(d) /\ (Unpolled(d) => chan[d] > 0) => (Unpolled(d)' => chan'[d] > 0)
    BY <2>2, <2>3, <2>4, <2>5, <2>6, <2>8, Zenon DEF Covered
  <2>11. \A d \in Cqs : chan'[d] > 0 => chan[d] > 0 \/ Signal'
    BY <2>2, <2>4, <2>5, <2>8, Zenon DEF Signal
  <2>12. IdleInv'
    BY <2>1, <2>7, <2>9, <2>10, <2>11, Zenon DEF IdleInv, Complete, Polling
  <2> SUFFICES ASSUME NEW q \in Pollers
               PROVE  PendingInv(q)' /\ ArmedInv(q)' /\ EmptyInv(q)'
    BY <2>12, Zenon
  <2>13. PendingInv(q)'
    BY <2>1, <2>7, <2>11, Zenon DEF PendingInv, Complete
  <2>14. ArmedInv(q)'
    BY <2>1, <2>9, Zenon DEF ArmedInv, Complete
  <2>15. EmptyInv(q)'
    BY <2>1, <2>10, Zenon DEF ArmedInv, EmptyInv, Complete
  <2>16. QED
    BY <2>13, <2>14, <2>15, Zenon
<1>5. QED
  BY <1>1, <1>2, <1>3, <1>4, Zenon DEF IInv

LEMMA OnCompChannelEventStep ==
  ASSUME IInv, OnCompChannelEvent
  PROVE  IInv'
<1> USE DEF hwVars, pollVars, ackVars
<1>1. CqTypeOK'
  BY Zenon DEF IInv, CqTypeOK, OnCompChannelEvent, ArmKind
<1>2. OwnInv'
  BY Zenon DEF IInv, CqTypeOK, OwnInv, SinglePoller, Polling, OnCompChannelEvent
<1>3. AckInv'
  BY DEF IInv, CqTypeOK, AckInv, Polling, OnCompChannelEvent
<1>4. CoverInv'
  BY CqFacts DEF IInv, CqTypeOK, OwnInv, SinglePoller, CoverInv, IdleInv, PendingInv, ArmedInv,
     EmptyInv, Covered, Unpolled, Signal, Polling, ArmKind, OnCompChannelEvent
<1>5. QED
  BY <1>1, <1>2, <1>3, <1>4, Zenon DEF IInv

LEMMA AddReadEventStopStep ==
  ASSUME IInv, AddReadEventStop
  PROVE  IInv'
<1> USE DEF hwVars, pollVars, ackVars
<1>1. CqTypeOK'
  BY Zenon DEF IInv, CqTypeOK, AddReadEventStop, ArmKind
<1>2. OwnInv'
  BY Zenon DEF IInv, CqTypeOK, OwnInv, SinglePoller, Polling, AddReadEventStop
<1>3. AckInv'
  BY Zenon DEF IInv, CqTypeOK, AckInv, Polling, AddReadEventStop
<1>4. CoverInv'
  BY CqFacts DEF IInv, CqTypeOK, OwnInv, SinglePoller, CoverInv, IdleInv, PendingInv, ArmedInv,
     EmptyInv, Covered, Unpolled, Signal, Polling, ArmKind, AddReadEventStop
<1>5. QED
  BY <1>1, <1>2, <1>3, <1>4, Zenon DEF IInv

LEMMA AddReadEventStep ==
  ASSUME IInv, AddReadEvent
  PROVE  IInv'
<1> USE DEF hwVars, pollVars, ackVars
<1>1. CqTypeOK'
  BY DEF IInv, CqTypeOK, AddReadEvent, ArmKind
<1>2. OwnInv'
  BY DEF IInv, CqTypeOK, OwnInv, SinglePoller, Polling, AddReadEvent
<1>3. AckInv'
  BY Zenon DEF IInv, CqTypeOK, AckInv, Polling, AddReadEvent
<1>4. CoverInv'
  <2> SUFFICES ASSUME cqFail' = 0
               PROVE  /\ IdleInv'
                      /\ \A q \in Pollers : PendingInv(q)' /\ ArmedInv(q)' /\ EmptyInv(q)'
    BY Zenon DEF CoverInv
  <2>1. cqFail = 0 /\ IdleInv /\ \A q \in Pollers : PendingInv(q) /\ ArmedInv(q) /\ EmptyInv(q)
    BY Zenon DEF IInv, CoverInv, AddReadEvent
  <2>2. IdleInv'
    BY <2>1, Zenon DEF IInv, CqTypeOK, OwnInv, SinglePoller, IdleInv, PendingInv, ArmedInv, EmptyInv,
       Covered, Unpolled, Signal, Polling, AddReadEvent
  <2> SUFFICES ASSUME NEW q \in Pollers
               PROVE  PendingInv(q)' /\ ArmedInv(q)' /\ EmptyInv(q)'
    BY <2>2, Zenon
  <2>3. PendingInv(q)'
    BY <2>1 DEF IInv, CqTypeOK, OwnInv, SinglePoller, PendingInv, Signal, Polling, AddReadEvent
  <2>4. ArmedInv(q)'
    BY <2>1, CqFacts, Zenon DEF IInv, CqTypeOK, OwnInv, SinglePoller, ArmedInv, Covered, Polling, AddReadEvent
  <2>5. EmptyInv(q)'
    BY <2>1, CqFacts, Zenon DEF IInv, CqTypeOK, OwnInv, SinglePoller, ArmedInv, EmptyInv, Covered,
       Unpolled, Polling, AddReadEvent
  <2>6. QED
    BY <2>3, <2>4, <2>5, Zenon
<1>5. QED
  BY <1>1, <1>2, <1>3, <1>4, Zenon DEF IInv

LEMMA StartPollerStep ==
  ASSUME IInv, NEW p \in Pollers, StartPoller(p)
  PROVE  IInv'
<1> USE DEF hwVars, pollVars, ackVars
<1>1. CqTypeOK'
  <2>1. ppc' \in [Pollers -> {"none", "begin", "get", "poll", "arm", "more", "setFailed"}]
    BY Zenon DEF IInv, CqTypeOK, StartPoller, ArmKind
  <2>2. phase' \in [Pollers -> Cqs]
    BY CqFacts DEF IInv, CqTypeOK, StartPoller, ArmKind
  <2>3. notified' \in [Pollers -> BOOLEAN]
    BY Zenon DEF IInv, CqTypeOK, StartPoller, ArmKind
  <2>4. progress' \in [Pollers -> Nat]
    BY Zenon DEF IInv, CqTypeOK, StartPoller, ArmKind
  <2>5. QED
    BY <2>1, <2>2, <2>3, <2>4, Zenon DEF IInv, CqTypeOK, StartPoller
<1>2. OwnInv'
  BY DEF IInv, CqTypeOK, OwnInv, SinglePoller, Polling, StartPoller
<1>3. AckInv'
  BY Zenon DEF IInv, CqTypeOK, AckInv, Polling, StartPoller
<1>4. CoverInv'
  <2>1. /\ ppc \in [Pollers -> {"none", "begin", "get", "poll", "arm", "more", "setFailed"}]
        /\ notified \in [Pollers -> BOOLEAN]
    BY Zenon DEF IInv, CqTypeOK
  <2>2. ppc' = [ppc EXCEPT ![p] = "begin"] /\ notified' = [notified EXCEPT ![p] = FALSE]
    BY Zenon DEF StartPoller
  <2>3. \A q \in Pollers : ppc[q] = "none"
    BY Zenon DEF IInv, OwnInv, SinglePoller, Polling, StartPoller
  <2>4. ppc'[p] = "begin" /\ ~notified'[p] /\ \A q \in Pollers : q # p => ppc'[q] = "none"
    BY <2>1, <2>2, <2>3, Zenon
  <2>5. IdleInv'
    BY <2>4, Zenon DEF IdleInv, Polling
  <2>6. \A q \in Pollers : PendingInv(q)' /\ ArmedInv(q)' /\ EmptyInv(q)'
    BY <2>4, Zenon DEF PendingInv, ArmedInv, EmptyInv
  <2>7. QED
    BY <2>5, <2>6, Zenon DEF CoverInv
<1>5. QED
  BY <1>1, <1>2, <1>3, <1>4, Zenon DEF IInv

LEMMA StartPollerFailsStep ==
  ASSUME IInv, StartPollerFails
  PROVE  IInv'
<1> USE DEF hwVars, pollVars, ackVars
<1>1. CqTypeOK'
  BY Zenon DEF IInv, CqTypeOK, StartPollerFails, ArmKind
<1>2. OwnInv'
  BY Zenon DEF IInv, CqTypeOK, OwnInv, SinglePoller, Polling, StartPollerFails
<1>3. AckInv'
  BY Zenon DEF IInv, CqTypeOK, AckInv, Polling, StartPollerFails
<1>4. CoverInv'
  BY CqFacts DEF IInv, CqTypeOK, OwnInv, SinglePoller, CoverInv, IdleInv, PendingInv, ArmedInv,
     EmptyInv, Covered, Unpolled, Signal, Polling, ArmKind, StartPollerFails
<1>5. QED
  BY <1>1, <1>2, <1>3, <1>4, Zenon DEF IInv

LEMMA PollBeginStep ==
  ASSUME IInv, NEW p \in Pollers, PollBegin(p)
  PROVE  IInv'
<1> USE DEF hwVars, pollVars, ackVars
<1>1. CqTypeOK'
  BY Zenon DEF IInv, CqTypeOK, PollBegin, Poller, ArmKind
<1>2. OwnInv'
  BY Zenon DEF IInv, CqTypeOK, OwnInv, SinglePoller, Polling, PollBegin, Poller
<1>3. AckInv'
  BY Zenon DEF IInv, CqTypeOK, AckInv, Polling, PollBegin, Poller
<1>4. CoverInv'
  <2> SUFFICES ASSUME cqFail' = 0
               PROVE  /\ IdleInv'
                      /\ \A q \in Pollers : PendingInv(q)' /\ ArmedInv(q)' /\ EmptyInv(q)'
    BY Zenon DEF CoverInv
  <2>1. cqFail = 0 /\ IdleInv /\ \A q \in Pollers : PendingInv(q) /\ ArmedInv(q) /\ EmptyInv(q)
    BY Zenon DEF IInv, CoverInv, PollBegin, Poller
  <2>2. IdleInv'
    BY <2>1 DEF IInv, CqTypeOK, OwnInv, SinglePoller, IdleInv, PendingInv, ArmedInv, EmptyInv,
       Covered, Unpolled, Signal, Polling, PollBegin, Poller
  <2> SUFFICES ASSUME NEW q \in Pollers
               PROVE  PendingInv(q)' /\ ArmedInv(q)' /\ EmptyInv(q)'
    BY <2>2, Zenon
  <2>3. PendingInv(q)'
    BY <2>1, Zenon DEF IInv, CqTypeOK, OwnInv, SinglePoller, PendingInv, Signal, Polling, PollBegin, Poller
  <2>4. ArmedInv(q)'
    BY <2>1, CqFacts, Zenon DEF IInv, CqTypeOK, OwnInv, SinglePoller, ArmedInv, Covered, Polling, PollBegin, Poller
  <2>5. EmptyInv(q)'
    BY <2>1, CqFacts, Zenon DEF IInv, CqTypeOK, OwnInv, SinglePoller, ArmedInv, EmptyInv, Covered,
       Unpolled, Polling, PollBegin, Poller
  <2>6. QED
    BY <2>3, <2>4, <2>5, Zenon
<1>5. QED
  BY <1>1, <1>2, <1>3, <1>4, Zenon DEF IInv

LEMMA GetEventStep ==
  ASSUME IInv, NEW p \in Pollers, NEW c \in Cqs, GetEvent(p, c)
  PROVE  IInv'
<1> USE DEF hwVars, pollVars, ackVars
<1>1. CqTypeOK'
  <2>1. chan' \in [Cqs -> Nat]
    BY DEF IInv, CqTypeOK, GetEvent, ArmKind
  <2>2. events' \in [Cqs -> Nat]
    BY DEF IInv, CqTypeOK, GetEvent, ArmKind
  <2>3. owed' \in [Cqs -> Int]
    BY DEF IInv, CqTypeOK, GetEvent, ArmKind
  <2>4. QED
    BY <2>1, <2>2, <2>3, Zenon DEF IInv, CqTypeOK, GetEvent
<1>2. OwnInv'
  BY Zenon DEF IInv, CqTypeOK, OwnInv, SinglePoller, Polling, GetEvent
<1>3. AckInv'
  BY Zenon DEF IInv, CqTypeOK, AckInv, Polling, GetEvent
<1>4. CoverInv'
  BY CqFacts, Zenon DEF IInv, CqTypeOK, OwnInv, SinglePoller, CoverInv, IdleInv, PendingInv, ArmedInv,
     EmptyInv, Covered, Unpolled, Signal, Polling, ArmKind, GetEvent
<1>5. QED
  BY <1>1, <1>2, <1>3, <1>4, Zenon DEF IInv

LEMMA AckEventsStep ==
  ASSUME IInv, NEW p \in Pollers, AckEvents(p)
  PROVE  IInv'
<1> USE DEF hwVars, pollVars, ackVars
<1>1. CqTypeOK'
  BY DEF IInv, CqTypeOK, AckEvents, Poller, ArmKind
<1>2. OwnInv'
  BY Zenon DEF IInv, CqTypeOK, OwnInv, SinglePoller, Polling, AckEvents, Poller
<1>3. AckInv'
  BY DEF IInv, CqTypeOK, AckInv, Polling, AckEvents, Poller
<1>4. CoverInv'
  <2> SUFFICES ASSUME cqFail' = 0
               PROVE  /\ IdleInv'
                      /\ \A q \in Pollers : PendingInv(q)' /\ ArmedInv(q)' /\ EmptyInv(q)'
    BY Zenon DEF CoverInv
  <2>1. cqFail = 0 /\ IdleInv /\ \A q \in Pollers : PendingInv(q) /\ ArmedInv(q) /\ EmptyInv(q)
    BY Zenon DEF IInv, CoverInv, AckEvents, Poller
  <2>2. IdleInv'
    BY <2>1, Zenon DEF IInv, CqTypeOK, OwnInv, SinglePoller, IdleInv, PendingInv, ArmedInv, EmptyInv,
       Covered, Unpolled, Signal, Polling, AckEvents, Poller
  <2> SUFFICES ASSUME NEW q \in Pollers
               PROVE  PendingInv(q)' /\ ArmedInv(q)' /\ EmptyInv(q)'
    BY <2>2, Zenon
  <2>3. PendingInv(q)'
    BY <2>1 DEF IInv, CqTypeOK, OwnInv, SinglePoller, PendingInv, Signal, Polling, AckEvents, Poller
  <2>4. ArmedInv(q)'
    BY <2>1, CqFacts, Zenon DEF IInv, CqTypeOK, OwnInv, SinglePoller, ArmedInv, Covered, Polling, AckEvents, Poller
  <2>5. EmptyInv(q)'
    <3>1. ppc \in [Pollers -> {"none", "begin", "get", "poll", "arm", "more", "setFailed"}]
      BY Zenon DEF IInv, CqTypeOK
    <3>2. ppc[p] = "get" /\ ppc' = [ppc EXCEPT ![p] = "poll"] /\ UNCHANGED notified
      BY Zenon DEF AckEvents, Poller
    <3>3. ~notified[p]
      BY <2>1, <3>2, Zenon DEF ArmedInv
    <3>4. q # p => ppc[q] = "none"
      BY <3>2, PollersAlone, Zenon DEF IInv
    <3>5. ppc'[q] = "none" \/ (ppc'[q] = "poll" /\ ~notified'[q])
      BY <3>1, <3>2, <3>3, <3>4, Zenon
    <3>6. QED
      BY <3>5, Zenon DEF EmptyInv
  <2>6. QED
    BY <2>3, <2>4, <2>5, Zenon
<1>5. QED
  BY <1>1, <1>2, <1>3, <1>4, Zenon DEF IInv

LEMMA PollStoppedStep ==
  ASSUME IInv, NEW p \in Pollers, PollStopped(p)
  PROVE  IInv'
<1> USE DEF hwVars, pollVars, ackVars
<1>1. CqTypeOK'
  BY Zenon DEF IInv, CqTypeOK, PollStopped, Poller, ArmKind
<1>2. OwnInv'
  BY Zenon DEF IInv, CqTypeOK, OwnInv, SinglePoller, Polling, PollStopped, Poller
<1>3. AckInv'
  BY Zenon DEF IInv, CqTypeOK, AckInv, Polling, PollStopped, Poller
<1>4. CoverInv'
  BY CqFacts DEF IInv, CqTypeOK, OwnInv, SinglePoller, CoverInv, IdleInv, PendingInv, ArmedInv,
     EmptyInv, Covered, Unpolled, Signal, Polling, ArmKind, PollStopped, Poller
<1>5. QED
  BY <1>1, <1>2, <1>3, <1>4, Zenon DEF IInv

LEMMA PollSomeStep ==
  ASSUME IInv, NEW p \in Pollers, PollSome(p)
  PROVE  IInv'
<1> USE DEF hwVars, pollVars, ackVars
<1>1. CqTypeOK'
  <2>1. cq' \in [Cqs -> Seq(BOOLEAN)]
    <3>1. phase[p] \in Cqs /\ cq[phase[p]] \in Seq(BOOLEAN)
      BY Zenon DEF IInv, CqTypeOK
    <3>2. Batch(phase[p]) + 1 \in Nat \ {0} /\ Batch(phase[p]) <= Len(cq[phase[p]])
      BY <3>1, CqPollerAssumption DEF Batch
    <3>3. SubSeq(cq[phase[p]], Batch(phase[p]) + 1, Len(cq[phase[p]])) \in Seq(BOOLEAN)
      BY <3>1, <3>2
    <3>4. QED
      BY <3>3, Zenon DEF IInv, CqTypeOK, PollSome
  <2>2. notified' \in [Pollers -> BOOLEAN]
    BY Zenon DEF IInv, CqTypeOK, PollSome, Batch, ArmKind
  <2>3. QED
    BY <2>1, <2>2, Zenon DEF IInv, CqTypeOK, PollSome, Batch
<1>2. OwnInv'
  BY Zenon DEF IInv, CqTypeOK, OwnInv, SinglePoller, Polling, PollSome, Batch
<1>3. AckInv'
  BY Zenon DEF IInv, CqTypeOK, AckInv, Polling, PollSome, Batch
<1>4. CoverInv'
  <2> SUFFICES ASSUME cqFail' = 0
               PROVE  /\ IdleInv'
                      /\ \A q \in Pollers : PendingInv(q)' /\ ArmedInv(q)' /\ EmptyInv(q)'
    BY Zenon DEF CoverInv
  <2>1. cqFail = 0 /\ IdleInv /\ \A q \in Pollers : PendingInv(q) /\ ArmedInv(q) /\ EmptyInv(q)
    BY Zenon DEF IInv, CoverInv, PollSome, Batch
  <2>2. IdleInv'
    BY <2>1, Zenon DEF IInv, CqTypeOK, OwnInv, SinglePoller, IdleInv, PendingInv, ArmedInv, EmptyInv,
       Covered, Unpolled, Signal, Polling, PollSome, Batch
  <2> SUFFICES ASSUME NEW q \in Pollers
               PROVE  PendingInv(q)' /\ ArmedInv(q)' /\ EmptyInv(q)'
    BY <2>2, Zenon
  <2>3. PendingInv(q)'
    BY <2>1, Zenon DEF IInv, CqTypeOK, OwnInv, SinglePoller, PendingInv, Signal, Polling, PollSome, Batch
  <2>4. ArmedInv(q)'
    BY <2>1, CqFacts, Zenon DEF IInv, CqTypeOK, OwnInv, SinglePoller, ArmedInv, Covered, Polling, PollSome, Batch
  <2>5. EmptyInv(q)'
    BY <2>1, CqFacts, ZenonT(30) DEF IInv, CqTypeOK, OwnInv, SinglePoller, ArmedInv, EmptyInv, Covered,
       Unpolled, Polling, PollSome, Batch
  <2>6. QED
    BY <2>3, <2>4, <2>5, Zenon
<1>5. QED
  BY <1>1, <1>2, <1>3, <1>4, Zenon DEF IInv

LEMMA PollEmptyStep ==
  ASSUME IInv, NEW p \in Pollers, PollEmpty(p)
  PROVE  IInv'
<1> USE DEF hwVars, pollVars, ackVars
<1>1. CqTypeOK'
  <2>1. phase' \in [Pollers -> Cqs]
    <3>1. recv \in Cqs /\ (phase[p] # dataSend => phase[p] + 1 \in Cqs)
      BY PhaseFacts, Zenon DEF IInv
    <3>2. \/ phase' = [phase EXCEPT ![p] = phase[p] + 1] /\ phase[p] # dataSend
          \/ phase' = [phase EXCEPT ![p] = recv]
      BY Zenon DEF PollEmpty
    <3>3. QED
      BY <3>1, <3>2, Zenon DEF IInv, CqTypeOK
  <2>2. ppc' \in [Pollers -> {"none", "begin", "get", "poll", "arm", "more", "setFailed"}]
    BY ZenonT(30) DEF IInv, CqTypeOK, PollEmpty, Poller, ArmKind
  <2>3. QED
    BY <2>1, <2>2, Zenon DEF IInv, CqTypeOK, PollEmpty, Poller
<1>2. OwnInv'
  BY Zenon DEF IInv, CqTypeOK, OwnInv, SinglePoller, Polling, PollEmpty, Poller
<1>3. AckInv'
  BY Zenon DEF IInv, CqTypeOK, AckInv, Polling, PollEmpty, Poller
<1>4. CoverInv'
  <2> SUFFICES ASSUME cqFail' = 0
               PROVE  /\ IdleInv'
                      /\ \A q \in Pollers : PendingInv(q)' /\ ArmedInv(q)' /\ EmptyInv(q)'
    BY Zenon DEF CoverInv
  <2>1. cqFail = 0 /\ IdleInv /\ \A q \in Pollers : PendingInv(q) /\ ArmedInv(q) /\ EmptyInv(q)
    BY Zenon DEF IInv, CoverInv, PollEmpty, Poller
  <2>2. IdleInv'
    BY <2>1, Zenon DEF IInv, CqTypeOK, OwnInv, SinglePoller, IdleInv, PendingInv, ArmedInv, EmptyInv,
       Covered, Unpolled, Signal, Polling, PollEmpty, Poller
  <2> SUFFICES ASSUME NEW q \in Pollers
               PROVE  PendingInv(q)' /\ ArmedInv(q)' /\ EmptyInv(q)'
    BY <2>2, Zenon
  <2>3. PendingInv(q)'
    BY <2>1, Zenon DEF IInv, CqTypeOK, OwnInv, SinglePoller, PendingInv, Signal, Polling, PollEmpty, Poller
  <2>4. q # p => ArmedInv(q)' /\ EmptyInv(q)'
    <3>1. ppc \in [Pollers -> {"none", "begin", "get", "poll", "arm", "more", "setFailed"}]
      BY Zenon DEF IInv, CqTypeOK
    <3>2. ppc[p] = "poll"
      BY Zenon DEF PollEmpty
    <3>3. \/ ppc' = ppc
          \/ \E l \in {"arm", "more", "poll"} : ppc' = [ppc EXCEPT ![p] = l]
      BY Zenon DEF PollEmpty, Poller
    <3>4. q # p => ppc[q] = "none"
      BY <3>2, PollersAlone, Zenon DEF IInv
    <3>5. q # p => ppc'[q] = "none"
      BY <3>1, <3>3, <3>4, Zenon
    <3>6. QED
      BY <3>5, Zenon DEF ArmedInv, EmptyInv
  <2>5. phase[p] \in 0..3 /\ dataSend = 3 /\ recv = 0 /\ Cqs = 0..3
    BY PhaseFacts, CqFacts, Zenon DEF IInv
  <2>6. ~Unpolled(phase[p])
    BY DEF PollEmpty, Unpolled
  <2>7. CASE phase[p] # dataSend
    <3>1. phase'[p] = phase[p] + 1 /\ ppc' = ppc /\ notified' = notified /\ ppc[p] = "poll"
      BY <2>7, Zenon DEF IInv, CqTypeOK, PollEmpty
    <3>2. UNCHANGED hwVars
      BY Zenon DEF PollEmpty
    <3>3. ArmedInv(p)'
      BY <2>1, <3>1, <3>2, Zenon DEF ArmedInv, Covered
    <3>4. ASSUME notified[p], NEW d \in Cqs, d < phase[p] + 1, Unpolled(d) PROVE chan[d] > 0
      BY <2>1, <2>5, <2>6, <3>1, <3>4 DEF EmptyInv
    <3>5. EmptyInv(p)'
      BY <3>1, <3>2, <3>4, Zenon DEF EmptyInv, Unpolled
    <3>6. QED
      BY <2>3, <2>4, <3>3, <3>5, Zenon
  <2>8. CASE phase[p] = dataSend
    <3>1. phase'[p] = 0 /\ notified' = notified /\ ppc[p] = "poll"
      BY <2>5, <2>8, Zenon DEF IInv, CqTypeOK, PollEmpty
    <3>2. ppc'[p] = IF notified[p] THEN "more" ELSE "arm"
      BY <2>8, Zenon DEF IInv, CqTypeOK, PollEmpty, Poller
    <3>3. UNCHANGED hwVars
      BY Zenon DEF PollEmpty
    <3>4. ArmedInv(p)'
      BY <2>1, <2>5, <3>1, <3>2, <3>3 DEF ArmedInv, Covered
    <3>5. ASSUME notified[p], NEW d \in Cqs, Unpolled(d) PROVE chan[d] > 0
      BY <2>1, <2>5, <2>6, <2>8, <3>1, <3>5 DEF EmptyInv
    <3>6. EmptyInv(p)'
      BY <3>1, <3>2, <3>3, <3>5, Zenon DEF EmptyInv, Unpolled
    <3>7. QED
      BY <2>3, <2>4, <3>4, <3>6, Zenon
  <2>9. QED
    BY <2>7, <2>8, Zenon
<1>5. QED
  BY <1>1, <1>2, <1>3, <1>4, Zenon DEF IInv

LEMMA ArmCqStep ==
  ASSUME IInv, NEW p \in Pollers, ArmCq(p)
  PROVE  IInv'
<1> USE DEF hwVars, pollVars, ackVars
<1>1. CqTypeOK'
  <2>1. armed' \in [Cqs -> {"no", "solicited", "all"}]
    BY Zenon DEF IInv, CqTypeOK, ArmCq, Poller, ArmKind
  <2>2. phase' \in [Pollers -> Cqs]
    <3>1. recv \in Cqs /\ (phase[p] # dataSend => phase[p] + 1 \in Cqs)
      BY PhaseFacts, Zenon DEF IInv
    <3>2. \/ phase' = [phase EXCEPT ![p] = phase[p] + 1] /\ phase[p] # dataSend
          \/ phase' = [phase EXCEPT ![p] = recv]
      BY Zenon DEF ArmCq
    <3>3. QED
      BY <3>1, <3>2, Zenon DEF IInv, CqTypeOK
  <2>3. notified' \in [Pollers -> BOOLEAN]
    BY Zenon DEF IInv, CqTypeOK, ArmCq, Poller, ArmKind
  <2>4. ppc' \in [Pollers -> {"none", "begin", "get", "poll", "arm", "more", "setFailed"}]
    <3>1. ppc \in [Pollers -> {"none", "begin", "get", "poll", "arm", "more", "setFailed"}]
      BY Zenon DEF IInv, CqTypeOK
    <3>2. ppc' = ppc \/ ppc' = [ppc EXCEPT ![p] = "poll"]
      BY Zenon DEF ArmCq, Poller
    <3>3. QED
      BY <3>1, <3>2, Zenon
  <2>5. QED
    BY <2>1, <2>2, <2>3, <2>4, Zenon DEF IInv, CqTypeOK, ArmCq, Poller
<1>2. OwnInv'
  BY Zenon DEF IInv, CqTypeOK, OwnInv, SinglePoller, Polling, ArmCq, Poller
<1>3. AckInv'
  BY Zenon DEF IInv, CqTypeOK, AckInv, Polling, ArmCq, Poller
<1>4. CoverInv'
  <2> SUFFICES ASSUME cqFail' = 0
               PROVE  /\ IdleInv'
                      /\ \A q \in Pollers : PendingInv(q)' /\ ArmedInv(q)' /\ EmptyInv(q)'
    BY Zenon DEF CoverInv
  <2>1. cqFail = 0 /\ IdleInv /\ \A q \in Pollers : PendingInv(q) /\ ArmedInv(q) /\ EmptyInv(q)
    BY Zenon DEF IInv, CoverInv, ArmCq, Poller
  <2>2. IdleInv'
    BY <2>1, Zenon DEF IInv, CqTypeOK, OwnInv, SinglePoller, IdleInv, PendingInv, ArmedInv, EmptyInv,
       Covered, Unpolled, Signal, Polling, ArmCq, Poller
  <2> SUFFICES ASSUME NEW q \in Pollers
               PROVE  PendingInv(q)' /\ ArmedInv(q)' /\ EmptyInv(q)'
    BY <2>2, Zenon
  <2>3. PendingInv(q)'
    BY <2>1, Zenon DEF IInv, CqTypeOK, OwnInv, SinglePoller, PendingInv, Signal, Polling, ArmCq, Poller
  <2>4. q # p => ArmedInv(q)' /\ EmptyInv(q)'
    <3>1. ppc \in [Pollers -> {"none", "begin", "get", "poll", "arm", "more", "setFailed"}]
      BY Zenon DEF IInv, CqTypeOK
    <3>2. ppc[p] = "arm"
      BY Zenon DEF ArmCq
    <3>3. \/ ppc' = ppc
          \/ \E l \in {"arm", "more", "poll"} : ppc' = [ppc EXCEPT ![p] = l]
      BY Zenon DEF ArmCq, Poller
    <3>4. q # p => ppc[q] = "none"
      BY <3>2, PollersAlone, Zenon DEF IInv
    <3>5. q # p => ppc'[q] = "none"
      BY <3>1, <3>3, <3>4, Zenon
    <3>6. QED
      BY <3>5, Zenon DEF ArmedInv, EmptyInv
  <2>5. phase[p] \in 0..3 /\ dataSend = 3 /\ recv = 0 /\ Cqs = 0..3
    BY PhaseFacts, CqFacts, Zenon DEF IInv
  <2>6. \A d \in Cqs : d <= phase[p] => Covered(d)'
    <3>1. armed' = [armed EXCEPT ![phase[p]] = ArmKind(phase[p])] /\ chan' = chan
      BY Zenon DEF ArmCq
    <3>2. armed \in [Cqs -> {"no", "solicited", "all"}]
      BY Zenon DEF IInv, CqTypeOK
    <3>3. \A d \in Cqs : d < phase[p] => Covered(d)
      BY <2>1, Zenon DEF ArmedInv, ArmCq
    <3>4. QED
      BY <2>5, <3>1, <3>2, <3>3 DEF Covered
  <2>7. CASE phase[p] # dataSend
    <3>1. phase'[p] = phase[p] + 1 /\ ppc'[p] = "arm"
      BY <2>7, Zenon DEF IInv, CqTypeOK, ArmCq
    <3>2. \A d \in Cqs : d < phase[p] + 1 => Covered(d)'
      BY <2>5, <2>6
    <3>3. ArmedInv(p)'
      BY <3>1, <3>2, Zenon DEF ArmedInv
    <3>4. EmptyInv(p)'
      BY <3>1, Zenon DEF EmptyInv
    <3>5. QED
      BY <2>3, <2>4, <3>3, <3>4, Zenon
  <2>8. CASE phase[p] = dataSend
    <3>1. phase'[p] = 0 /\ ppc'[p] = "poll"
      BY <2>5, <2>8, Zenon DEF IInv, CqTypeOK, ArmCq, Poller
    <3>2. ArmedInv(p)' /\ EmptyInv(p)'
      BY <2>5, <2>6, <2>8, <3>1 DEF ArmedInv, EmptyInv
    <3>3. QED
      BY <2>3, <2>4, <3>2, Zenon
  <2>9. QED
    BY <2>7, <2>8, Zenon
<1>5. QED
  BY <1>1, <1>2, <1>3, <1>4, Zenon DEF IInv

LEMMA MoreReadEventsStep ==
  ASSUME IInv, NEW p \in Pollers, MoreReadEvents(p)
  PROVE  IInv'
<1> USE DEF hwVars, pollVars, ackVars
<1>1. CqTypeOK'
  <2>1. nevent' \in Nat
    BY DEF IInv, CqTypeOK, MoreReadEvents, Poller, ArmKind
  <2>2. progress' \in [Pollers -> Nat]
    BY Zenon DEF IInv, CqTypeOK, MoreReadEvents, Poller, ArmKind
  <2>3. notified' \in [Pollers -> BOOLEAN]
    BY Zenon DEF IInv, CqTypeOK, MoreReadEvents, Poller, ArmKind
  <2>4. ppc' \in [Pollers -> {"none", "begin", "get", "poll", "arm", "more", "setFailed"}]
    <3>1. ppc \in [Pollers -> {"none", "begin", "get", "poll", "arm", "more", "setFailed"}]
      BY Zenon DEF IInv, CqTypeOK
    <3>2. \E l \in {"none", "get"} : ppc' = [ppc EXCEPT ![p] = l]
      BY Zenon DEF MoreReadEvents, Poller
    <3>3. QED
      BY <3>1, <3>2, Zenon
  <2>5. QED
    BY <2>1, <2>2, <2>3, <2>4, Zenon DEF IInv, CqTypeOK, MoreReadEvents, Poller
<1>2. OwnInv'
  <2>1. nevent \in Nat /\ progress \in [Pollers -> Nat] /\ nevent >= progress[p] /\ progress[p] >= 1
    BY Zenon DEF IInv, CqTypeOK, OwnInv, Polling, MoreReadEvents
  <2>2. \A q \in Pollers : q # p => ~Polling(q)
    BY Zenon DEF IInv, OwnInv, SinglePoller, Polling, MoreReadEvents
  <2>3. dpc # "start"
    BY Zenon DEF IInv, OwnInv, SinglePoller, Polling, MoreReadEvents
  <2>4. \A q \in Pollers : q # p => ~Polling(q)'
    BY <2>2, Zenon DEF IInv, CqTypeOK, Polling, MoreReadEvents, Poller
  <2>5. CASE nevent = progress[p]
    <3>1. ~Polling(p)' /\ nevent' = 0
      BY <2>5, Zenon DEF IInv, CqTypeOK, Polling, MoreReadEvents, Poller
    <3>2. QED
      BY <2>3, <2>4, <3>1, Zenon DEF OwnInv, SinglePoller, MoreReadEvents
  <2>6. CASE nevent # progress[p]
    <3>1. progress'[p] = nevent /\ nevent' = nevent
      BY <2>1, <2>6, Zenon DEF MoreReadEvents
    <3>2. QED
      BY <2>1, <2>3, <2>4, <3>1 DEF OwnInv, SinglePoller, MoreReadEvents
  <2>7. QED
    BY <2>5, <2>6, Zenon
<1>3. AckInv'
  BY Zenon DEF IInv, CqTypeOK, AckInv, Polling, MoreReadEvents, Poller
<1>4. CoverInv'
  <2> SUFFICES ASSUME cqFail' = 0
               PROVE  /\ IdleInv'
                      /\ \A q \in Pollers : PendingInv(q)' /\ ArmedInv(q)' /\ EmptyInv(q)'
    BY Zenon DEF CoverInv
  <2>1. cqFail = 0 /\ IdleInv /\ \A q \in Pollers : PendingInv(q) /\ ArmedInv(q) /\ EmptyInv(q)
    BY Zenon DEF IInv, CoverInv, MoreReadEvents, Poller
  <2>2. IdleInv'
    BY <2>1 DEF IInv, CqTypeOK, OwnInv, SinglePoller, IdleInv, PendingInv, ArmedInv, EmptyInv,
       Covered, Unpolled, Signal, Polling, MoreReadEvents, Poller
  <2> SUFFICES ASSUME NEW q \in Pollers
               PROVE  PendingInv(q)' /\ ArmedInv(q)' /\ EmptyInv(q)'
    BY <2>2, Zenon
  <2>3. PendingInv(q)'
    <3>1. q # p => ppc'[q] = "none"
      BY Zenon DEF IInv, CqTypeOK, OwnInv, SinglePoller, Polling, MoreReadEvents, Poller
    <3>2. ppc'[p] \in {"none", "get"}
      BY Zenon DEF IInv, CqTypeOK, MoreReadEvents, Poller
    <3>3. QED
      BY <3>1, <3>2, Zenon DEF PendingInv
  <2>4. ArmedInv(q)'
    BY <2>1, CqFacts, ZenonT(30) DEF IInv, CqTypeOK, OwnInv, SinglePoller, ArmedInv, Covered, Polling, MoreReadEvents, Poller
  <2>5. EmptyInv(q)'
    BY <2>1, CqFacts, Zenon DEF IInv, CqTypeOK, OwnInv, SinglePoller, ArmedInv, EmptyInv, Covered,
       Unpolled, Polling, MoreReadEvents, Poller
  <2>6. QED
    BY <2>3, <2>4, <2>5, Zenon
<1>5. QED
  BY <1>1, <1>2, <1>3, <1>4, Zenon DEF IInv

LEMMA PollFailsStep ==
  ASSUME IInv, NEW p \in Pollers, PollFails(p)
  PROVE  IInv'
<1> USE DEF hwVars, pollVars, ackVars
<1>1. CqTypeOK'
  BY Zenon DEF IInv, CqTypeOK, PollFails, Poller, ArmKind
<1>2. OwnInv'
  BY Zenon DEF IInv, CqTypeOK, OwnInv, SinglePoller, Polling, PollFails, Poller
<1>3. AckInv'
  BY Zenon DEF IInv, CqTypeOK, AckInv, Polling, PollFails, Poller
<1>4. CoverInv'
  <2>1. ppc \in [Pollers -> {"none", "begin", "get", "poll", "arm", "more", "setFailed"}]
    BY Zenon DEF IInv, CqTypeOK
  <2>2. ppc[p] # "none" /\ ppc' = [ppc EXCEPT ![p] = "setFailed"]
    BY Zenon DEF PollFails, Poller
  <2>3. \A q \in Pollers : ppc'[q] \in {"none", "setFailed"}
    BY <2>1, <2>2, PollersAlone, Zenon DEF IInv
  <2>4. IdleInv'
    BY <2>1, <2>2, Zenon DEF IdleInv, Polling
  <2>5. \A q \in Pollers : PendingInv(q)' /\ ArmedInv(q)' /\ EmptyInv(q)'
    BY <2>3, Zenon DEF PendingInv, ArmedInv, EmptyInv
  <2>6. QED
    BY <2>4, <2>5, Zenon DEF CoverInv
<1>5. QED
  BY <1>1, <1>2, <1>3, <1>4, Zenon DEF IInv

LEMMA SetFailedByPollerStep ==
  ASSUME IInv, NEW p \in Pollers, SetFailedByPoller(p)
  PROVE  IInv'
<1> USE DEF hwVars, pollVars, ackVars
<1>1. CqTypeOK'
  <2>1. cqFail' \in 0..3
    BY DEF IInv, CqTypeOK, SetFailedByPoller, Poller, ArmKind
  <2>2. ppc' \in [Pollers -> {"none", "begin", "get", "poll", "arm", "more", "setFailed"}]
    BY Zenon DEF IInv, CqTypeOK, SetFailedByPoller, Poller, ArmKind
  <2>3. QED
    BY <2>1, <2>2, Zenon DEF IInv, CqTypeOK, SetFailedByPoller, Poller
<1>2. OwnInv'
  BY Zenon DEF IInv, CqTypeOK, OwnInv, SinglePoller, Polling, SetFailedByPoller, Poller
<1>3. AckInv'
  BY Zenon DEF IInv, CqTypeOK, AckInv, Polling, SetFailedByPoller, Poller
<1>4. CoverInv'
  <2>1. cqFail' # 0
    BY DEF IInv, CqTypeOK, SetFailedByPoller
  <2>2. QED
    BY <2>1, Zenon DEF CoverInv
<1>5. QED
  BY <1>1, <1>2, <1>3, <1>4, Zenon DEF IInv

LEMMA SetFailedByDispatcherStep ==
  ASSUME IInv, SetFailedByDispatcher
  PROVE  IInv'
<1> USE DEF hwVars, pollVars, ackVars
<1>1. CqTypeOK'
  BY DEF IInv, CqTypeOK, SetFailedByDispatcher, ArmKind
<1>2. OwnInv'
  BY Zenon DEF IInv, CqTypeOK, OwnInv, SinglePoller, Polling, SetFailedByDispatcher
<1>3. AckInv'
  BY Zenon DEF IInv, CqTypeOK, AckInv, Polling, SetFailedByDispatcher
<1>4. CoverInv'
  <2>1. cqFail' # 0
    BY DEF IInv, CqTypeOK, SetFailedByDispatcher
  <2>2. QED
    BY <2>1, Zenon DEF CoverInv
<1>5. QED
  BY <1>1, <1>2, <1>3, <1>4, Zenon DEF IInv

LEMMA SetFailedByOthersStep ==
  ASSUME IInv, SetFailedByOthers
  PROVE  IInv'
<1> USE DEF hwVars, pollVars, ackVars
<1>1. CqTypeOK'
  BY DEF IInv, CqTypeOK, SetFailedByOthers, ArmKind
<1>2. OwnInv'
  BY Zenon DEF IInv, CqTypeOK, OwnInv, SinglePoller, Polling, SetFailedByOthers
<1>3. AckInv'
  BY DEF IInv, CqTypeOK, AckInv, Polling, SetFailedByOthers
<1>4. CoverInv'
  <2>1. cqFail' # 0
    BY DEF IInv, CqTypeOK, SetFailedByOthers
  <2>2. QED
    BY <2>1, Zenon DEF CoverInv
<1>5. QED
  BY <1>1, <1>2, <1>3, <1>4, Zenon DEF IInv

LEMMA OnFailedStep ==
  ASSUME IInv, CqOnFailed
  PROVE  IInv'
<1> USE DEF hwVars, pollVars, ackVars
<1>1. CqTypeOK'
  BY DEF IInv, CqTypeOK, CqOnFailed, ArmKind
<1>2. OwnInv'
  BY Zenon DEF IInv, CqTypeOK, OwnInv, SinglePoller, Polling, CqOnFailed
<1>3. AckInv'
  BY DEF IInv, CqTypeOK, AckInv, Polling, CqOnFailed
<1>4. CoverInv'
  <2>1. cqFail' # 0
    BY DEF IInv, CqTypeOK, CqOnFailed
  <2>2. QED
    BY <2>1, Zenon DEF CoverInv
<1>5. QED
  BY <1>1, <1>2, <1>3, <1>4, Zenon DEF IInv

LEMMA DeallocateResourcesStep ==
  ASSUME IInv, DeallocateResources
  PROVE  IInv'
<1> USE DEF hwVars, pollVars, ackVars
<1>1. CqTypeOK'
  <2>1. owed' \in [Cqs -> Int]
    BY DEF IInv, CqTypeOK, DeallocateResources, ArmKind
  <2>2. events' \in [Cqs -> Nat]
    BY Zenon DEF IInv, CqTypeOK, DeallocateResources, ArmKind
  <2>3. alive' \in BOOLEAN
    BY Zenon DEF IInv, CqTypeOK, DeallocateResources, ArmKind
  <2>4. QED
    BY <2>1, <2>2, <2>3, Zenon DEF IInv, CqTypeOK, DeallocateResources
<1>2. OwnInv'
  BY Zenon DEF IInv, CqTypeOK, OwnInv, SinglePoller, Polling, DeallocateResources
<1>3. AckInv'
  BY DEF IInv, CqTypeOK, AckInv, Polling, DeallocateResources
<1>4. CoverInv'
  <2>1. cqFail' # 0
    BY DEF IInv, CqTypeOK, DeallocateResources
  <2>2. QED
    BY <2>1, Zenon DEF CoverInv
<1>5. QED
  BY <1>1, <1>2, <1>3, <1>4, Zenon DEF IInv

LEMMA IInvInit == CqInit => IInv
<1> SUFFICES ASSUME CqInit PROVE IInv
  BY Zenon
<1>1. CqTypeOK
  <2>1. recv \in Cqs /\ <<>> \in Seq(BOOLEAN)
    BY CqFacts
  <2>2. made \in 0..MaxCompletions
    BY CqPollerAssumption DEF CqInit
  <2>3. cq \in [Cqs -> Seq(BOOLEAN)] /\ phase \in [Pollers -> Cqs]
    BY <2>1, Zenon DEF CqInit
  <2>4. armed \in [Cqs -> {"no", "solicited", "all"}]
    BY Zenon DEF CqInit, ArmKind
  <2>5. chan \in [Cqs -> Nat] /\ events \in [Cqs -> Nat] /\ owed \in [Cqs -> Int]
    BY DEF CqInit
  <2>6. edge \in BOOLEAN /\ alive \in BOOLEAN /\ notified \in [Pollers -> BOOLEAN]
    BY Zenon DEF CqInit
  <2>7. QED
    BY <2>2, <2>3, <2>4, <2>5, <2>6 DEF CqInit, CqTypeOK
<1>2. OwnInv
  BY Zenon DEF CqInit, OwnInv, SinglePoller, Polling
<1>3. AckInv
  BY Zenon DEF CqInit, AckInv
<1>4. \A c \in Cqs : ~Unpolled(c) /\ Covered(c) /\ chan[c] = 0
  BY DEF CqInit, Unpolled, Covered
<1>5. \A p \in Pollers : ppc[p] = "none"
  BY Zenon DEF CqInit
<1>6. CoverInv
  BY <1>4, <1>5 DEF CqInit, CoverInv, IdleInv, PendingInv, ArmedInv, EmptyInv
<1>7. QED
  BY <1>1, <1>2, <1>3, <1>6, Zenon DEF IInv

LEMMA IInvNext == IInv /\ [CqNext]_cqVars => IInv'
<1> SUFFICES ASSUME IInv, [CqNext]_cqVars PROVE IInv'
  BY Zenon
<1>1. CASE \E c \in Cqs, solicited \in BOOLEAN : Complete(c, solicited)
  BY <1>1, CompleteStep, Zenon
<1>2. CASE Dispatcher
  BY <1>2, OnCompChannelEventStep, AddReadEventStopStep, AddReadEventStep, StartPollerStep,
     SetFailedByDispatcherStep, Zenon DEF Dispatcher
<1>3. CASE StartPollerFails
  BY <1>3, StartPollerFailsStep, Zenon
<1>4. ASSUME NEW p \in Pollers, PollCq(p) PROVE IInv'
  BY <1>4, PollBeginStep, GetEventStep, AckEventsStep, PollStoppedStep, PollSomeStep,
     PollEmptyStep, ArmCqStep, MoreReadEventsStep, SetFailedByPollerStep, Zenon DEF PollCq
<1>5. ASSUME NEW p \in Pollers, PollFails(p) PROVE IInv'
  BY <1>5, PollFailsStep, Zenon
<1>6. CASE SetFailedByOthers \/ CqOnFailed \/ DeallocateResources
  BY <1>6, SetFailedByOthersStep, OnFailedStep, DeallocateResourcesStep, Zenon
<1>7. CASE UNCHANGED cqVars
  BY <1>7, Zenon DEF cqVars, hwVars, pollVars, ackVars, IInv, CqTypeOK, OwnInv, SinglePoller, AckInv,
     CoverInv, IdleInv, PendingInv, ArmedInv, EmptyInv, Covered, Unpolled, Signal, Polling
<1>8. QED
  BY <1>1, <1>2, <1>3, <1>4, <1>5, <1>6, <1>7, Zenon DEF CqNext

LEMMA IInvAlways == CqSpec => []IInv
  BY IInvInit, IInvNext, PTL DEF CqSpec

-----------------------------------------------------------------------------
(* The theorems *)

\* The variables of PollCq and the event counters keep their types.
THEOREM TypeCorrect == CqSpec => []CqTypeOK
<1>1. IInv => CqTypeOK
  BY Zenon DEF IInv
<1>2. QED
  BY <1>1, IInvAlways, PTL

\* AddReadEvent and MoreReadEvents hand the right to poll to one thread at a
\* time, for any number of threads and events.
THEOREM OnePoller == CqSpec => []SinglePoller
<1>1. IInv => SinglePoller
  BY Zenon DEF IInv, OwnInv
<1>2. QED
  BY <1>1, IInvAlways, PTL

\* GetAndAckEvents and DeallocateResources acknowledge every event they
\* fetched exactly once, for any batch size.
THEOREM EventsAcked == CqSpec => []AckedOnce
<1>1. IInv => AckedOnce
  <2> SUFFICES ASSUME IInv, NEW c \in Cqs
               PROVE  owed[c] >= 0 /\ (~alive => owed[c] = 0)
    BY Zenon DEF AckedOnce
  <2>1. owed[c] = events[c] /\ events[c] \in Nat
    BY Zenon DEF IInv, AckInv, CqTypeOK
  <2>2. ~alive => events[c] = 0
    BY Zenon DEF IInv, AckInv
  <2>3. QED
    BY <2>1, <2>2
<1>2. QED
  BY <1>1, IInvAlways, PTL

\* PollCq leaves no completion behind that should have raised an event: polling
\* again after arming and comparing _nevent close the window between the two.
THEOREM NoEventForgotten == CqSpec => []NothingForgotten
<1>1. IInv => NothingForgotten
  <2> SUFFICES ASSUME IInv, cqFail = 0, ~edge, dpc = "idle", \A p \in Pollers : ~Polling(p),
                      NEW c \in Cqs
               PROVE  armed[c] = ArmKind(c) /\ chan[c] = 0 /\ ~Unpolled(c)
    BY Zenon DEF NothingForgotten
  <2>1. Covered(c) /\ (Unpolled(c) => chan[c] > 0) /\ ~(chan[c] > 0)
    BY Zenon DEF IInv, CoverInv, IdleInv, Signal
  <2>2. chan[c] \in Nat
    BY Zenon DEF IInv, CqTypeOK
  <2>3. QED
    BY <2>1, <2>2 DEF Covered
<1>2. QED
  BY <1>1, IInvAlways, PTL

=============================================================================
