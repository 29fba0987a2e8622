---------------------------- MODULE BoundedQueue ----------------------------
(***************************************************************************)
(* fast::butil::BoundedQueue (butil/bounded_queue.h): a ring of items that *)
(* grows and shrinks at both ends, against the sequence it stands for.     *)
(* "tasks" is the queue of a RemoteTaskQueue, made without storage and     *)
(* given that of "spare" by the swap of its init().                        *)
(***************************************************************************)
EXTENDS Naturals, Sequences, SequencesExt

CONSTANTS
  QueueCap,       \* the capacity of the queue that has storage
  QueueItems      \* the items pushed, a default-constructed one among them

ASSUME BoundedQueueAssumption == QueueCap \in Nat \ {0} /\ "destroyed" \notin QueueItems

VARIABLES
  bq,             \* the two queues
  bqWant,         \* the sequence each should be, from top to bottom
  bqUsed          \* a slot was constructed over a live item, or destroyed twice

bqVars == <<bq, bqWant, bqUsed>>

Queues == {"tasks", "spare"}
Dead == "destroyed"     \* a slot that holds no item
NewQueue(cap) == [count |-> 0, cap |-> cap, start |-> 0, items |-> [i \in 0..cap - 1 |-> Dead]]

BqInit ==
  /\ bq = [tasks |-> NewQueue(0), spare |-> NewQueue(QueueCap)]
  /\ bqWant = [q \in Queues |-> <<>>] /\ bqUsed = FALSE

\* _mod(): one subtraction at most, for an offset below twice the capacity.
SlotAt(off, cap) == IF off >= cap THEN off - cap ELSE off
QueueFull(q) == q.count >= q.cap

\* push(item) and push(); elim_push() of a queue with room.
Pushes(v) ==
  LET q == bq.tasks  slot == SlotAt(q.start + q.count, q.cap) IN
  /\ ~QueueFull(q)
  /\ bq' = [bq EXCEPT !.tasks.items[slot] = v, !.tasks.count = @ + 1]
  /\ bqUsed' = (bqUsed \/ q.items[slot] # Dead)
  /\ bqWant' = [bqWant EXCEPT !.tasks = Append(@, v)]

\* elim_push() of a full queue assigns over the topmost item.
ElimPushes(v) ==
  LET q == bq.tasks IN
  /\ QueueFull(q) /\ q.cap > 0
  /\ bq' = [bq EXCEPT !.tasks.items[q.start] = v, !.tasks.start = SlotAt(q.start + 1, q.cap)]
  /\ bqUsed' = (bqUsed \/ q.items[q.start] = Dead)
  /\ bqWant' = [bqWant EXCEPT !.tasks = Append(Tail(@), v)]

\* push_top(item) and push_top().
PushesTop(v) ==
  LET q == bq.tasks  slot == IF q.start # 0 THEN q.start - 1 ELSE q.cap - 1 IN
  /\ ~QueueFull(q)
  /\ bq' = [bq EXCEPT !.tasks.items[slot] = v, !.tasks.start = slot, !.tasks.count = @ + 1]
  /\ bqUsed' = (bqUsed \/ q.items[slot] # Dead)
  /\ bqWant' = [bqWant EXCEPT !.tasks = <<v>> \o @]

\* pop() and pop(item).
Pops ==
  LET q == bq.tasks IN
  /\ q.count > 0
  /\ bq' = [bq EXCEPT !.tasks.items[q.start] = Dead, !.tasks.count = @ - 1,
                      !.tasks.start = SlotAt(q.start + 1, q.cap)]
  /\ bqUsed' = (bqUsed \/ q.items[q.start] = Dead)
  /\ bqWant' = [bqWant EXCEPT !.tasks = Tail(@)]

\* pop_bottom() and pop_bottom(item).
PopsBottom ==
  LET q == bq.tasks  slot == SlotAt((q.start + q.count) - 1, q.cap) IN
  /\ q.count > 0
  /\ bq' = [bq EXCEPT !.tasks.items[slot] = Dead, !.tasks.count = @ - 1]
  /\ bqUsed' = (bqUsed \/ q.items[slot] = Dead)
  /\ bqWant' = [bqWant EXCEPT !.tasks = Front(@)]

ClearsQueue ==
  LET q == bq.tasks
      gone == {SlotAt(q.start + i, q.cap) : i \in 0..q.count - 1}
  IN
  /\ q.count > 0
  /\ bq' = [bq EXCEPT !.tasks = [q EXCEPT !.count = 0, !.start = 0,
              !.items = [s \in DOMAIN @ |-> IF s \in gone THEN Dead ELSE @[s]]]]
  /\ bqUsed' = (bqUsed \/ \E s \in gone : q.items[s] = Dead)
  /\ bqWant' = [bqWant EXCEPT !.tasks = <<>>]

SwapsQueues ==
  /\ bq' = [tasks |-> bq.spare, spare |-> bq.tasks]
  /\ bqWant' = [tasks |-> bqWant.spare, spare |-> bqWant.tasks]
  /\ UNCHANGED bqUsed

BqNext ==
  \/ \E v \in QueueItems : Pushes(v) \/ ElimPushes(v) \/ PushesTop(v)
  \/ Pops \/ PopsBottom \/ ClearsQueue \/ SwapsQueues

BqSpec == BqInit /\ [][BqNext]_bqVars

---------------------------------------------------------------------------
(* top(index) and bottom(index); top() is top(0), bottom() is bottom(0).   *)

TopAt(q, i) == IF i < q.count THEN q.items[SlotAt(q.start + i, q.cap)] ELSE Dead
BottomAt(q, i) ==
  IF i < q.count THEN q.items[SlotAt(((q.start + q.count) - i) - 1, q.cap)] ELSE Dead

BqTypeOK ==
  /\ DOMAIN bq = Queues /\ bqUsed \in BOOLEAN
  /\ \A x \in Queues : bq[x].count \in 0..bq[x].cap /\ DOMAIN bq[x].items = 0..bq[x].cap - 1

\* Whatever end items enter and leave by, and wherever the ring starts, top(i) and
\* bottom(i) read the sequence from its two ends, no item is constructed over a live one or
\* destroyed twice, and a slot outside the sequence holds nothing (bounded_queue.h:102-284).
QueueIsSequence ==
  /\ ~bqUsed
  /\ \A x \in Queues :
       LET q == bq[x]  w == bqWant[x] IN
       /\ q.count = Len(w)
       /\ \A i \in 0..q.cap : /\ TopAt(q, i) = IF i < Len(w) THEN w[i + 1] ELSE Dead
                              /\ BottomAt(q, i) = IF i < Len(w) THEN w[Len(w) - i] ELSE Dead
       /\ \A s \in DOMAIN q.items :
            q.items[s] # Dead => \E i \in 0..q.count - 1 : s = SlotAt(q.start + i, q.cap)
=============================================================================
