----------------------------- MODULE MCOwnership -----------------------------
(***************************************************************************)
(* What is handed from one owner to another, on small instances: buffers   *)
(* of a queue pair, the items of a queue, the blocks that IOBufs share,    *)
(* bthreads, timers, a versioned reference that is revived, and what is    *)
(* kept for an owner in a table: the ids of id lists, thread-local values, *)
(* key tables and the nodes of FlatMaps.  A behaviour is one of the parts, *)
(* chosen in the initial state; the variables of the other parts stay as   *)
(* they are.                                                               *)
(***************************************************************************)
EXTENDS FlowControl, WorkStealing, Scheduler, TimerThread, BoundedQueue, VersionedRef,
        AbaList, ThreadLocals, KeyTables, FlatMap, IOBuf

CONSTANTS t1, t2, t3    \* the threads, workers and bthreads of every part

McFlowLoads == {[e \in Ends |-> IF e = "client" THEN QpSize + 1 ELSE 0],
                [e \in Ends |-> IF e = "client" THEN 3 ELSE 2]}
McFaultLoads == {f \in McFlowLoads : f["server"] > 0}
McLotOf == (t1 :> 1) @@ (t2 :> 2) @@ (t3 :> 1)
McTaskPlans == {(t1 :> {"yield", "nosignal"}) @@ (t2 :> {"background", "flush"}),
                (t1 :> {}) @@ (t2 :> {"foreground", "join"})}
McSleepPlans == {(t1 :> 2) @@ (t2 :> 0), (t1 :> 1) @@ (t2 :> 1)}

VARIABLE part
Parts == {"flow", "steal", "schedule", "timer", "queue", "ref", "id_list", "thread_local",
          "key_table", "flat_map", "iobuf"}

\* The variables by group: what a part leaves alone is the rest of its group and the others.
bufferVars == <<flowVars, bqVars, ioVars>>
runVars == <<wsqVars, schedVars, timerVars>>
tableVars == <<abaVars, tlsVars, keyTablesVars, fmVars>>
McVars == <<part, bufferVars, runVars, refVars, tableVars>>

McInit ==
  /\ part \in Parts
  /\ WsqInit /\ BqInit /\ IOBufInit /\ RefInit
  /\ AbaInit /\ TlsInit /\ KeyTablesInit /\ FlatMapInit
  /\ FlowInit /\ (part # "flow" => load["server"] = 0)
  /\ SchedInit /\ (part # "schedule" => toDo[t1] = {})
  /\ TimerInit /\ (part # "timer" => \A b \in Sleepers : sleepsLeft[b] = 1)

Queueing(p, step) == part = p /\ step /\ UNCHANGED <<part, runVars, refVars, tableVars>>
Threading(p, step) == part = p /\ step /\ UNCHANGED <<part, bufferVars, refVars, tableVars>>
Tabling(p, step) == part = p /\ step /\ UNCHANGED <<part, bufferVars, runVars, refVars>>

McNext ==
  \/ Queueing("flow", FlowNext) /\ UNCHANGED <<bqVars, ioVars>>
  \/ Queueing("queue", BqNext) /\ UNCHANGED <<flowVars, ioVars>>
  \/ Queueing("iobuf", IOBufNext) /\ UNCHANGED <<flowVars, bqVars>>
  \/ Threading("steal", WsqNext) /\ UNCHANGED <<schedVars, timerVars>>
  \/ Threading("schedule", SchedNext) /\ UNCHANGED <<wsqVars, timerVars>>
  \/ Threading("timer", TimerNext) /\ UNCHANGED <<wsqVars, schedVars>>
  \/ part = "ref" /\ RefNext /\ UNCHANGED <<part, bufferVars, runVars, tableVars>>
  \/ Tabling("id_list", AbaNext) /\ UNCHANGED <<tlsVars, keyTablesVars, fmVars>>
  \/ Tabling("thread_local", TlsNext) /\ UNCHANGED <<abaVars, keyTablesVars, fmVars>>
  \/ Tabling("key_table", KeyTablesNext) /\ UNCHANGED <<abaVars, tlsVars, fmVars>>
  \/ Tabling("flat_map", FlatMapNext) /\ UNCHANGED <<abaVars, tlsVars, keyTablesVars>>

McSpec == McInit /\ [][McNext]_McVars

-----------------------------------------------------------------------------

\* A part is judged while it moves; the others are in their initial state.
In(p, inv) == part = p => inv

\* The type invariants of the parts.
McTypeOK ==
  /\ In("flow", FlowTypeOK) /\ In("steal", WsqTypeOK) /\ In("schedule", SchedTypeOK)
  /\ In("timer", TimerTypeOK) /\ In("queue", BqTypeOK) /\ In("ref", RefTypeOK)
  /\ In("id_list", AbaTypeOK) /\ In("thread_local", TlsTypeOK)
  /\ In("key_table", KeyTablesTypeOK) /\ In("flat_map", FlatMapTypeOK)
  /\ In("iobuf", IOBufTypeOK)

\* The rings of a queue pair: the send queue does not overflow, a
\* send buffer is held until the hardware is done with it, a completion is matched with
\* the receive buffer it filled, and the last message of a burst wakes the peer's poller:
\* SendQueueFits, SendBuffersHeld, ReceiveBufferMatches and NoSilentTail
\* (src/src-endpoint/fast_rdma_endpoint.cc, CutFromIOBufList and HandleCompletion).  The ring
\* of a BoundedQueue is the sequence of its items: QueueIsSequence
\* (src/src-bthread/butil/bounded_queue.h).
RingsSafe ==
  /\ In("flow", SendQueueFits /\ SendBuffersHeld /\ ReceiveBufferMatches /\ NoSilentTail)
  /\ In("queue", QueueIsSequence)

\* A bthread that was made ready is in exactly one run queue or on one worker, an item of a
\* work-stealing queue is taken once, and no worker sleeps on a task it was signalled for:
\* EachTakenOnce, OnePlace and NoneStranded (src/src-bthread/task_group.cpp, task_control.cpp,
\* parking_lot.h, work_stealing_queue.h).
TasksKept == In("steal", EachTakenOnce) /\ In("schedule", OnePlace /\ NoneStranded)

\* A sleep ends once, by its timer or by an interruption and never by the timer of an
\* earlier sleep, and the timer thread never sleeps past a task in a bucket: SleepEndsOnce
\* and NoTimerMissed (src/src-bthread/timer_thread.cpp, task_group.cpp:883-1039).
TimersKept == In("timer", SleepEndsOnce /\ NoTimerMissed)

\* A thread-local value belongs to one thread and one key, a key table, its values included,
\* to one task, list or pool, a valid id of an id list is reset once and not dropped by
\* a collection, and a FlatMap is the function that was put into it, an iteration resumed
\* from a saved position included: LocalsApart, TablesInOnePlace, AppliedOnce and MapsKept
\* (src/src-bthread/butil/thread_key.cpp, src/src-bthread/key.cpp, list_of_abafree_id.h,
\* butil/flat_map_inl.h).
TablesKept ==
  /\ In("thread_local", LocalsApart) /\ In("key_table", TablesInOnePlace)
  /\ In("id_list", AppliedOnce) /\ In("flat_map", MapsKept)

\* An IOBuf is the bytes that were put into it, whatever it shares with other buffers, and
\* a block is counted once for every reference to it, so it is freed once and not before
\* its last use; what an output stream backs up over is what it wrote: BytesKept,
\* BlocksCounted and OutputChecksHold (src/src-common/fast_iobuf.cc).
BuffersKept == In("iobuf", BytesKept /\ BlocksCounted /\ OutputChecksHold)
==============================================================================
