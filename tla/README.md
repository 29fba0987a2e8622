# A TLA+ model of light-rpc

light-rpc is an RPC library over RDMA. A `FastChannel` (client) or a `FastServer`
owns endpoints; a `FastRdmaEndpoint` has a control and a data queue pair, a queue
of outgoing requests, a receive ring and four completion queues. All endpoints of
a process share one epoll thread (`EventDispatcher`) and a registered block pool,
and `src-bthread/` holds a port of the bthread runtime: a scheduler, the butex and
the primitives on top of it, timers, ids, keys, pools and containers.

What makes this code hard is that nobody owns an endpoint: epoll callbacks, poller
threads, writer threads, handshake threads and callers meet in it, hand rights over
through single atomic words, and the last of them to leave frees it. The runtime
below is of the same kind: tasks, waiters, timers, tables and blocks of memory
change hands between threads that never hold a common lock. The project is about
those hand-overs.

## Modules

| Module | Models | Run by |
|---|---|---|
| `VersionedRef` | `inc/versioned_ref_with_id.h`: the life of a pooled object reached by id | `MCVersionedRef`, `MCReuse`; proofs in `VersionedRefProofs` |
| `WriteQueue` | `fast_rdma_endpoint.cc`: `StartWrite` to `KeepWrite`, the client's connection, failure and drain | `MCWriteQueue`, `MCProgress`; proofs in `WriteQueueInv`, `WriteQueueLists`, `WriteQueueProofs` |
| `CqPoller` | `fast_rdma_endpoint.cc`: `OnCompChannelEvent`, `PollCq`, acknowledgement of events | `MCCqPoller`; proofs in `CqPollerProofs` |
| `FlowControl` | `fast_rdma_endpoint.cc`: windows, credits, send and receive rings of two connected ends | `MCOwnership`, `MCFlowControl` |
| `Connect` | `fast_server.cc`, `event_dispatcher.cc`, handshakes of `fast_rdma_endpoint.cc`: accept, shake hands, fail, close | `MCEndpoint`; proofs in `ConnectProofs` |
| `ClientConnect` | the client's asynchronous connect through the event dispatcher | itself |
| `Rpc` | `fast_channel.cc`, `fast_server.cc`, `message_dispatcher.cc`, large transfers: calls over one connection | `MCEndpoint`; proofs in `RpcProofs` |
| `Butex`, `Futex` | `butex.cpp` and `TaskGroup::interrupt`; the futex it promises to be | `MCProgress`, `Butex` |
| `Locks`, `RWLock`, `Once` | `mutex.cpp`, `condition_variable.cpp`; `rwlock.cpp` over `semaphore.cpp`; `bthread_once.cpp` | `MCProgress` |
| `WorkStealing`, `Scheduler` | `work_stealing_queue.h`; `task_group.cpp`, `task_control.cpp`, `parking_lot.h`, `remote_task_queue.h` | `MCOwnership` |
| `TimerThread` | `timer_thread.cpp` and the sleeps of `task_group.cpp` | `MCOwnership` |
| `BthreadId`; `AbaList` | `id.cpp`; `list_of_abafree_id.h` | `MCOwnership`, proofs in `IdProofs`; `MCReuse` |
| `KeyTables`, `ThreadLocals` | `key.cpp`; `thread_key.*`, `thread_local.*` | `MCReuse` |
| `BlockPool`, `LargeBlocks` | `fast_block_pool.cc` with the exit callbacks of `fast_utils.h`; `fast_large_block.cc` | `MCReuse` |
| `ResourcePool` | `resource_pool_inl.h` | `MCReuse` |
| `IOBuf` | `fast_iobuf.*`, `fast_iobuf_inl.h`, against a byte sequence | `MCReuse` |
| `FlatMap`; `BoundedQueue` | `flat_map*.h` with `single_threaded_pool.h`, against a function; `bounded_queue.h`, against a sequence | `MCReuse`; `MCOwnership` |

`PROJECT.json` gives the lines each definition models, all components (also those
that are not modelled), and the hazards of the code.

`MCEndpoint`, `MCProgress`, `MCOwnership` and `MCReuse` hold several components. A variable
`part` selects one of them in the initial state, and only that one moves; a
property of a component is required of the behaviours of its part. They are one run
because they ask one question of each of their parts; the parts do not interact
there. Where components do interact they are composed inside a module: `Connect`
holds the server, the dispatcher, the endpoints and their peers, `Rpc` the channel,
the server, the two dispatchers and the large transfers, `FlowControl` both ends and
the network, `TimerThread` the timers and the sleepers. Between layers the upper
module uses the specification of the lower: `Locks`, `RWLock`, `Once` and `BthreadId`
use the futex of `Futex`, which `Butex` is shown to implement; `RWLock` uses the mutex
as `Locks` shows it; `Connect` counts references as `VersionedRef` shows them;
`Scheduler` uses the run queue as `WorkStealing` shows it.

Memory is sequentially consistent in every module. Where the code relies on fences
(the work stealing queue) the comment of the module says which order they give.

### VersionedRef

`ver` and `nref` are the two halves of `_versioned_ref`, and an action is one atomic
access to that word or to `_additional_ref_status`. An id is represented by its
version because the slot is fixed. A thread that has read the word keeps its
snapshot in `v`, `n`, so a CAS can fail as in the code; a failed CHECK or LOG(FATAL)
is the location `check_failed`.

- A thread owns at most one reference; a caller that owns two is two threads.
- `CleanRelease` allows direct calls of `ReleaseAdditionalReference`, and `WithRevive`
  calls of `Revive`. Nothing in the repository makes either call. `Revive` is taken
  to be called by one thread at a time, after the additional reference is gone.
- The version is a natural number. The wrap of the 32-bit version, after 2^31
  generations of one slot, is not modelled.

### WriteQueue

A writer is named by the request with which it won the right to write, whichever
thread carries that right: the caller, a `KeepWrite` thread, the handshake thread or
`BeforeRecycled`. `mine[r]` is the list the writer has collected, oldest first; the
nodes that are published but not collected keep their `next` pointer. `fail` counts
the steps of a failure in the order in which the code makes them visible: version,
`_write_error`, `_stop`, registrations removed.

- A request has `NParts` parts and a work request carries up to `BlockParts`.
- The two windows are abstract: either may be exhausted before any work request.
- errno is kept as "is it EAGAIN", which is all the code asks of it.
- The exchange of HelloMessages and the bring-up of the queue pairs are one step
  that succeeds or fails.
- `OnClientHandshake` is taken to be called when the connection is ready.
  `ClientConnect` shows that the dispatcher does not call it; the properties of the
  queue are about the endpoint once it does.
- `DATA_LIST_MAX` (256) is not reached.

### CqPoller

A completion is a Boolean, solicited or not. The hardware (`Complete`, marked
external) raises one event on an armed queue and disarms it. The epoll thread sees
the channel's edge, and `_nevent` decides whether it starts a poller. `owed` is a
history variable: the events fetched and not acknowledged, for which
`ibv_destroy_cq` would wait. Any verbs call or completion may fail.

### FlowControl

Each end has a writer, which posts data, and a poller, which handles completions and
posts pure acknowledgements. The queue pairs deliver in order, and a message needs
a posted receive at the peer: the code sets the retry for a missing receive to 0, so
a message that finds none breaks the connection (`rnr`). Credits go through `htonl`
and `ntohs` byte by byte, as they do in the code.

### Connect and ClientConnect

The processes are the dispatcher thread, which runs every callback, a detached
handshake thread per connection, the peer of each connection, and the thread in
`Close`. References to an endpoint are the set of their holders. A peer may be silent
for ever, close, or go on; a bring-up may fail. `ClientConnect` has the epoll
registration of a connecting socket, edge-triggered, with the two dispatches of the
loop as two steps.

### Rpc

One thread per call, one handler thread per frame (the dispatcher detaches them, so
frames are handled in any order), the threads that return responses, the two pollers
and the threads that fail an endpoint. A call may be normal or large in either
direction; it may time out at any point where the code waits with a deadline; the
connection may fail at any point. Frames are whole: how they are cut out of the read
buffer is not modelled.

### Butex, Futex, Locks, RWLock, Once

A bthread that waits puts its waiter on its own stack and is queued from the next
stack; a waker, the timer thread and an interrupter then compete for it through the
queue or a raw pointer. `Butex` has every lock section and every unlocked access of
that protocol as a step, for bthreads and pthreads, two butexes, and all six wake
operations. `Futex` is what `butex.h` says: compare and queue atomically, leave once,
return a code that agrees with the reason. The refinement mapping of
`ImplementsFutex` reads the abstract phase of a caller off its location in the code.

`Locks` has consumers and a producer on one mutex and one condition variable, with
signal and broadcast before or after the release. `RWLock` keeps `int` and `unsigned`
arithmetic on a range four times `RWLockMaxReaders`. `Once` is the three-state word.

### The modules of MCOwnership and MCReuse

- `WorkStealing`: one step per access to `_bottom`, `_top` or `_buffer`.
- `Scheduler`: workers that run, steal and park, bthreads that start others in the
  foreground or background, yield, join, flush and end, a pthread that starts tasks
  from outside, `bthread_stop_world`. A worker keeps, of the signal word of its
  parking lot, whether it changed since it was read, which is all the code compares.
- `TimerThread`: the worker that a sleeper left schedules its timer after the switch,
  so a bthread may already run, or sleep again, while its timer is being scheduled.
- `BthreadId`: one slot of the pool, reused; versions are modulo `IdModulus`.
- `KeyTables`: the two levels of a table are one array; a worker runs one task at a
  time; the unlocked use of a list pointer against the pool's destruction is in.
- `BlockPool`: a call is one step because it runs under the lock of a bucket or the
  extend lock; the exit of a thread takes one step per node. The nodes that the refill
  of a thread's list cuts off count as given up, as in the code.
- `ResourcePool`: the lock-free addition of blocks and groups step by step.
- `IOBuf`: an action is a call; the state after it is computed by operators that follow
  the functions of the class, and compared with the sequence of bytes put in. Bytes
  are numbered, so an exchange of two is seen.
- `FlatMap`: keys hash to themselves. A position saved on an element that was erased
  and entered again may lose other elements in the code; the promise about resumed
  iterations is therefore stated for positions whose element was not.

## Runs

| Run | Instance | States | Result |
|---|---|---|---|
| `versioned_ref` | 3 threads, 2 generations | 1.14 M | all hold |
| `versioned_ref_leak` | direct release, no Revive | | `RecycleOwed` violated |
| `write_queue` | 3 requests of 2 parts, posts may fail | 813 k | all hold |
| `write_queue_post_fails` | 3 requests, posts may fail | | `OkMeansSent` violated |
| `cq_poller` | 2 poller identities, 2 completions, batches of 2, fair | 108 k | all hold |
| `endpoint` | 2 connections being closed; 2 calls, one large transfer at a time, fair | 339 k | all hold |
| `progress` | butex, mutex and condition, rwlock, once, write queue, 2 to 4 threads each, fair | 118 k | all hold |
| `ownership` | the six components of `MCOwnership` | 514 k | all hold |
| `reuse` | the nine components of `MCReuse`, `VersionedRef` with Revive and direct release | 499 k | all hold |
| `flow_credits` | queue size 16, one message | | `WindowTracks` violated |
| `client_connect` | one socket, fair | | `ConnectedShakesHands` violated |
| `butex_interrupt` | one bthread, one interrupter, fair | | `InterruptWakes` violated |

What the properties of the composed runs say:

- `ConnectSafe`: when `Close` has returned nothing of the server is in use; a running
  handshake has its endpoint and its descriptor; an end that may send finds the other
  end's queue pairs ready. `RpcSafe`: an entry of the pending map belongs to a call that
  has not returned; a large frame is kept while the hardware may read it, and slots are
  never exceeded. `OutcomeFinal`: of a response, a timeout and a failure the first wins.
  `EndingsEnd`: `Close` returns whatever the peers do, and the failure of a connection
  ends every call without the help of its timeout.
- `SyncSafe`: a wait is ended once and nobody touches a waiter after its stack is gone;
  the mutex, the rwlock and once exclude, and a sleeper on the mutex is owed a wake-up.
  `ImplementsFutex`: `Butex` refines `Futex`, its liveness included. `AllFinish`: every
  consumer, reader, writer and caller of once gets through (unless a reader timed out,
  see below), and a failed endpoint returns every request and is recycled.
- `RingsSafe`: a message meets an empty receive queue only when more pure
  acknowledgements are pending than receives are reserved; the send queue never
  overflows; buffers are not reused in flight; the buffer read is the one written; the
  last message of a list is solicited; a bounded queue is a sequence.
- `TasksKept`: an item of the work stealing queue is taken once; a task is in one place;
  no task waits while every worker sleeps unsignalled. `TimersKept`: a sleep ends once,
  and no timer is missed. `IdsSafe`: an id has one holder, errors queued will be run, and
  no locker or joiner is forgotten.
- `TablesKept`: thread-local objects and key tables are never seen by another thread or
  under a reused key, and are deleted once; a list of ids applies its function once per
  living id; a map is a function. `MemoryApart`: a block, a large block, an identifier
  is in one place. `BuffersKept`: a buffer is its bytes, and a block's count is the number
  of its uses. `ReviveSafe`: with Revive and direct releases, too, holders are safe, a slot
  is recycled once and the count is exact.

A type invariant is kept per run (`TypeOK`, `McTypeOK`).

### Bounds

- `versioned_ref*`: three threads are the least with which a stale `Address` can
  interfere between a failing thread and a holder. Two generations let an id of the
  first one meet the second. With Revive (in `reuse`) there are two threads and two
  generations; the proofs cover every number of both.
- `write_queue`: three requests allow a writer, a second request it has collected and a
  third that is being published while it tries to leave. Two parts let a request be
  half written, and posts of either part may fail.
- `cq_poller`: two poller identities are what a second poller would need. With two
  completions an event can land before, during and after the arming; a batch of two
  makes both a full and a partial batch of acknowledgements happen.
- `endpoint`: two connections, so that one is accepted or fails while another shakes
  hands and the server closes; two calls and one slot for large transfers, so that
  one of them waits for the other's. The shapes are two large requests and two large
  responses.
- `progress`: in the butex part one bthread and one pthread wait, both with deadlines,
  the bthread may be interrupted, and one waker uses each of the six operations after
  at most one store. The mutex part has two consumers, one with a deadline and one
  that may be interrupted, and a producer. The rwlock part has two readers, one with a
  deadline, and two writers, with `RWLockMaxReaders` 64. Once has three callers; the
  write queue two requests, and posts may fail.
- `ownership`, flow: the queue size is 11, the smallest with which the three thresholds
  of the code (1, 2 and 4 there) differ and are not zero; the code's least is 16, which
  multiplies the states and adds no case. One client sends more than the queue holds,
  and in a second load both ends send. Lists of 1 and 3 messages.
- `ownership`, runtime: a run queue of capacity 2 with two thieves and four items, so
  that the ring wraps and the last item is contended; two workers and two tasks per
  plan, where the plans use yield, NOSIGNAL, background, flush, foreground and join, and
  a remote queue of length 1, so that it is full; two sleeps of one bthread or one each
  of two, two timer slots so that they are reused; three threads on an id slot whose
  version starts shortly before its wrap, created twice; a queue of three items.
- `reuse`, tables: lists of ids in blocks of 4 with up to 12 entries, so that blocks
  are reused, scattered and collected; two thread-locals whose keys are reused once and
  then retired; three key tables with lists and borrowing of 2; maps of three keys in
  one bucket chain that grow from 2 buckets, five operations.
- `reuse`, memory: two buckets of three blocks, two regions and a thread list of 2,
  six operations, so that every refill and overflow happens; three large blocks; groups
  of one block of two items, two groups; buffers of six bytes in blocks of two, a ring
  that starts with four references, five calls.

Deadlock is not checked: every instance is a bounded workload that ends. Symmetry is
used in `versioned_ref*` and `write_queue*`, where only safety is checked (with the
action property `NeverAddressableAgain`, which names no thread).

### Fairness

Weak fairness is assumed of threads that are inside an operation, because the
operating system keeps running them. In particular:

- `WriteQueue`: `WaitForWritable` has a 50 ms timeout and returns. Nobody has to call
  `StartWrite` or to report a connection.
- `CqPoller`: nobody has to fail an endpoint or complete a work request.
- `Connect`: the dispatcher, the closer and each handshake thread run. Peers may be
  silent for ever; the socket timeouts of the handshake are what ends it then.
- `Rpc`: call threads, reply threads and the failure's steps run. Nothing is assumed of
  deadlines, the network or the peer.
- `Butex`: a thread that runs keeps running and a deadline is reached. Nobody has to
  call, wake or interrupt.
- `Locks`, `RWLock`, `Once`: each thread's steps; nothing of deadlines or interruptions.
- `ClientConnect`: the dispatcher runs, and the network answers a connect.

`ownership` and `reuse` are runs about safety.

## Findings

- `versioned_ref_leak`. After a release of the additional reference without
  `SetFailed`, a stale `Address` may be the last to leave. It finds an even version,
  takes the slot for a free one, and nobody recycles it. The comment of
  `ReleaseAdditionalReference` promises recycling. Today's callers all go through
  `SetFailed`, for which `NoSlotLeaked` proves that this cannot happen.
- `write_queue_post_fails`. A failed `ibv_post_send` has taken the data out of the
  request and its error code is not stored in errno. If the calling thread has EAGAIN
  there from something earlier, the failure passes for an exhausted window, and the
  request is returned as successful. The model assumes that a failed
  `ibv_post_send` leaves errno alone; with a provider that sets it, this does not
  happen. `FailedPostsShow` of `write_queue` says that this is the only way: a request
  that is returned as successful was posted, part by part, or lost a part to a post that
  failed while EAGAIN was in errno.
- `flow_credits`. Credits are sent with `htonl` and read with `ntohs`
  (`fast_rdma_endpoint.cc:1550`), which keeps the half that holds zeros. The window of
  the sender only shrinks, where the specification of the endpoint says that it grows
  by the credits received. `RingsSafe` holds with the conversion as it is.
- `client_connect`. The client registers `OnClientHandshake` as the input callback of a
  registration for `EPOLLOUT`, and the loop hands `EPOLLOUT` to the output callback,
  which is null (`event_dispatcher.cc:103`). The specification of the channel says
  that `EPOLLOUT` starts the handshake.
- `butex_interrupt`. `bthread_interrupt` takes the waiter and sets the flag under one
  lock; the wait publishes its waiter and tests the flag under another. If the waiter is
  published after it was looked for and the flag tested before it is set, nobody wakes
  the bthread, which `bthread.h` excludes.

Three behaviours of the code are in the models without being a finding, because no
line of the repository says otherwise: an `RWLock` reader that times out leaves its
count behind, after which a writer may wait for ever (`RwAllDone` excepts it); a large
request whose write completes before its block is entered in the pending map is lost
and its call ends by timeout (`Rpc`); and `acquire_tls_block` reads through a null
pointer when the chain holds only full blocks (`IOBuf` ends there, as `crashed`).

## Proofs

TLAPS checks these for every value of the constants that satisfies the modules'
assumptions, which TLC evaluates for the values of the runs: a finite set of threads and
`AtLeastNref = 2` (the repository's value) in `VersionedRef`, natural bounds in `CqPoller`,
requests that are not the two null pointers and positive sizes in `WriteQueue`, a positive
limit of transfers in `Rpc`, and in `BthreadId` ranges up to `IdMaxRange` and more versions
than the bounded number of incarnations can use up. `Connect` has no assumption. Each proof finds an inductive
invariant, which TLC had checked on the run's instance before; below is what it adds to
the properties and why they need it.

`VersionedRefProofs`: the invariant `IInv` adds to the type invariant that whoever
owns the slot (creating or recycling it) excludes holders and other owners, where
the version stands relative to the ids, what each snapshot still says about the
word, and the state of a revival. `RefCountExact` and `NoCheckFailure` are part of
it: without the exact count one cannot say that a CAS which expects zero references
finds no holder. From it follow `TypeCorrect`, `CountCorrect`, `ChecksHold`,
`HoldersAreSafe` and `RecyclesOnce`, and together `ReviveKeepsPromises`: none of them
assumes that nobody calls Revive or releases directly. `NoSlotLeaked` and `FailsOnce`
assume `~CleanRelease`, without which the first is false (see above); `FailedForGood`
assumes `~WithRevive`, as Revive makes an id addressable again. (The run `versioned_ref`
uses `McSpec`, which is `Spec` without the steps that its constants disable.)

`CqPollerProofs`: the invariant says that `_nevent` is at least what the poller has
seen (`OwnInv`), that `owed` equals the event counters (`AckInv`), and, while the
endpoint is healthy, that each queue the poller has passed is armed or has raised an
event, and that such an event is going to be seen (`CoverInv`). Theorems:
`TypeCorrect`, `OnePoller`, `EventsAcked`, `NoEventForgotten`.

`WriteQueueInv` states the invariant of the write queue and proves that types, control and
the right to write are kept; `WriteQueueLists` and `WriteQueueProofs` take its other
conjuncts. The heart is `ListInv`. The ghost sequence `order` has the requests in the order
of their exchange of `_write_head`. For some `k` the first `k` of them have been returned,
the owner of the right to write has collected the next ones (`QueueInv`), each later one
points to its predecessor or its producer still has to link it (`LinkInv`), and a scan in
`IsWriteComplete` has reversed a run of linked ones and stands before it (`ScanInv`). With
it the head is null exactly when everything was returned, so the exchange that finds null
is the only one to take the right (`SingleWriter`), and a scan that meets the cached tail
has found everything between. `CountInv` and `FatalInv` say that what is cut and what is
left of a request add up to its parts, and that a request with a part in a failed post is
failed or its owner is on the way to fail it. Theorems: `TypeCorrect`, `OneWriter`,
`NoRequestLost`, `NoUseAfterReturn`, `NoCheckFires`, `PartsInOrder`, `FailuresReported`.

`ConnectProofs`: `ConnectInv` says whose each reference to an endpoint is (`RefsInv`), that
an endpoint is in use and in the server's set exactly while it has references (`LifeInv`),
that there is one handshake thread, started after its event was unregistered (`StartInv`),
what each message in flight says of the end that sent it (`HelloInv`), and that after
`Close` has seen the listener recycled no accept callback can add an endpoint, so that the
ids it has collected are all that are alive (`CloseInv`). Theorem: `ConnectionsSafe`, for
any set of connections. Only `Settle`, the failure or release of references by whoever
does it, changes the life of an endpoint; its effect is one lemma (`SettleEffect`).

`RpcProofs`: a large transfer is in one stage at a time: not announced, NOTIFY on its way,
AUTHORITY on its way, the write, its completion (`TransferInv`), in both directions. The
transfers past their first stage are counted by `active_large_transfers_` (`SlotsInv`),
whence a completion never counts below zero, and the frame is kept in the stages in which
the hardware may read it. `RequestInv` says that a request reaches the server once and is
answered after that; `OutcomeInv` when a call may be in the pending map and what can have
decided it. The steps are sorted by what they can do to the stages (`Grown`): a stage is
gained only by the step that sends its frame. Theorems: `EndpointTypes`, `CallsSafe`,
`OutcomesFinal`, for any set of calls, any limit, and any choice of which messages are large.

`IdProofs`: the word of an id runs through versions that wrap at `IdModulus` and restart at
1 before they would, so the invariant (`IdInv`) has two forms: before the restart the
values of incarnations that are over lie just below the start of the current one, after it
they lie below or far above (`Past`). None of them is a value of the living id, which is
what makes a stale version, a stale `butex_wait` and a stale join harmless. `HolderInv`
gives a locked id its one holder and a dead one the one thread that returns its slot,
`ThreadInv` says for which incarnation each thread waits, `SleepInv` that sleepers belong
to the living id or are about to be woken. Theorem `IdHeldOnce`: `IdExclusive`, for any
threads, ranges and errors, and also for holders that unlock after
`bthread_id_about_to_destroy`. `WakeInv` adds that a sleeping locker has a marked lock, a
waker, or a woken locker that will mark it. With it, theorem `IdsKeptSafe`: `IdsSafe`, for
`~UnlocksAfterAbout` and ranges that are not one apart (`RangesApart`); without either
it is false (see the last section). It is about `IdSpec`; the run `ownership` takes the
same steps as one of its parts, and the variables of the id stand still in the others.

Only model-checked:

- all liveness (`WorkIsPolled`, `QueuesReleased`, `EndingsEnd`, `AllFinish`), since fairness
  and ENABLED are out of the prover's reach, and with it the refinement of `Futex` by
  `Butex`, which includes it;
- `SyncSafe`, the properties of `reuse`, and those of `ownership` but `IdsSafe`. `FlatMap` and `IOBuf` are
  recursive and say what a computation over sequences yields, which needs induction over
  data. The others have no proof yet: their runs are the evidence.

## Not modelled

- Verbs wrappers, `fast_resource`, `fast_shared`, `fast_unique`: calls into libibverbs
  and rdma_cm. The rollback of a partial allocation of an endpoint is straight-line
  cleanup.
- The values negotiated in the HelloMessage, socket options, and the bytes of the read
  buffer: frames are whole in `Rpc`. The server's write queue is not composed with its
  handshake, so what a reply does that is written before `_handshake_ok` is set
  (`fast_rdma_endpoint.cc:1305`) is outside the modules.
- The channel's constructor and `Close`, service lookup and protobuf.
- Scheduler: tags, the priority queue, pthread-mode tasks, growth of the concurrency,
  statistics; stacks and context switch (assembly and memory mapping).
- Contention sampling, the wrappers of `pthread_mutex`, the timed lock of a mutex. A
  writer with a deadline is in `RWLock` and not in the run.
- Three uses that the modules have and the run leaves out, because the code does not keep
  the property for them. A `ThreadLocal` made with `delete_on_thread_exit` (`ExitDtors`;
  nothing in the repository makes one) leaves its objects behind when it is destroyed, and
  the exit of a thread deletes them only if another key has taken the id. A holder may
  call `bthread_id_unlock` after `bthread_id_about_to_destroy` (`UnlocksAfterAbout`;
  `id.h:81` says that this cancels the effect of the latter). If that holder took the
  lock between a wake and the woken locker's return, it finds no contention and wakes
  nobody, the woken locker leaves with EPERM, and the others that slept are not woken by
  the unlock either. `IdsSafe` is stated for holders that go on to destroy the id.
  `bthread_id_lock_and_reset_range` may raise the range by exactly one (`LockRanges` with
  a range one above another; `id.cpp:405-455`). The value of the lock when it is taken
  then is the value that meant contended before, so a locker that read it under the
  mutex and reaches `butex_wait` later goes to sleep on a lock that is not marked, and
  the next unlock does not wake it (TLC shows it for `CreateRanges = {1}` and
  `LockRanges = {0, 2}`). `IdsSafe` is checked and proved for ranges that are not one apart.
- `ObjectPool`, which is `ResourcePool` with pointers for identifiers; linked list,
  random numbers, string formatting, clocks, errno, logging, configuration.
- The wrap of the 32-bit version of `VersionedRef`; weak memory.
