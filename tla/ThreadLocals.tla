---------------------------- MODULE ThreadLocals ----------------------------
(***************************************************************************)
(* ThreadKey and ThreadLocal<T> (thread_key.h, thread_key.cpp) and the     *)
(* exit functions of a thread (thread_local.cpp), in src/src-bthread/butil.*)
(* Key ids are reused; a sequence number, odd while the key is in use,     *)
(* tells the uses apart, and an id whose number could wrap is retired.     *)
(***************************************************************************)
EXTENDS Naturals, Sequences

CONSTANTS
  TlsThreads,
  Locals,         \* the ThreadLocal variables of the program
  ExitDtors,      \* the ones constructed with delete_on_thread_exit
  SeqModulus,     \* 2^64, even
  MaxKeyIds,      \* bound: ids handed out
  MaxObjects      \* bound: objects created

ASSUME TlsAssumption ==
  /\ ExitDtors \subseteq Locals /\ SeqModulus \in Nat /\ SeqModulus % 2 = 0 /\ SeqModulus >= 4
  /\ MaxKeyIds \in Nat /\ MaxObjects \in Nat

VARIABLES
  keys,           \* g_thread_keys: sequence of [seq, dtor]
  freeIds,        \* g_free_ids
  local,          \* ThreadLocal -> [id, seq, ptrs], or id 0 when there is none
  tls,            \* thread -> thread_key_tls_data, a sequence of [seq, data]
  getting,        \* thread -> the ThreadLocal whose get() it is in, and its new object
  fns,            \* thread -> functions to call at exit, the last one first
  exiting,        \* threads running their exit functions
  objects,        \* object -> the ThreadLocal, its key and the thread it was made for
  deleted         \* object -> how often it was deleted

tlsVars == <<keys, freeIds, local, tls, getting, fns, exiting, objects, deleted>>

NoLocal == [id |-> 0, seq |-> 0, ptrs |-> {}]
NotGetting == [of |-> "none", object |-> 0]

TlsInit ==
  /\ keys = <<>> /\ freeIds = <<>>
  /\ local = [x \in Locals |-> NoLocal]
  /\ tls = [t \in TlsThreads |-> <<>>]
  /\ getting = [t \in TlsThreads |-> NotGetting]
  /\ fns = [t \in TlsThreads |-> <<>>] /\ exiting = {}
  /\ objects = <<>> /\ deleted = <<>>

KeyUnused(seq) == seq % 2 = 0

\* Mutant: a key is reused although its number is about to wrap.
KeyUsableMutant(seq) == TRUE
KeyUsable(seq) == seq < (seq + 2) % SeqModulus

---------------------------------------------------------------------------

\* ThreadLocal(): thread_key_create() under g_thread_key_mutex.
NewLocal(x) ==
  LET reuse == freeIds # <<>>
      id == IF reuse THEN freeIds[Len(freeIds)] ELSE Len(keys) + 1
      old == IF reuse THEN keys[id].seq ELSE 0
      key == [seq |-> (old + 1) % SeqModulus, dtor |-> x \in ExitDtors]
  IN
  /\ local[x].id = 0
  /\ IF reuse
       THEN /\ freeIds' = SubSeq(freeIds, 1, Len(freeIds) - 1)
            /\ keys' = [keys EXCEPT ![id] = key]
       ELSE /\ Len(keys) < MaxKeyIds
            /\ keys' = Append(keys, key)
            /\ UNCHANGED freeIds
  /\ local' = [local EXCEPT ![x] = [id |-> id, seq |-> key.seq, ptrs |-> {}]]
  /\ UNCHANGED <<tls, getting, fns, exiting, objects, deleted>>

Deleting(objs) == [o \in DOMAIN deleted |-> IF o \in objs THEN deleted[o] + 1 ELSE deleted[o]]

\* ~ThreadLocal(), once no thread is in get(): thread_key_delete(), then the objects.
DeleteLocal(x) ==
  LET id == local[x].id
      seq == (keys[id].seq + 1) % SeqModulus
  IN
  /\ id # 0 /\ \A t \in TlsThreads : getting[t].of # x
  /\ keys' = [keys EXCEPT ![id].seq = seq]
  /\ freeIds' = IF KeyUsable(seq) THEN Append(freeIds, id) ELSE freeIds
  /\ deleted' = IF x \in ExitDtors THEN deleted ELSE Deleting(local[x].ptrs)
  /\ local' = [local EXCEPT ![x] = NoLocal]
  /\ UNCHANGED <<tls, getting, fns, exiting, objects>>

\* Mutant: thread_getspecific() trusts whatever sits at the key's id.
SameUseMutant(entry, seq) == TRUE
SameUse(entry, seq) == entry.seq = seq

\* thread_getspecific().
Specific(t, x) ==
  LET id == local[x].id IN
  IF id \in DOMAIN tls[t] /\ SameUse(tls[t][id], local[x].seq) THEN tls[t][id].data ELSE 0

\* Part of thread_setspecific(): the vector grows with default entries.
WithEntry(v, id, entry) ==
  [i \in 1..(IF id > Len(v) THEN id ELSE Len(v)) |->
     IF i = id THEN entry ELSE IF i \in DOMAIN v THEN v[i] ELSE [seq |-> 0, data |-> 0]]

\* ThreadLocal::get(): the object is made and set, its registration follows.  The
\* first use in a thread registers DestroyTlsData.
GetNew(t, x) ==
  LET o == Len(objects) + 1 IN
  /\ local[x].id # 0 /\ getting[t].of = "none" /\ t \notin exiting
  /\ Specific(t, x) = 0 /\ o <= MaxObjects
  /\ objects' = Append(objects, [of |-> x, id |-> local[x].id, seq |-> local[x].seq, by |-> t])
  /\ deleted' = Append(deleted, 0)
  /\ tls' = [tls EXCEPT ![t] = WithEntry(@, local[x].id, [seq |-> local[x].seq, data |-> o])]
  /\ fns' = IF tls[t] = <<>> THEN [fns EXCEPT ![t] = Append(@, "DestroyTlsData")] ELSE fns
  /\ getting' = [getting EXCEPT ![t] = [of |-> x, object |-> o]]
  /\ UNCHANGED <<keys, freeIds, local, exiting>>

GetRegisters(t) ==
  LET x == getting[t].of IN
  /\ x # "none"
  /\ local' = [local EXCEPT ![x].ptrs = @ \cup {getting[t].object}]
  /\ getting' = [getting EXCEPT ![t] = NotGetting]
  /\ UNCHANGED <<keys, freeIds, tls, fns, exiting, objects, deleted>>

\* ThreadLocal::reset(NULL) on a thread's own object.
Reset(t, x) ==
  LET o == Specific(t, x) IN
  /\ local[x].id # 0 /\ getting[t].of = "none" /\ t \notin exiting /\ o # 0
  /\ tls' = [tls EXCEPT ![t][local[x].id].data = 0]
  /\ local' = [local EXCEPT ![x].ptrs = @ \ {o}]
  /\ deleted' = Deleting({o})
  /\ UNCHANGED <<keys, freeIds, getting, fns, exiting, objects>>

---------------------------------------------------------------------------

StartExit(t) ==
  /\ t \notin exiting /\ getting[t].of = "none"
  /\ exiting' = exiting \cup {t}
  /\ UNCHANGED <<keys, freeIds, local, tls, getting, fns, objects, deleted>>

\* DestroyTlsData() with the keys as they are now.
ExitDeletes(t) ==
  {tls[t][i].data : i \in {i \in DOMAIN tls[t] : ~KeyUnused(keys[i].seq) /\ keys[i].dtor}} \ {0}

\* ~ThreadExitHelper(): the functions, last registered first; here DestroyTlsData.
RunExitFn(t) ==
  /\ t \in exiting /\ fns[t] # <<>>
  /\ fns' = [fns EXCEPT ![t] = SubSeq(@, 1, Len(@) - 1)]
  /\ deleted' = Deleting(ExitDeletes(t))
  /\ tls' = [tls EXCEPT ![t] = <<>>]
  /\ UNCHANGED <<keys, freeIds, local, getting, exiting, objects>>

TlsNext ==
  \/ \E x \in Locals : NewLocal(x) \/ DeleteLocal(x)
  \/ \E t \in TlsThreads :
       \/ \E x \in Locals : GetNew(t, x) \/ Reset(t, x)
       \/ GetRegisters(t) \/ StartExit(t) \/ RunExitFn(t)

TlsSpec == TlsInit /\ [][TlsNext]_tlsVars

---------------------------------------------------------------------------

TlsTypeOK ==
  /\ \A i \in DOMAIN keys : keys[i].seq \in 0..SeqModulus - 1
  /\ \A x \in Locals : local[x].id \in 0..Len(keys) /\ local[x].ptrs \subseteq DOMAIN objects
  /\ DOMAIN deleted = DOMAIN objects

\* A thread finds in a ThreadLocal only the object it made there itself since this
\* ThreadLocal was constructed, never one left behind under a reused key id; an object
\* is deleted once, not while its thread can still reach it, and nothing a ThreadLocal
\* made survives its destructor (src/src-bthread/butil/thread_key.cpp:54-165,
\* src/src-bthread/butil/thread_key.h:152-217).
LocalsApart ==
  /\ \A t \in TlsThreads, x \in Locals :
       LET o == Specific(t, x) IN
       local[x].id # 0 /\ o # 0 =>
         /\ objects[o].of = x /\ objects[o].by = t /\ deleted[o] = 0
         /\ o \in local[x].ptrs \/ getting[t].object = o
  /\ \A o \in DOMAIN objects :
       /\ deleted[o] <= 1
       /\ deleted[o] = 1 \/ \E x \in Locals : o \in local[x].ptrs
                         \/ \E t \in TlsThreads : getting[t].object = o
=============================================================================
