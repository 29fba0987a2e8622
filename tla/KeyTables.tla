----------------------------- MODULE KeyTables -----------------------------
(***************************************************************************)
(* bthread_key and the pooled key tables (src/src-bthread/key.cpp).        *)
(* A task that stores a value gets a KeyTable; when it ends the table goes *)
(* to its pool, first to a list of its worker (a ThreadLocal), in bulk     *)
(* from there to the pool's free list, and the next task that reads a      *)
(* value takes it over with what is in it.  The two-level array of a table *)
(* is one array.  A worker runs one task at a time.                        *)
(***************************************************************************)
EXTENDS Naturals, Sequences, SequencesExt, FiniteSets

CONSTANTS
  KeyWorkers,
  KeysMax,            \* KEYS_MAX
  MaxTables, MaxData, MaxKeyVersion,   \* bounds
  KeyTableListSize,   \* key_table_list_size
  BorrowSize          \* borrow_from_globle_size

ASSUME KeyTablesAssumption ==
  /\ KeysMax \in Nat \ {0} /\ MaxTables \in Nat /\ MaxData \in Nat /\ MaxKeyVersion \in Nat
  /\ KeyTableListSize \in Nat /\ BorrowSize \in Nat \ {0}

VARIABLES
  keyInfo,        \* index -> version; its destructor is set while the key is in use
  freeKeys, nkey, \* s_free_keys up to nfreekey, and nkey
  handles,        \* keys handed out, deleted ones included
  tables,         \* table -> index -> [version, data]
  freed,          \* tables deleted, in order
  curTable,       \* worker -> the table of its task, 0 if none
  pooled,         \* worker -> its task was started with the pool
  lists,          \* worker -> the pool's list of the worker
  freeTables,     \* pool->free_keytables
  poolSize, poolDestroyed,
  borrowing, returning,   \* workers between the two locked sections
  dataKey,        \* value -> the key it was set with
  ended,          \* value -> how often a destructor ran on it
  misended,       \* values a destructor ran on after their key was deleted
  strayed         \* a worker used the pool's list after its deletion

endVars == <<ended, misended>>
keyPoolVars == <<lists, freeTables, poolSize, poolDestroyed>>
keyVars == <<keyInfo, freeKeys, nkey, handles>>
keyTablesVars == <<keyVars, tables, freed, curTable, pooled, keyPoolVars, borrowing, returning,
                   dataKey, endVars, strayed>>

KeyTablesInit ==
  /\ keyInfo = [i \in 1..KeysMax |-> [version |-> 0, dtor |-> FALSE]]
  /\ freeKeys = <<>> /\ nkey = 0 /\ handles = {}
  /\ tables = <<>> /\ freed = <<>>
  /\ curTable = [w \in KeyWorkers |-> 0] /\ pooled = [w \in KeyWorkers |-> TRUE]
  /\ lists = [w \in KeyWorkers |-> <<>>] /\ freeTables = <<>>
  /\ poolSize = 0 /\ poolDestroyed = FALSE
  /\ borrowing = {} /\ returning = {}
  /\ dataKey = <<>> /\ ended = <<>> /\ misended = {} /\ strayed = FALSE

Busy(w) == w \in borrowing \cup returning

---------------------------------------------------------------------------
(* Keys: version 0 is never valid.                                         *)

BumpVersion(v) == v + 1

\* bthread_key_create2().  An index belongs to its creator from the locked section on.
KeyCreate ==
  LET index == IF freeKeys # <<>> THEN Last(freeKeys) ELSE nkey + 1
      version == IF keyInfo[index].version = 0 THEN 1 ELSE keyInfo[index].version
  IN
  /\ freeKeys # <<>> \/ nkey < KeysMax
  /\ IF freeKeys # <<>> THEN freeKeys' = Front(freeKeys) /\ UNCHANGED nkey
                        ELSE nkey' = index /\ UNCHANGED freeKeys
  /\ version <= MaxKeyVersion
  /\ keyInfo' = [keyInfo EXCEPT ![index] = [version |-> version, dtor |-> TRUE]]
  /\ handles' = handles \cup {[index |-> index, version |-> version]}
  /\ UNCHANGED <<tables, freed, curTable, pooled, keyPoolVars, borrowing, returning, dataKey, endVars>>

KeyValid(key) == keyInfo[key.index].version = key.version
KeyDelete(key) ==
  /\ key \in handles /\ KeyValid(key) /\ keyInfo[key.index].dtor
  /\ keyInfo' = [keyInfo EXCEPT ![key.index] =
                   [version |-> BumpVersion(key.version), dtor |-> FALSE]]
  /\ freeKeys' = Append(freeKeys, key.index)
  /\ UNCHANGED <<nkey, handles, tables, freed, curTable, pooled, keyPoolVars, borrowing, returning,
                 dataKey, endVars>>

---------------------------------------------------------------------------
(* The tables.                                                             *)

NoData == [version |-> 0, data |-> 0]
EmptyTable == [i \in 1..KeysMax |-> NoData]

\* SubKeyTable::get_data().
GetData(kt, key) ==
  IF tables[kt][key.index].version = key.version THEN tables[kt][key.index].data ELSE 0

\* Mutant: ~KeyTable runs the destructor of whatever key has the index now.
DtorAppliesMutant(entry, info) == info.dtor
DtorApplies(entry, info) == info.dtor /\ entry.version = info.version

\* ~KeyTable of the tables in kts (a sequence): destructors of the values whose key lives.
EndedBy(kts) ==
  {tables[kt][i].data : <<kt, i>> \in
     {p \in ToSet(kts) \X (1..KeysMax) :
        tables[p[1]][p[2]].data # 0 /\ DtorApplies(tables[p[1]][p[2]], keyInfo[p[2]])}}
DeleteTables(kts) ==
  /\ freed' = freed \o kts
  /\ ended' = [d \in 1..Len(ended) |-> IF d \in EndedBy(kts) THEN ended[d] + 1 ELSE ended[d]]
  /\ misended' = misended \cup {d \in EndedBy(kts) : ~KeyValid(dataKey[d])}

\* bthread_setspecific() of a new value: makes a table, never borrows one.
SetSpecific(w, key) ==
  LET fresh == curTable[w] = 0
      kt == IF fresh THEN Len(tables) + 1 ELSE curTable[w]
      d == Len(dataKey) + 1
      withTable == IF fresh THEN Append(tables, EmptyTable) ELSE tables
  IN
  /\ ~Busy(w) /\ key \in handles /\ KeyValid(key)
  /\ d <= MaxData /\ kt <= MaxTables
  /\ ~fresh => GetData(kt, key) = 0       \* the task asked for the old value first
  /\ tables' = [withTable EXCEPT ![kt][key.index] = [version |-> key.version, data |-> d]]
  /\ curTable' = [curTable EXCEPT ![w] = kt]
  /\ dataKey' = Append(dataKey, key) /\ ended' = Append(ended, 0)
  /\ UNCHANGED <<misended, keyVars, freed, pooled, keyPoolVars, borrowing, returning>>

---------------------------------------------------------------------------
(* bthread_getspecific() of a task without a table borrows one.            *)

BorrowLocal(w) ==
  /\ ~Busy(w) /\ curTable[w] = 0 /\ pooled[w] /\ ~poolDestroyed /\ lists[w] # <<>>
  /\ curTable' = [curTable EXCEPT ![w] = Head(lists[w])]
  /\ lists' = [lists EXCEPT ![w] = Tail(@)]
  /\ UNCHANGED <<keyVars, tables, freed, pooled, freeTables, poolSize, poolDestroyed,
                 borrowing, returning, dataKey, endVars>>

BorrowLocalEmpty(w) ==
  /\ ~Busy(w) /\ curTable[w] = 0 /\ pooled[w] /\ ~poolDestroyed /\ lists[w] = <<>>
  /\ freeTables # <<>>
  /\ borrowing' = borrowing \cup {w}
  /\ UNCHANGED <<keyVars, tables, freed, curTable, pooled, keyPoolVars, returning, dataKey, endVars>>

\* Under the write lock: move up to BorrowSize tables over, then take the first.
BorrowGlobal(w) ==
  LET n == IF Len(freeTables) < BorrowSize THEN Len(freeTables) ELSE BorrowSize
      mine == lists[w] \o SubSeq(freeTables, 1, n)
  IN
  /\ w \in borrowing /\ ~poolDestroyed
  /\ borrowing' = borrowing \ {w}
  /\ freeTables' = SubSeq(freeTables, n + 1, Len(freeTables)) /\ poolSize' = poolSize - n
  /\ IF mine = <<>> THEN UNCHANGED <<lists, curTable>>
     ELSE /\ lists' = [lists EXCEPT ![w] = Tail(mine)]
          /\ curTable' = [curTable EXCEPT ![w] = Head(mine)]
  /\ UNCHANGED <<keyVars, tables, freed, pooled, poolDestroyed, returning, dataKey, endVars>>

\* `list' was read under the read lock and is used under the write lock, unchecked: when
\* the pool was destroyed in between, the worker is in freed memory, and what follows is
\* undefined.
BorrowDeleted(w) ==
  /\ w \in borrowing /\ poolDestroyed
  /\ strayed' = TRUE /\ borrowing' = borrowing \ {w}
  /\ UNCHANGED <<keyVars, tables, freed, curTable, pooled, keyPoolVars, returning, dataKey, endVars>>

---------------------------------------------------------------------------
(* return_keytable() when a task ends.                                     *)

NextTask(w) == pooled' = [pooled EXCEPT ![w] = ~@]

EndsTask(w) ==
  /\ ~Busy(w) /\ NextTask(w)
  /\ curTable' = [curTable EXCEPT ![w] = 0]
  /\ CASE curTable[w] = 0 -> UNCHANGED <<lists, freed, endVars, returning>>
       [] curTable[w] # 0 /\ (~pooled[w] \/ poolDestroyed) ->
            DeleteTables(<<curTable[w]>>) /\ UNCHANGED <<lists, returning>>
       [] OTHER ->
            /\ lists' = [lists EXCEPT ![w] = Append(@, curTable[w])]
            /\ returning' = IF Len(lists[w]) + 1 > KeyTableListSize
                              THEN returning \cup {w} ELSE returning
            /\ UNCHANGED <<freed, endVars>>
  /\ UNCHANGED <<keyVars, tables, freeTables, poolSize, poolDestroyed, borrowing, dataKey>>

\* Mutant: the list keeps the tables it gave away.
RestOfMutant(list, n) == list
RestOf(list, n) == SubSeq(list, n + 1, Len(list))

\* move_first_n_to_target() of half the list.
MoveHalf(w) ==
  LET n == KeyTableListSize \div 2 IN
  /\ w \in returning
  /\ returning' = returning \ {w}
  /\ IF ~poolDestroyed /\ n <= Len(lists[w])
       THEN /\ freeTables' = SubSeq(lists[w], 1, n) \o freeTables
            /\ lists' = [lists EXCEPT ![w] = RestOf(@, n)]
            /\ poolSize' = poolSize + n
       ELSE UNCHANGED <<freeTables, lists, poolSize>>
  /\ UNCHANGED <<keyVars, tables, freed, curTable, pooled, poolDestroyed, borrowing, dataKey, endVars>>

---------------------------------------------------------------------------

\* bthread_keytable_pool_reserve(): one table, with a value of key.
Reserve(key) ==
  LET kt == Len(tables) + 1  d == Len(dataKey) + 1 IN
  /\ kt <= MaxTables /\ d <= MaxData /\ key \in handles /\ KeyValid(key)
  /\ poolSize = 0 /\ ~poolDestroyed
  /\ tables' = Append(tables, [EmptyTable EXCEPT ![key.index] =
                                 [version |-> key.version, data |-> d]])
  /\ dataKey' = Append(dataKey, key) /\ ended' = Append(ended, 0)
  /\ freeTables' = <<kt>> \o freeTables /\ poolSize' = poolSize + 1
  /\ UNCHANGED <<misended, keyVars, freed, curTable, pooled, lists, poolDestroyed, borrowing,
                 returning>>

\* bthread_keytable_pool_destroy(): the lists of the workers under the write lock, then
\* the free list.
AllLists == FlattenSeq([i \in 1..Cardinality(KeyWorkers) |-> lists[SetToSeq(KeyWorkers)[i]]])
PoolDestroy ==
  /\ ~poolDestroyed
  /\ poolDestroyed' = TRUE /\ poolSize' = 0
  /\ DeleteTables(AllLists \o freeTables)
  /\ lists' = [w \in KeyWorkers |-> <<>>] /\ freeTables' = <<>>
  /\ UNCHANGED <<keyVars, tables, curTable, pooled, borrowing, returning, dataKey>>

TablesStep ==
  \/ KeyCreate \/ PoolDestroy
  \/ \E key \in handles :
       KeyDelete(key) \/ Reserve(key) \/ \E w \in KeyWorkers : SetSpecific(w, key)
  \/ \E w \in KeyWorkers :
       BorrowLocal(w) \/ BorrowLocalEmpty(w) \/ BorrowGlobal(w) \/ EndsTask(w) \/ MoveHalf(w)

KeyTablesNext == ~strayed /\ \/ TablesStep /\ UNCHANGED strayed
                             \/ \E w \in KeyWorkers : BorrowDeleted(w)

KeyTablesSpec == KeyTablesInit /\ [][KeyTablesNext]_keyTablesVars

---------------------------------------------------------------------------

KeyTablesTypeOK ==
  /\ \A kt \in DOMAIN tables : \A i \in 1..KeysMax : tables[kt][i].data \in 0..Len(dataKey)
  /\ \A w \in KeyWorkers : curTable[w] \in 0..Len(tables)
  /\ freeTables \in Seq(DOMAIN tables) /\ DOMAIN ended = DOMAIN dataKey

\* Where a table is: with a task, in a worker's list, in the free list or deleted.
TablePlaces(kt) ==
  Cardinality({w \in KeyWorkers : curTable[w] = kt})
  + Len(SelectSeq(AllLists \o freeTables \o freed, LAMBDA x : x = kt))

\* A key table is in exactly one place, so two tasks never share one and none is lost or
\* deleted twice, whatever the order of borrowing, returning in bulk and destroying the
\* pool, up to the step in which a borrower uses the list of a destroyed pool; a task reads under a key only values that were set with that very key, not with
\* an older one of the same index, and reads none that was destructed; a value is
\* destructed at most once, and never once its key was deleted; the pool's size is that of its list
\* (src/src-bthread/key.cpp:96-132, 242-392, 425-462).
TablesInOnePlace ==
  /\ \A kt \in DOMAIN tables : TablePlaces(kt) = 1
  /\ \A d \in DOMAIN dataKey : ended[d] <= 1 /\ d \notin misended
  /\ \A w \in KeyWorkers, key \in handles :
       curTable[w] # 0 /\ GetData(curTable[w], key) # 0 =>
         dataKey[GetData(curTable[w], key)] = key /\ ended[GetData(curTable[w], key)] = 0
  /\ poolSize = Len(freeTables)
=============================================================================
