-------------------------------- MODULE Once --------------------------------
(***************************************************************************)
(* bthread_once_impl of src-bthread/bthread_once.cpp: the first caller     *)
(* runs init_routine, the others wait for it on a butex (used as Futex.tla *)
(* specifies it) whose value is the state of the initialization.           *)
(***************************************************************************)
EXTENDS FiniteSets, Naturals

CONSTANT OnceCallers

VARIABLES
    once,       \* "UNINITIALIZED", "INPROGRESS", "INITIALIZED"
    oncepc,     \* per caller: where it is
    runs,       \* how often init_routine was entered
    inited      \* init_routine has returned

onceVars == <<once, oncepc, runs, inited>>

OnceTypeOK ==
    /\ once \in {"UNINITIALIZED", "INPROGRESS", "INITIALIZED"}
    /\ oncepc \in [OnceCallers -> {"start", "cas", "init", "store", "wake", "load", "wait", "blocked",
                                   "returned"}]
    /\ runs \in Nat /\ inited \in BOOLEAN

OnceInit ==
    /\ once = "UNINITIALIZED"
    /\ oncepc = [c \in OnceCallers |-> "start"]
    /\ runs = 0 /\ inited = FALSE

OnceGo(c, from, to) == oncepc[c] = from /\ oncepc' = [oncepc EXCEPT ![c] = to]

\* The loads of the fast path and of the waiting loop.
OnceLoad(c) ==
    /\ \/ OnceGo(c, "start", IF once = "INITIALIZED" THEN "returned" ELSE "cas")
       \/ OnceGo(c, "load", IF once = "INITIALIZED" THEN "returned" ELSE "wait")
    /\ UNCHANGED <<once, runs, inited>>

\* Mutant: an initialization in progress is started again.
MakesFirstMutant == once # "INITIALIZED"

\* compare_exchange_strong(UNINITIALIZED -> INPROGRESS)
MakesFirst == once = "UNINITIALIZED"

OnceCas(c) ==
    /\ OnceGo(c, "cas", IF MakesFirst THEN "init" ELSE "load")
    /\ once' = IF MakesFirst THEN "INPROGRESS" ELSE once
    /\ runs' = runs + IF MakesFirst THEN 1 ELSE 0
    /\ UNCHANGED inited

\* init_routine runs and returns.
OnceRoutine(c) ==
    /\ OnceGo(c, "init", "store")
    /\ inited' = TRUE
    /\ UNCHANGED <<once, runs>>

OnceStore(c) ==
    /\ OnceGo(c, "store", "wake")
    /\ once' = "INITIALIZED"
    /\ UNCHANGED <<runs, inited>>

\* butex_wake_all
OnceWake(c) ==
    /\ oncepc[c] = "wake"
    /\ oncepc' = [x \in OnceCallers |->
                     CASE x = c -> "returned"
                       [] oncepc[x] = "blocked" -> "load"
                       [] OTHER -> oncepc[x]]
    /\ UNCHANGED <<once, runs, inited>>

\* butex_wait(butex, val): val was INPROGRESS when it was loaded.
OnceWait(c) ==
    /\ OnceGo(c, "wait", IF once = "INPROGRESS" THEN "blocked" ELSE "load")
    /\ UNCHANGED <<once, runs, inited>>

OnceStep(c) ==
    \/ OnceLoad(c) \/ OnceCas(c) \/ OnceRoutine(c) \/ OnceStore(c) \/ OnceWake(c) \/ OnceWait(c)

OnceNext == \E c \in OnceCallers : OnceStep(c)
OnceFairness == \A c \in OnceCallers : WF_onceVars(OnceStep(c))
OnceSpec == OnceInit /\ [][OnceNext]_onceVars /\ OnceFairness

\* init_routine runs once, and nobody returns before it has returned
\* (bthread_once.cpp:43-54).
OnceSafe ==
    /\ runs <= 1
    /\ \A c \in OnceCallers : oncepc[c] = "returned" => inited

\* Every caller returns: the wake-up after the store reaches whoever slept.
OnceReturns == <>(\A c \in OnceCallers : oncepc[c] = "returned")
=============================================================================
