---------------------------- MODULE WorkStealing ----------------------------
(***************************************************************************)
(* WorkStealingQueue<T> (src/src-bthread/work_stealing_queue.h), the run   *)
(* queue of a TaskGroup: the owner pushes and pops at the bottom, other    *)
(* workers steal at the top.  A step is one access to _bottom, _top or     *)
(* _buffer; the seq_cst fences of pop() and steal() order the accesses the *)
(* way the steps are ordered.  Items are numbered in the order of push().  *)
(***************************************************************************)
EXTENDS Naturals, FiniteSets

CONSTANTS
  Thieves,        \* workers that call steal()
  WsqCapacity,    \* _capacity, a power of two
  MaxItems        \* bound: how many items the owner pushes

ASSUME WsqAssumption == WsqCapacity \in {1, 2, 4, 8} /\ MaxItems \in Nat

VARIABLES
  wsqBottom, wsqTop, wsqBuffer,
  pushed,         \* number of items pushed so far
  got,            \* got[i]: how often item i was returned by pop() or steal()
  owner,          \* the owner's place in push() or pop()
  thief           \* each thief's place in steal(), with the t and val it holds

wsqVars == <<wsqBottom, wsqTop, wsqBuffer, pushed, got, owner, thief>>

Slot(i) == i % WsqCapacity
OwnerAt(pc, t) == [pc |-> pc, t |-> t]
ThiefAt(pc, t, val) == [pc |-> pc, t |-> t, val |-> val]

\* WorkStealingQueue() and init(): both indices start at 1, the buffer holds nothing.
WsqInit ==
  /\ wsqBottom = 1 /\ wsqTop = 1
  /\ wsqBuffer = [i \in 0..WsqCapacity - 1 |-> 0]
  /\ pushed = 0
  /\ got = [i \in 1..MaxItems |-> 0]
  /\ owner = OwnerAt("idle", 0)
  /\ thief = [s \in Thieves |-> ThiefAt("idle", 0, 0)]

Return(i) == got' = [got EXCEPT ![i] = @ + 1]

---------------------------------------------------------------------------
(* push(): the load of _top, then the store of the item, then of _bottom.  *)

\* Mutant: the room is judged one slot too generously.
FullMutant(b, t) == b > t + WsqCapacity
Full(b, t) == b >= t + WsqCapacity

PushLoad ==
  /\ owner.pc = "idle" /\ pushed < MaxItems
  /\ owner' = IF Full(wsqBottom, wsqTop) THEN owner ELSE OwnerAt("write", 0)
  /\ UNCHANGED <<wsqBottom, wsqTop, wsqBuffer, pushed, got, thief>>

PushWrite ==
  /\ owner.pc = "write"
  /\ wsqBuffer' = [wsqBuffer EXCEPT ![Slot(wsqBottom)] = pushed + 1]
  /\ owner' = OwnerAt("publish", 0)
  /\ UNCHANGED <<wsqBottom, wsqTop, pushed, got, thief>>

PushPublish ==
  /\ owner.pc = "publish"
  /\ wsqBottom' = wsqBottom + 1 /\ pushed' = pushed + 1
  /\ owner' = OwnerAt("idle", 0)
  /\ UNCHANGED <<wsqTop, wsqBuffer, got, thief>>

---------------------------------------------------------------------------
(* pop(): _bottom is lowered first, and only then _top is looked at.       *)

PopLoad ==
  /\ owner.pc = "idle" /\ wsqTop < wsqBottom
  /\ owner' = OwnerAt("reserve", 0)
  /\ UNCHANGED <<wsqBottom, wsqTop, wsqBuffer, pushed, got, thief>>

PopReserve ==
  /\ owner.pc = "reserve"
  /\ wsqBottom' = wsqBottom - 1
  /\ owner' = OwnerAt("reload", 0)
  /\ UNCHANGED <<wsqTop, wsqBuffer, pushed, got, thief>>

\* Mutant: the last item is taken without competing with steal().
UncontestedMutant(t, newb) == t <= newb
Uncontested(t, newb) == t < newb

\* The second load of _top: an item that no thief can reach is returned at once.
PopReload ==
  /\ owner.pc = "reload"
  /\ IF wsqTop > wsqBottom
       THEN owner' = OwnerAt("restore", 0) /\ UNCHANGED got
       ELSE IF Uncontested(wsqTop, wsqBottom)
         THEN owner' = OwnerAt("idle", 0) /\ Return(wsqBuffer[Slot(wsqBottom)])
         ELSE owner' = OwnerAt("compete", wsqTop) /\ UNCHANGED got
  /\ UNCHANGED <<wsqBottom, wsqTop, wsqBuffer, pushed, thief>>

\* The compare_exchange on _top for the single last item.
PopCompete ==
  /\ owner.pc = "compete"
  /\ IF wsqTop = owner.t
       THEN wsqTop' = owner.t + 1 /\ Return(wsqBuffer[Slot(wsqBottom)])
       ELSE UNCHANGED <<wsqTop, got>>
  /\ owner' = OwnerAt("restore", 0)
  /\ UNCHANGED <<wsqBottom, wsqBuffer, pushed, thief>>

PopRestore ==
  /\ owner.pc = "restore"
  /\ wsqBottom' = wsqBottom + 1
  /\ owner' = OwnerAt("idle", 0)
  /\ UNCHANGED <<wsqTop, wsqBuffer, pushed, got, thief>>

---------------------------------------------------------------------------
(* steal()                                                                 *)

Thief(s, at) == thief' = [thief EXCEPT ![s] = at]
StealVars == <<wsqBottom, wsqBuffer, pushed, owner>>

StealLoad(s) ==
  /\ thief[s].pc = "idle"
  /\ Thief(s, ThiefAt("check", wsqTop, 0))
  /\ UNCHANGED <<StealVars, wsqTop, got>>

\* The load of _bottom, before the loop and again in every round of it.
StealCheck(s) ==
  /\ thief[s].pc \in {"check", "recheck"}
  /\ Thief(s, IF thief[s].t >= wsqBottom THEN ThiefAt("idle", 0, 0)
              ELSE IF thief[s].pc = "check" THEN ThiefAt("recheck", thief[s].t, 0)
              ELSE ThiefAt("read", thief[s].t, 0))
  /\ UNCHANGED <<StealVars, wsqTop, got>>

StealRead(s) ==
  /\ thief[s].pc = "read"
  /\ Thief(s, ThiefAt("cas", thief[s].t, wsqBuffer[Slot(thief[s].t)]))
  /\ UNCHANGED <<StealVars, wsqTop, got>>

\* A failed compare_exchange loads the new _top into t and goes round again.
StealCas(s) ==
  /\ thief[s].pc = "cas"
  /\ IF wsqTop = thief[s].t
       THEN /\ wsqTop' = wsqTop + 1 /\ Return(thief[s].val)
            /\ Thief(s, ThiefAt("idle", 0, 0))
       ELSE /\ Thief(s, ThiefAt("recheck", wsqTop, 0))
            /\ UNCHANGED <<wsqTop, got>>
  /\ UNCHANGED StealVars

WsqNext ==
  \/ PushLoad \/ PushWrite \/ PushPublish
  \/ PopLoad \/ PopReserve \/ PopReload \/ PopCompete \/ PopRestore
  \/ \E s \in Thieves : StealLoad(s) \/ StealCheck(s) \/ StealRead(s) \/ StealCas(s)

WsqSpec == WsqInit /\ [][WsqNext]_wsqVars

---------------------------------------------------------------------------

WsqTypeOK ==
  /\ wsqBottom \in Nat /\ wsqTop \in Nat
  /\ wsqBuffer \in [0..WsqCapacity - 1 -> 0..MaxItems]
  /\ pushed \in 0..MaxItems /\ got \in [1..MaxItems -> Nat]
  /\ owner.pc \in {"idle", "write", "publish", "reserve", "reload", "compete", "restore"}
  /\ \A s \in Thieves : thief[s].pc \in {"idle", "check", "recheck", "read", "cas"}

\* No bthread is scheduled twice and none is lost: an item is returned at most
\* once by pop() and steal() together, only after its push(), and while the owner
\* is between calls the items not yet returned are exactly those between _top and
\* _bottom (src/src-bthread/work_stealing_queue.h:72-135).
EachTakenOnce ==
  /\ \A i \in 1..MaxItems : got[i] <= (IF i <= pushed THEN 1 ELSE 0)
  /\ owner.pc = "idle" =>
       {i \in 1..pushed : got[i] = 0} = {wsqBuffer[Slot(i)] : i \in wsqTop..wsqBottom - 1}
=============================================================================
