------------------------------- MODULE Futex -------------------------------
(***************************************************************************)
(* What src-bthread/butex.h promises: "Create a butex which is a           *)
(* futex-like 32-bit primitive".  A caller that holds the value it read    *)
(* either queues itself atomically with the comparison, or is refused; a   *)
(* queued caller leaves its queue exactly once, with one reason; and the   *)
(* call returns a code that agrees with that reason.  Butex.tla implements *)
(* this specification with locks, timers and stack-allocated waiters.      *)
(***************************************************************************)
EXTENDS Sequences, SequencesExt, Naturals, FiniteSets

CONSTANT Callers

VARIABLES
    word,       \* the 32-bit value of the first butex
    wanted,     \* per caller: the expected value it passed
    line,       \* the queues of the two butexes, "b" and "m"
    phase,      \* per caller: "out", "calling", "queued", "decided", "returned"
    reason,     \* per caller: why it left the queue, or was refused
    code        \* per caller: what butex_wait returned

fVars == <<word, wanted, line, phase, reason, code>>

\* The codes that agree with a reason.  A woken caller may find a pending
\* interruption; a woken pthread may have given up on its own clock already,
\* or may find the signal there before it sleeps.
Agrees(r) ==
    CASE r = "woken"       -> {"OK", "EINTR", "ETIMEDOUT", "EWOULDBLOCK"}
      [] r = "unmatched"   -> {"EWOULDBLOCK"}
      [] r = "timedout"    -> {"ETIMEDOUT"}
      [] r = "interrupted" -> {"EINTR"}
      [] OTHER             -> {}

FInit ==
    /\ word = 0
    /\ wanted = [c \in Callers |-> 0]
    /\ line = [q \in {"b", "m"} |-> << >>]
    /\ phase = [c \in Callers |-> "out"]
    /\ reason = [c \in Callers |-> "none"]
    /\ code = [c \in Callers |-> "none"]

FStore ==
    /\ word' = word + 1
    /\ UNCHANGED <<wanted, line, phase, reason, code>>

FCall(c) ==
    /\ phase[c] = "out"
    /\ phase' = [phase EXCEPT ![c] = "calling"]
    /\ wanted' = [wanted EXCEPT ![c] = word]
    /\ UNCHANGED <<word, line, reason, code>>

\* Queueing is atomic with the comparison.
FQueue(c) ==
    /\ phase[c] = "calling"
    /\ word = wanted[c]
    /\ phase' = [phase EXCEPT ![c] = "queued"]
    /\ line' \in {[line EXCEPT !["b"] = Append(@, c)], [line EXCEPT !["b"] = <<c>> \o @]}
    /\ UNCHANGED <<word, wanted, reason, code>>

FRefuse(c) ==
    /\ phase[c] = "calling"
    /\ \/ word # wanted[c] /\ reason' = [reason EXCEPT ![c] = "unmatched"]
       \/ \E r \in {"timedout", "interrupted"} : reason' = [reason EXCEPT ![c] = r]
    /\ phase' = [phase EXCEPT ![c] = "decided"]
    /\ UNCHANGED <<word, wanted, line, code>>

\* `gone' leave the queues for the reason r; the rest stay in order.
FLeave(gone, r) ==
    /\ gone # {}
    /\ \A c \in gone : phase[c] = "queued"
    /\ phase' = [c \in Callers |-> IF c \in gone THEN "decided" ELSE phase[c]]
    /\ reason' = [c \in Callers |-> IF c \in gone THEN r ELSE reason[c]]

FWake(q, n) ==
    LET count == IF n = 0 THEN Len(line[q])
                 ELSE IF n < Len(line[q]) THEN n ELSE Len(line[q])
    IN /\ FLeave({line[q][i] : i \in 1..count}, "woken")
       /\ line' = [line EXCEPT ![q] = SubSeq(@, count + 1, Len(@))]
       /\ UNCHANGED <<word, wanted, code>>

FWakeExcept(q, x) ==
    /\ FLeave(ToSet(line[q]) \ {x}, "woken")
    /\ line' = [line EXCEPT ![q] = SelectSeq(@, LAMBDA c : c = x)]
    /\ UNCHANGED <<word, wanted, code>>

FRequeue ==
    /\ line["b"] # << >>
    /\ FLeave({Head(line["b"])}, "woken")
    /\ line' = [line EXCEPT !["b"] = << >>, !["m"] = @ \o Tail(line["b"])]
    /\ UNCHANGED <<word, wanted, code>>

FAbandon(c, r) ==
    /\ FLeave({c}, r)
    /\ line' = [q \in {"b", "m"} |-> SelectSeq(line[q], LAMBDA d : d # c)]
    /\ UNCHANGED <<word, wanted, code>>

FReturn(c) ==
    /\ phase[c] = "decided"
    /\ phase' = [phase EXCEPT ![c] = "returned"]
    /\ \E e \in Agrees(reason[c]) : code' = [code EXCEPT ![c] = e]
    /\ UNCHANGED <<word, wanted, line, reason>>

FNext ==
    \/ FStore
    \/ FRequeue
    \/ \E c \in Callers :
          \/ FCall(c) \/ FQueue(c) \/ FRefuse(c) \/ FReturn(c)
          \/ \E r \in {"timedout", "interrupted"} : FAbandon(c, r)
    \/ \E q \in {"b", "m"} :
          \/ \E n \in 0..2 : FWake(q, n)
          \/ \E x \in Callers \cup {"nobody"} : FWakeExcept(q, x)

\* The callers that left their queue, or were refused, and must return.
FDecided == {c \in Callers : phase[c] = "decided"}

FSpec == FInit /\ [][FNext]_fVars
=============================================================================
