----------------------------- MODULE SpinBarrier ----------------------------
(***************************************************************************)
(* spinBarrier of lib/ff/barrier.hpp: every thread of a FastFlow run meets *)
(* the others here before its first svc().  Two counters take turns, so    *)
(* that a thread may enter the next round while slower ones still spin on  *)
(* the counter of the last: barArray[t] says which one thread t uses.      *)
(***************************************************************************)
EXTENDS Integers, FiniteSets

CONSTANTS Thread,       \* the threads the barrier was set up for
          MaxRounds     \* bound on the calls of doBarrier() by one thread

ASSUME ThreadAssumption == IsFiniteSet(Thread) /\ Thread # {}
ASSUME RoundsAssumption == MaxRounds \in Nat

VARIABLES B,            \* the two counters
          barArray,     \* which of them each thread used last
          pc,           \* where each thread is in doBarrier()
          round         \* calls of doBarrier() each thread has begun

barrierVars == <<B, barArray, pc, round>>

BarrierTypeOK ==
    /\ B \in [0..1 -> 0..Cardinality(Thread)]
    /\ barArray \in [Thread -> 0..1]
    /\ pc \in [Thread -> {"out", "count", "spin", "reset"}]
    /\ round \in [Thread -> 0..MaxRounds]

\* barrierSetup()
BarrierInit ==
    /\ B = [k \in 0..1 |-> 0]
    /\ barArray = [t \in Thread |-> 0]
    /\ pc = [t \in Thread |-> "out"]
    /\ round = [t \in Thread |-> 0]
-----------------------------------------------------------------------------
Goto(t, from, to) == pc[t] = from /\ pc' = [pc EXCEPT ![t] = to]

\* Mutated form: all rounds use one counter.
EnterSameCounter(t) ==
    /\ Goto(t, "out", "count")
    /\ round[t] < MaxRounds
    /\ round' = [round EXCEPT ![t] = @ + 1]
    /\ UNCHANGED <<B, barArray>>

\* Mutated form: the counters are numbered on and on.
EnterNoWrap(t) ==
    /\ Goto(t, "out", "count")
    /\ round[t] < MaxRounds
    /\ round' = [round EXCEPT ![t] = @ + 1]
    /\ barArray' = [barArray EXCEPT ![t] = @ + 1]
    /\ UNCHANGED B

\* The call, and barArray[tid] ^= true.
Enter(t) ==
    /\ Goto(t, "out", "count")
    /\ round[t] < MaxRounds
    /\ round' = [round EXCEPT ![t] = @ + 1]
    /\ barArray' = [barArray EXCEPT ![t] = 1 - @]
    /\ UNCHANGED B

\* Mutated form: the thread before the last is taken for the last.
CountOneShort(t) ==
    LET c == B[barArray[t]] + 1 IN
    /\ Goto(t, "count", IF c >= Cardinality(Thread) - 1 THEN "reset" ELSE "spin")
    /\ B' = [B EXCEPT ![barArray[t]] = c]
    /\ UNCHANGED <<barArray, round>>

\* c = ++B[whichBar], an atomic increment; the last thread to come resets it.
Count(t) ==
    LET c == B[barArray[t]] + 1 IN
    /\ Goto(t, "count", IF c = Cardinality(Thread) THEN "reset" ELSE "spin")
    /\ B' = [B EXCEPT ![barArray[t]] = c]
    /\ UNCHANGED <<barArray, round>>

\* B[whichBar] = 0, which lets the others go.
Reset(t) ==
    /\ Goto(t, "reset", "out")
    /\ B' = [B EXCEPT ![barArray[t]] = 0]
    /\ UNCHANGED <<barArray, round>>

\* The spin loop reads B[whichBar] again and again until it is 0.
Spin(t) ==
    /\ Goto(t, "spin", "out")
    /\ B[barArray[t]] = 0
    /\ UNCHANGED <<B, barArray, round>>

doBarrier(t) == Enter(t) \/ Count(t) \/ Reset(t) \/ Spin(t)

BarrierNext == \E t \in Thread : doBarrier(t)

BarrierSpec == BarrierInit /\ [][BarrierNext]_barrierVars

\* Every thread is scheduled, and comes to each round.
BarrierFairSpec == BarrierSpec /\ \A t \in Thread : WF_barrierVars(doBarrier(t))
-----------------------------------------------------------------------------
\* The rounds thread t has been counted in, and those it has left.
Arrived(t) == IF pc[t] = "count" THEN round[t] - 1 ELSE round[t]
Left(t) == IF pc[t] = "out" THEN round[t] ELSE round[t] - 1

(* A barrier: no thread leaves a round before every thread has arrived in  *)
(* it, even when some are a round ahead of others that still spin.         *)
Agreement == \A t, u \in Thread : Left(t) <= Arrived(u)

(* At most one thread resets the counter of a round, and it does so before *)
(* any thread is counted in it again: a reset wipes out no arrival.        *)
ResetIsLast ==
    \A t \in Thread : pc[t] = "reset" =>
        /\ \A u \in Thread \ {t} : pc[u] # "reset"
        /\ B[barArray[t]] = Cardinality(Thread)

(* No thread is left behind in the spin loop, although the counter it      *)
(* looks at is 0 only until the round after the next begins.               *)
EverybodyLeaves == <>(\A t \in Thread : Left(t) = MaxRounds)
=============================================================================
