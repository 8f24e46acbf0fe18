---------------------------- MODULE WatermarkJob ----------------------------
(***************************************************************************)
(* What every version of the program promises its user, whatever threads   *)
(* it runs on: each image of the source folder is written once with one    *)
(* stamp, or reported as not saved; main() returns only when no image is   *)
(* left, and prints how many there were.  The whole process may die early  *)
(* when an image cannot be loaded.                                         *)
(***************************************************************************)
EXTENDS Integers, FiniteSets

CONSTANT File       \* the images in the source folder

VARIABLES dir,      \* what opendir() said
          outcome,  \* what became of each image
          process,  \* whether the process runs, returned from main, or died
          printed   \* the count main() prints when it returns

vars == <<dir, outcome, process, printed>>

Init ==
    /\ dir = "unopened"
    /\ outcome = [f \in File |-> "pending"]
    /\ process = "running"
    /\ printed = 0

Open ==
    /\ process = "running" /\ dir = "unopened"
    /\ dir' \in {"opened", "missing"}
    /\ UNCHANGED <<outcome, process, printed>>

Settle(f, o) ==
    /\ process = "running" /\ dir = "opened"
    /\ outcome[f] = "pending"
    /\ outcome' = [outcome EXCEPT ![f] = o]
    /\ UNCHANGED <<dir, process, printed>>

Settled == {f \in File : outcome[f] # "pending"}

Return ==
    /\ process = "running"
    /\ dir = "missing" \/ (dir = "opened" /\ Settled = File)
    /\ process' = "finished"
    /\ printed' = Cardinality(Settled)
    /\ UNCHANGED <<dir, outcome>>

Die ==
    /\ process = "running"
    /\ process' = "terminated"
    /\ UNCHANGED <<dir, outcome, printed>>

Next ==
    \/ Open \/ Return \/ Die
    \/ \E f \in File, o \in {"written", "skipped"} : Settle(f, o)

Spec == Init /\ [][Next]_vars
=============================================================================
