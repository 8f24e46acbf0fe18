---------------------------- MODULE Occurrences -----------------------------
(***************************************************************************)
(* Where a task is found among sequences: what the invariants that say no  *)
(* image is lost or handled twice count with.                              *)
(***************************************************************************)
EXTENDS Integers, Sequences, FiniteSets

\* The positions of x in a sequence.
Positions(s, x) == {k \in DOMAIN s : s[k] = x}

\* The places of x in a family of sequences: which of them, and where in it.
Spots(family, x) ==
    UNION {{<<i, k>> : k \in Positions(family[i], x)} : i \in DOMAIN family}

\* What a thread holds, as a sequence: x if cond, nothing otherwise.
If(cond, x) == IF cond THEN <<x>> ELSE <<>>
=============================================================================
