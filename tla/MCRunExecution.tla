----------------------------- MODULE MCRunExecution -----------------------------
(* Small instances of RunExecution for TLC.                                   *)
EXTENDS RunExecution, TLC

CONSTANT t1

OneThread == [r \in Runs |-> t1]

\* The operations are interchangeable; runs too, when all are in one thread.
Symmetry == Permutations(Ops) \cup Permutations(Runs)
=============================================================================
