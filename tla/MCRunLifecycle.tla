----------------------------- MODULE MCRunLifecycle -----------------------------
(* Small instances of RunLifecycle for TLC.                                   *)
EXTENDS RunLifecycle, TLC

CONSTANT t1

\* every run in one thread: the runs compete for its slot and its numbers
OneThread == [r \in Runs |-> t1]

Symmetry == Permutations(Amounts) \cup Permutations(Checkpoints)
              \cup Permutations(Entries) \cup Permutations(Messages)
=============================================================================
