--------------------------- MODULE MCMessageIngestion ---------------------------
(* Small instances of MessageIngestion for TLC.                               *)
EXTENDS MessageIngestion, TLC

\* messages with text are interchangeable, and so are those without; Runs too
Symmetry == Permutations(Texts) \cup Permutations(Ids \ Texts) \cup Permutations(Runs)
=============================================================================
