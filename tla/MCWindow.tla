------------------------------- MODULE MCWindow -------------------------------
EXTENDS Window, TLC

\* The references in the messages are interchangeable.
SameRefs == Permutations(Refs)
=============================================================================
