----------------------------- MODULE MCConversation -----------------------------
(* Two conversations, each of which may exist at first: they are interchangeable. *)
EXTENDS Conversation, TLC

Symmetry == Permutations(Threads)

=============================================================================
