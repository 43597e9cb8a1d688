--------------------------- MODULE MCConversation ---------------------------
(* Two connections and three messages for Conversation. *)
EXTENDS Conversation, TLC

Symmetry == Permutations(Conns) \cup Permutations(Messages)
=============================================================================
