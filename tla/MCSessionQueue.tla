--------------------------- MODULE MCSessionQueue ---------------------------
(* SessionQueue on small instances.  A cfg picks the connections, the      *)
(* bound on the line and the specification (with or without evict_idle).   *)
EXTENDS SessionQueue

CONSTANTS c4, s1, s2

(* Everybody but c4 talks to one session. *)
MCSessionOf == [c \in Conns |-> IF c = c4 THEN s2 ELSE s1]

=============================================================================
