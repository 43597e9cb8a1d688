------------------------------- MODULE MCClients -------------------------------
(* What clients may do at the same time, for TLC: answer a turn's question *)
(* from two connections of a session, call the webhook, and register or    *)
(* remove tools while turns look for them.  A behaviour is one of one of   *)
(* the three.                                                              *)
(*                                                                         *)
(* In the registry two tools share a name and come from different sources, *)
(* one of an MCP server that hides it; a pattern matches one name.         *)
EXTENDS AskUser, Webhook, ToolRegistry, TLC

CONSTANTS s1, u1, u2, u3, n1, n2, r1, r2

VARIABLE part

MCSessionOf == [c \in Conns |-> s1]

MCNameOf == (u1 :> n1) @@ (u2 :> n1) @@ (u3 :> n2)
MCSourceOf == (u1 :> r1) @@ (u2 :> r2) @@ (u3 :> r1)
MCMatches == [p \in Patterns |-> {p}]
MCHidden == {u2}

(* The connections of one session and what calls the webhook are           *)
(* interchangeable.                                                        *)
Symmetry == Permutations(Conns) \cup Permutations(Clients)

MCInit ==
    /\ part \in {"questions", "webhook", "registry"}
    /\ Init /\ HookInit /\ RegistryInit

MCNext ==
    \/ part = "questions" /\ Next /\ UNCHANGED <<part, hookVars, registryVars>>
    \/ part = "webhook" /\ HookNext /\ UNCHANGED <<part, vars, registryVars>>
    \/ part = "registry" /\ RegistryNext /\ UNCHANGED <<part, vars, hookVars>>

MCSpec == MCInit /\ [][MCNext]_<<part, vars, hookVars, registryVars>>
=============================================================================
