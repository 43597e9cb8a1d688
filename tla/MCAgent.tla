-------------------------------- MODULE MCAgent --------------------------------
(* What an agent's turn is made of, for TLC: the history it keeps, the     *)
(* requests it makes to its model and the tools that its client runs.  The *)
(* three share no state: a behaviour is one of one of them.                *)
EXTENDS AgentHistory, ReliableProvider, RemoteTools

VARIABLE part

MCRequests ==   \* a first question, and the middle of a turn that uses tools
    {<<"system", "user">>, <<"system", "user", "calls", "results">>}

MCInit ==
    /\ part \in {"history", "request", "tools"}
    /\ HistInit /\ CallInit /\ Init
    /\ part # "history" => mode = "compact"
    /\ part # "request" => request = <<"system", "user">> /\ ~images /\ window = 1 /\ sees

MCNext ==
    \/ part = "history" /\ HistNext /\ UNCHANGED <<part, callVars, vars>>
    \/ part = "request" /\ CallNext /\ UNCHANGED <<part, histVars, vars>>
    \/ part = "tools" /\ Next /\ UNCHANGED <<part, histVars, callVars>>

MCSpec ==
    /\ MCInit /\ [][MCNext]_<<part, histVars, callVars, vars>>
    /\ part = "tools" => Fairness
=============================================================================
