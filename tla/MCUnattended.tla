------------------------------ MODULE MCUnattended ------------------------------
(* Work that no client waits for, for TLC: scheduled jobs, and commands    *)
(* left in the background.  They share no state: a behaviour is one of one *)
(* of them.                                                                *)
EXTENDS Cron, BackgroundJobs

CONSTANTS d1, j1

VARIABLE part

MCInit == part \in {"cron", "background"} /\ Init /\ JobsInit

MCNext ==
    \/ part = "cron" /\ Next /\ UNCHANGED <<part, jobsVars>>
    \/ part = "background" /\ JobsNext /\ UNCHANGED <<part, vars>>

MCSpec ==
    /\ MCInit /\ [][MCNext]_<<part, vars, jobsVars>>
    /\ \/ part = "cron" /\ Fairness
       \/ part = "background" /\ JobsFairness
=============================================================================
