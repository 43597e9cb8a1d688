---------------------------- MODULE SessionTurns ----------------------------
(***************************************************************************)
(* What session_queue.rs promises (its lines 1-6): per session at most one *)
(* turn at a time, the others in a bounded line that is served in FIFO     *)
(* order and that a request may leave early.  SessionQueue implements it.  *)
(***************************************************************************)
EXTENDS Naturals, SequencesExt

CONSTANTS Conns, Sessions, SessionOf, MaxQueueDepth, Nobody

VARIABLES active,  \* the connection whose turn runs, per session
          line     \* the connections that wait for theirs, first to last

avars == <<active, line>>

InLine(c) == c \in ToSet(line[SessionOf[c]])
Size(s) == Len(line[s]) + (IF active[s] = Nobody THEN 0 ELSE 1)

TurnsInit ==
    /\ active = [s \in Sessions |-> Nobody]
    /\ line = [s \in Sessions |-> <<>>]

Join(c) ==
    LET s == SessionOf[c] IN
    /\ ~InLine(c) /\ active[s] # c
    /\ Size(s) < MaxQueueDepth
    /\ line' = [line EXCEPT ![s] = Append(@, c)]
    /\ UNCHANGED active

Leave(c) ==
    LET s == SessionOf[c] IN
    /\ \E i \in DOMAIN line[s] :
          /\ line[s][i] = c
          /\ line' = [line EXCEPT ![s] = RemoveAt(@, i)]
    /\ UNCHANGED active

Begin(c) ==
    LET s == SessionOf[c] IN
    /\ active[s] = Nobody
    /\ line[s] # <<>> /\ Head(line[s]) = c
    /\ active' = [active EXCEPT ![s] = c]
    /\ line' = [line EXCEPT ![s] = Tail(@)]

End(c) ==
    LET s == SessionOf[c] IN
    /\ active[s] = c
    /\ active' = [active EXCEPT ![s] = Nobody]
    /\ UNCHANGED line

TurnsNext == \E c \in Conns : Join(c) \/ Leave(c) \/ Begin(c) \/ End(c)

TurnsSpec == TurnsInit /\ [][TurnsNext]_avars

=============================================================================
