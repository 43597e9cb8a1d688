--------------------------- MODULE SessionControl ---------------------------
(***************************************************************************)
(* What the gateway keeps about the turn of a session while it runs, and   *)
(* everyone who reads or changes it: process_chat_message in               *)
(* crates/clawseed-gateway/src/ws.rs, the endpoints of api/sessions.rs and *)
(* the sessions table of session_sqlite.rs.                                *)
(*                                                                         *)
(* A session has one row (its state, its turn and its name), one entry in  *)
(* cancel_tokens and one in active_turn_ids.  A turn writes the three in   *)
(* steps of their own and takes them back in steps of their own; the abort *)
(* endpoint, renames, a deletion and the task that asks a provider for a   *)
(* title come in between.  The row outlives the process, the rest does     *)
(* not.  Turns of messages hold the session's queue (SessionQueue); a      *)
(* message sent as the first frame of a connection does not.               *)
(*                                                                         *)
(* What the turn does is external: it ends, in one of three ways.  The     *)
(* messages of the session are the subject of Conversation.                *)
(***************************************************************************)
EXTENDS Naturals, FiniteSets

CONSTANTS
    Conns,        \* WebSocket connections of the session
    MaxTurns,     \* bound: turns, all connections together
    MaxCalls,     \* bound: renames and deletions
    MaxCrashes,   \* bound
    CarefulClients \* nobody sends a message next to a first frame's turn

ASSUME SessionControlAssumption ==
    /\ MaxTurns \in Nat /\ MaxCalls \in Nat /\ MaxCrashes \in Nat
    /\ CarefulClients \in BOOLEAN

VARIABLES
    row,       \* the row in sessions, or NoRow
    token,     \* cancel_tokens: the turn whose token it is, or NoTurn
    active,    \* active_turn_ids
    pc,        \* where each connection's handler is
    turn,      \* turn_id
    result,    \* how the turn ended: "ok", "cancelled", "error" or "none"
    title,     \* the title a handler waits for: "none", "asked", "made"
    lock,      \* who holds the session's queue
    abort,     \* the abort endpoint: the turn whose token it holds, or NoTurn
    renaming,  \* the rename endpoint has seen that the session exists
    calls, crashes, turns, \* bounds' counters
    \* ghosts
    cancelled, \* turns whose token was cancelled
    lost,      \* turns that died with the process
    erased,    \* the session was deleted under a turn
    chosen     \* the user named the session: "no", "yes", "late" (while a title was asked for)

handler == <<pc, turn, result, title, lock, turns>>
bounds == <<calls, crashes>>
ghosts == <<cancelled, lost, erased, chosen>>
endpoint == <<abort, renaming>>
vars == <<row, token, active, handler, endpoint, bounds, ghosts>>

NoTurn == 0
NoRow == [state |-> "none", turn |-> NoTurn, name |-> "none"]
NoOne == "nobody"
Turns == 1 .. MaxTurns
Row == [state : {"idle", "running", "error"}, turn : 0 .. MaxTurns,
        name : {"default", "user", "auto"}]

(* Stages of a turn.  Marked: the row says so; listed: so does the token.  *)
Marked == {"marked", "running", "ended", "over", "answered", "stored"}
InTurn == {"begun"} \cup Marked \cup {"told"}

TypeOK ==
    /\ row \in Row \cup {NoRow}
    /\ token \in 0 .. MaxTurns /\ active \in 0 .. MaxTurns /\ abort \in 0 .. MaxTurns
    /\ pc \in [Conns -> {"off", "fresh", "idle", "queued"} \cup InTurn]
    /\ turn \in [Conns -> 0 .. MaxTurns]
    /\ result \in [Conns -> {"none", "ok", "cancelled", "error"}]
    /\ title \in [Conns -> {"none", "asked", "made"}]
    /\ lock \in Conns \cup {NoOne}
    /\ turns \in 0 .. MaxTurns /\ calls \in 0 .. MaxCalls /\ crashes \in 0 .. MaxCrashes
    /\ cancelled \subseteq Turns /\ lost \subseteq Turns
    /\ erased \in BOOLEAN /\ renaming \in BOOLEAN /\ chosen \in {"no", "yes", "late"}
    /\ row.state = "idle" => row.turn = NoTurn
    /\ \A c \in Conns : pc[c] \in InTurn <=> turn[c] # NoTurn

Init ==
    /\ row = NoRow /\ token = NoTurn /\ active = NoTurn
    /\ abort = NoTurn /\ renaming = FALSE
    /\ pc = [c \in Conns |-> "off"]
    /\ turn = [c \in Conns |-> NoTurn]
    /\ result = [c \in Conns |-> "none"]
    /\ title = [c \in Conns |-> "none"]
    /\ lock = NoOne
    /\ turns = 0 /\ calls = 0 /\ crashes = 0
    /\ cancelled = {} /\ lost = {} /\ erased = FALSE /\ chosen = "no"

-----------------------------------------------------------------------------
(* The sessions table. *)

(* ensure_session: the row after INSERT OR IGNORE. *)
Ensured == IF row = NoRow THEN [state |-> "idle", turn |-> NoTurn, name |-> "default"] ELSE row

SetState(s, t) == row' = [Ensured EXCEPT !.state = s, !.turn = t]

SetName(n) == row' = [Ensured EXCEPT !.name = n]

(* A name of the user's, from a rename or from ?name= on connect. *)
UserNames ==
    /\ SetName("user")
    /\ chosen' = IF \E c \in Conns : title[c] = "asked" THEN "late" ELSE "yes"

-----------------------------------------------------------------------------
(* A connection and its turns. *)

At(c, from, to) == pc[c] = from /\ pc' = [pc EXCEPT ![c] = to]

Connect(c) ==
    /\ At(c, "off", "fresh")
    /\ \/ UNCHANGED <<row, chosen>>
       \/ calls < MaxCalls /\ UserNames
    /\ calls' = IF row' = row THEN calls ELSE calls + 1
    /\ UNCHANGED <<token, active, turn, result, title, lock, turns, endpoint, crashes,
                   cancelled, lost, erased>>

Handshake(c) ==
    /\ At(c, "fresh", "idle")
    /\ UNCHANGED <<row, token, active, turn, result, title, lock, turns, endpoint, bounds, ghosts>>

Message(c) ==
    /\ turns < MaxTurns
    /\ At(c, "idle", "queued")
    /\ UNCHANGED <<row, token, active, turn, result, title, lock, turns, endpoint, bounds, ghosts>>

(* SESSION_BUSY. *)
Refused(c) ==
    /\ At(c, "queued", "idle")
    /\ UNCHANGED <<row, token, active, turn, result, title, lock, turns, endpoint, bounds, ghosts>>

(* The user's message is stored, the turn's id is made and registered.     *)
Begin(c) ==
    /\ turns < MaxTurns /\ turns' = turns + 1
    /\ turn' = [turn EXCEPT ![c] = turns + 1]
    /\ active' = turns + 1
    /\ row' = Ensured
    /\ erased' = FALSE
    /\ UNCHANGED <<token, result, title, endpoint, bounds, cancelled, lost, chosen>>

(* The environment is trusted with this; the code does not enforce it.     *)
Careful == CarefulClients => \A c \in Conns : pc[c] \notin InTurn

BeginQueued(c) ==
    /\ lock = NoOne /\ Careful
    /\ At(c, "queued", "begun")
    /\ lock' = c
    /\ Begin(c)

(* A message as the first frame: no queue. *)
BeginFirst(c) ==
    /\ Careful
    /\ At(c, "fresh", "begun")
    /\ Begin(c)
    /\ UNCHANGED lock

(* set_session_state(.., "running", turn_id). *)
Mark(c) ==
    /\ At(c, "begun", "marked")
    /\ SetState("running", turn[c])
    /\ UNCHANGED <<token, active, turn, result, title, lock, turns, endpoint, bounds,
                   cancelled, lost, chosen>>
    /\ erased' = FALSE

(* The token is inserted before the turn starts. *)
Register(c) ==
    /\ At(c, "marked", "running")
    /\ token' = turn[c]
    /\ UNCHANGED <<row, active, turn, result, title, lock, turns, endpoint, bounds, ghosts>>

(* The abort frame, or the client closes: the turn's own token. *)
CancelOwn(c) ==
    /\ pc[c] = "running"
    /\ cancelled' = cancelled \cup {turn[c]}
    /\ UNCHANGED <<row, token, active, handler, endpoint, bounds, lost, erased, chosen>>

(* A partial answer is appended; that creates a deleted session again. *)
SavePartial(c) ==
    /\ pc[c] = "running" /\ row = NoRow
    /\ row' = Ensured
    /\ UNCHANGED <<token, active, handler, endpoint, bounds, ghosts>>

(* The turn is over: its id is removed, then its token, by session key. *)
EndTurn(c) ==
    /\ At(c, "running", "ended")
    /\ \E r \in {"ok", "error"} \cup (IF turn[c] \in cancelled THEN {"cancelled"} ELSE {}) :
          result' = [result EXCEPT ![c] = r]
    /\ active' = NoTurn
    /\ UNCHANGED <<row, token, turn, title, lock, turns, endpoint, bounds, ghosts>>

(* Mutant: the entry is left to the next turn. *)
UnregisterNot(c) ==
    /\ At(c, "ended", "over")
    /\ UNCHANGED <<row, token, active, turn, result, title, lock, turns, endpoint, bounds, ghosts>>

Unregister(c) ==
    /\ At(c, "ended", "over")
    /\ token' = NoTurn
    /\ UNCHANGED <<row, active, turn, result, title, lock, turns, endpoint, bounds, ghosts>>

(* The answer is appended, or replaces the partial one. *)
Store(c) ==
    /\ result[c] # "error"
    /\ At(c, "over", IF result[c] = "ok" THEN "answered" ELSE "stored")
    /\ row' \in {row, Ensured}
    /\ UNCHANGED <<token, active, turn, result, title, lock, turns, endpoint, bounds, ghosts>>

(* Mutant: every turn asks for a title. *)
CheckTitleNot(c) ==
    /\ At(c, "answered", "stored")
    /\ title' = [title EXCEPT ![c] = "asked"]
    /\ UNCHANGED <<row, token, active, turn, result, lock, turns, endpoint, bounds, ghosts>>

(* A session that still has the default name is given a title by a task    *)
(* of its own, which asks the provider.                                    *)
CheckTitle(c) ==
    /\ At(c, "answered", "stored")
    /\ title' = [title EXCEPT ![c] = IF row.name = "default" THEN "asked" ELSE "none"]
    /\ UNCHANGED <<row, token, active, turn, result, lock, turns, endpoint, bounds, ghosts>>

(* The task is over; without an answer the title is the message's start.   *)
MakeTitle(c) ==
    /\ title[c] = "asked"
    /\ title' = [title EXCEPT ![c] = "made"]
    /\ SetName("auto")
    /\ UNCHANGED <<token, active, pc, turn, result, lock, turns, endpoint, bounds, ghosts>>

(* Mutant: the state is reset after a success only. *)
TellOk(c) ==
    /\ IF result[c] = "error" THEN At(c, "over", "told") ELSE At(c, "stored", "told")
    /\ IF result[c] = "error" THEN SetState("error", turn[c])
       ELSE IF result[c] = "ok" THEN SetState("idle", NoTurn)
       ELSE UNCHANGED row
    /\ UNCHANGED <<token, active, turn, result, title, lock, turns, endpoint, bounds, ghosts>>

(* The session's last state of the turn. *)
Tell(c) ==
    /\ IF result[c] = "error" THEN At(c, "over", "told") ELSE At(c, "stored", "told")
    /\ IF result[c] = "error" THEN SetState("error", turn[c]) ELSE SetState("idle", NoTurn)
    /\ UNCHANGED <<token, active, turn, result, title, lock, turns, endpoint, bounds, ghosts>>

(* Mutant: the guard is dropped only by a handler that ends well. *)
ReturnKeeps(c) ==
    /\ At(c, "told", "idle") /\ title[c] # "asked"
    /\ turn' = [turn EXCEPT ![c] = NoTurn]
    /\ result' = [result EXCEPT ![c] = "none"]
    /\ title' = [title EXCEPT ![c] = "none"]
    /\ lock' = IF lock = c /\ result[c] # "error" THEN NoOne ELSE lock
    /\ UNCHANGED <<row, token, active, turns, endpoint, bounds, ghosts>>

(* The handler has waited for the title; its guard is dropped. *)
Return(c) ==
    /\ At(c, "told", "idle") /\ title[c] # "asked"
    /\ turn' = [turn EXCEPT ![c] = NoTurn]
    /\ result' = [result EXCEPT ![c] = "none"]
    /\ title' = [title EXCEPT ![c] = "none"]
    /\ lock' = IF lock = c THEN NoOne ELSE lock
    /\ UNCHANGED <<row, token, active, turns, endpoint, bounds, ghosts>>

Close(c) ==
    /\ pc[c] \in {"fresh", "idle"}
    /\ pc' = [pc EXCEPT ![c] = "off"]
    /\ UNCHANGED <<row, token, active, turn, result, title, lock, turns, endpoint, bounds, ghosts>>

-----------------------------------------------------------------------------
(* The endpoints, the abort frame of an idle connection, and the process.  *)

(* The token is cloned under the map's lock ... *)
AbortLookup ==
    /\ abort = NoTurn /\ token # NoTurn
    /\ abort' = token
    /\ UNCHANGED <<row, token, active, handler, renaming, bounds, ghosts>>

(* ... and cancelled after it.  The questions that are cancelled with it   *)
(* are the subject of AskUser.                                             *)
AbortCancel ==
    /\ abort # NoTurn
    /\ abort' = NoTurn
    /\ cancelled' = cancelled \cup {abort}
    /\ UNCHANGED <<row, token, active, handler, renaming, bounds, lost, erased, chosen>>

(* The session is looked for in the list of all, and named in another call *)
(* of the table, that would create it again.                               *)
RenameLookup ==
    /\ ~renaming /\ row # NoRow /\ calls < MaxCalls
    /\ calls' = calls + 1
    /\ renaming' = TRUE
    /\ UNCHANGED <<row, token, active, handler, abort, crashes, ghosts>>

Rename ==
    /\ renaming /\ renaming' = FALSE
    /\ UserNames
    /\ UNCHANGED <<token, active, handler, abort, bounds, cancelled, lost, erased>>

Delete ==
    /\ row # NoRow /\ calls < MaxCalls
    /\ calls' = calls + 1
    /\ row' = NoRow
    /\ erased' = TRUE /\ chosen' = "no"
    /\ UNCHANGED <<token, active, handler, endpoint, crashes, cancelled, lost>>

Crash ==
    /\ crashes < MaxCrashes
    /\ crashes' = crashes + 1
    /\ lost' = lost \cup {turn[c] : c \in {d \in Conns : turn[d] # NoTurn}}
    /\ pc' = [c \in Conns |-> "off"]
    /\ turn' = [c \in Conns |-> NoTurn]
    /\ result' = [c \in Conns |-> "none"]
    /\ title' = [c \in Conns |-> "none"]
    /\ lock' = NoOne /\ token' = NoTurn /\ active' = NoTurn
    /\ abort' = NoTurn /\ renaming' = FALSE
    /\ UNCHANGED <<row, turns, calls, cancelled, erased, chosen>>

TurnStep(c) ==
    \/ Mark(c) \/ Register(c) \/ EndTurn(c) \/ Unregister(c)
    \/ Store(c) \/ CheckTitle(c) \/ MakeTitle(c) \/ Tell(c) \/ Return(c)

Next ==
    \/ \E c \in Conns :
          \/ Connect(c) \/ Handshake(c) \/ Message(c) \/ Refused(c)
          \/ BeginQueued(c) \/ BeginFirst(c) \/ CancelOwn(c) \/ SavePartial(c)
          \/ TurnStep(c) \/ Close(c)
    \/ AbortLookup \/ AbortCancel \/ RenameLookup \/ Rename \/ Delete \/ Crash

Spec == Init /\ [][Next]_vars

(* The handler is a task of the runtime; the turn ends and so does the     *)
(* request for a title (module Turn has the exceptions).                   *)
Fairness == \A c \in Conns : WF_vars(TurnStep(c))

FairSpec == Spec /\ Fairness

-----------------------------------------------------------------------------
(* A turn that runs can be aborted, and an abort finds no other: ws.rs:1147, *)
(* "Create a token before the turn starts so the abort endpoint can cancel *)
(* it. Remove it after the turn completes".                                *)
Abortable ==
    /\ \A c \in Conns : pc[c] = "running" => token = turn[c] /\ active = turn[c]
    /\ token # NoTurn => \E c \in Conns : turn[c] = token /\ pc[c] \in {"running", "ended"}

(* The session's state, that clients poll, tells its turn from its first   *)
(* step to its end, unless the session was deleted under it; and a session *)
(* that is said to run does, or its turn died with the process.            *)
StateTellsTurn ==
    /\ \A c \in Conns : pc[c] \in Marked /\ ~erased =>
          row.state = "running" /\ row.turn = turn[c]
    /\ row.state = "running" =>
          \/ row.turn \in lost
          \/ \E c \in Conns : turn[c] = row.turn /\ pc[c] \in Marked

(* A title the gateway makes up never replaces a name the user gave, but   *)
(* for a name given while the provider was being asked for the title.      *)
NameKept == chosen = "yes" => row.name = "user"

(* A turn gives the session's queue back, after however it ended, and what *)
(* it said of the session is taken back, unless the process died with it.  *)
Settles ==
    /\ \A c \in Conns : lock = c ~> lock # c
    /\ \A t \in Turns :
          (row.state = "running" /\ row.turn = t) ~> (row.state # "running" \/ t \in lost)
=============================================================================
