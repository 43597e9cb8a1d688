------------------------------- MODULE AskUser -------------------------------
(***************************************************************************)
(* Questions a turn asks its user (the ask_user tool): AskUserManager in   *)
(* crates/clawseed-gateway/src/ask_user.rs, the tool around it in          *)
(* crates/clawseed-tools/src/ask_user.rs, and what the connections of      *)
(* ws.rs and the abort endpoint of api/sessions.rs do to it.               *)
(*                                                                         *)
(* A question is pending in the manager's map until one response is        *)
(* accepted, its turn is aborted or its timer fires.  It is broadcast to   *)
(* every connection, and a connection that opens later is sent the pending *)
(* ones of its session before it subscribes.  Answers come from any        *)
(* connection; two may answer at once, and both may race the timer and an  *)
(* abort.  Turns of one session do not overlap: they hold the session's    *)
(* queue (module SessionQueue).                                            *)
(***************************************************************************)
EXTENDS Naturals, FiniteSets

CONSTANTS
    Conns,       \* WebSocket connections
    Sessions,
    SessionOf,   \* the session each connection is attached to
    Questions,   \* requests, each made at most once: a request has a fresh id
    MaxTurns     \* bound: turns, all connections together

ASSUME AskUserAssumption == /\ SessionOf \in [Conns -> Sessions]
                            /\ MaxTurns \in Nat

VARIABLES
    conn,      \* "new", "handshake" (pending ones sent), "open", "closed"
    phase,     \* a connection's task: "loop", "queued", "registering", "running", "ending"
    turn,      \* the turn a connection runs, 0 for none
    turns,     \* turns begun
    ask,       \* where AskUserTool::execute is, for each question
    asker,     \* <<connection, turn>> of each question asked
    pending,   \* keys of AskUserManager.pending
    oneshot,   \* what each question's oneshot holds: "empty", "answer", "cancelled"
    result,    \* what the tool returned
    accepts,   \* responses acknowledged as accepted, per question
    late,      \* questions whose response was accepted after their timer fired
    feed,      \* broadcast events a connection has not read
    seen,      \* questions a connection's client was shown
    missed,    \* <<connection, question>>: asked while the connection was in handshake
    cancelled, \* turns whose token is cancelled
    tokens,    \* cancel_tokens
    activeIds, \* active_turn_ids
    aborter    \* the abort endpoint: sessions whose token it has just cancelled

connVars == <<conn, phase, turn, turns>>
toolVars == <<ask, asker, result>>
managerVars == <<pending, oneshot, accepts, late>>
shownVars == <<feed, seen, missed>>
abortVars == <<cancelled, tokens, activeIds, aborter>>
vars == <<connVars, toolVars, managerVars, shownVars, abortVars>>

NoTurn == 0
Turns == 1 .. MaxTurns
NoOne == <<>>
TurnOf(q) == asker[q][2]
SessionOfQ(q) == SessionOf[asker[q][1]]
QuestionsOf(c) == {q \in Questions : ask[q] # "fresh" /\ asker[q] = <<c, turn[c]>>}
Unanswered(c) == {q \in QuestionsOf(c) : ask[q] # "returned"}

TypeOK ==
    /\ conn \in [Conns -> {"new", "handshake", "open", "closed"}]
    /\ phase \in [Conns -> {"loop", "queued", "registering", "running", "ending"}]
    /\ turn \in [Conns -> 0 .. MaxTurns] /\ turns \in 0 .. MaxTurns
    /\ ask \in [Questions -> {"fresh", "called", "waiting", "expired", "returned"}]
    /\ asker \in [Questions -> {NoOne} \cup (Conns \X Turns)]
    /\ pending \subseteq Questions
    /\ oneshot \in [Questions -> {"empty", "answer", "cancelled"}]
    /\ result \in [Questions -> {"none", "answer", "cancelled", "expired"}]
    /\ accepts \in [Questions -> Nat]
    /\ late \subseteq Questions
    /\ feed \in [Conns -> SUBSET Questions] /\ seen \in [Conns -> SUBSET Questions]
    /\ missed \subseteq Conns \X Questions
    /\ cancelled \subseteq Turns
    /\ tokens \in [Sessions -> 0 .. MaxTurns] /\ activeIds \in [Sessions -> 0 .. MaxTurns]
    /\ aborter \subseteq Sessions

Init ==
    /\ conn = [c \in Conns |-> "new"]
    /\ phase = [c \in Conns |-> "loop"]
    /\ turn = [c \in Conns |-> NoTurn] /\ turns = 0
    /\ ask = [q \in Questions |-> "fresh"]
    /\ asker = [q \in Questions |-> NoOne]
    /\ pending = {} /\ oneshot = [q \in Questions |-> "empty"]
    /\ result = [q \in Questions |-> "none"]
    /\ accepts = [q \in Questions |-> 0] /\ late = {}
    /\ feed = [c \in Conns |-> {}] /\ seen = [c \in Conns |-> {}] /\ missed = {}
    /\ cancelled = {} /\ tokens = [s \in Sessions |-> NoTurn]
    /\ activeIds = [s \in Sessions |-> NoTurn] /\ aborter = {}

-----------------------------------------------------------------------------
(* A connection opens. *)

(* pending_for_session, sent before the handshake's first frame is awaited. *)
SendPending(c) ==
    /\ conn[c] = "new"
    /\ conn' = [conn EXCEPT ![c] = "handshake"]
    /\ seen' = [seen EXCEPT ![c] = {q \in pending : SessionOfQ(q) = SessionOf[c]}]
    /\ UNCHANGED <<phase, turn, turns, toolVars, managerVars, feed, missed, abortVars>>

(* The first frame has come: event_tx.subscribe(), then the loop. *)
Subscribe(c) ==
    /\ conn[c] = "handshake"
    /\ conn' = [conn EXCEPT ![c] = "open"]
    /\ UNCHANGED <<phase, turn, turns, toolVars, managerVars, shownVars, abortVars>>

(* The connection's select! reads frames and events only in its loop and   *)
(* in a turn's forwarder: not while it waits for the session's queue.      *)
Reading(c) == conn[c] = "open" /\ phase[c] \in {"loop", "running"}

(* recv_broadcast; event_matches_session drops other sessions' questions. *)
ShowEventAll(c, q) ==      \* mutant of ShowEvent: one event at a time
    /\ Reading(c) /\ q \in feed[c]
    /\ feed' = [feed EXCEPT ![c] = {}]
    /\ seen' = IF SessionOfQ(q) = SessionOf[c]
               THEN [seen EXCEPT ![c] = @ \cup {q}] ELSE seen
    /\ UNCHANGED <<connVars, toolVars, managerVars, missed, abortVars>>

ShowEvent(c, q) ==
    /\ Reading(c) /\ q \in feed[c]
    /\ feed' = [feed EXCEPT ![c] = @ \ {q}]
    /\ seen' = IF SessionOfQ(q) = SessionOf[c]
               THEN [seen EXCEPT ![c] = @ \cup {q}] ELSE seen
    /\ UNCHANGED <<connVars, toolVars, managerVars, missed, abortVars>>

(* The client closes: the loop ends, or the forwarder cancels the token of *)
(* the turn, which goes on.                                                *)
Close(c) ==
    /\ conn[c] = "handshake" \/ Reading(c)
    /\ conn' = [conn EXCEPT ![c] = "closed"]
    /\ cancelled' = IF phase[c] = "running" THEN cancelled \cup {turn[c]} ELSE cancelled
    /\ UNCHANGED <<phase, turn, turns, toolVars, managerVars, shownVars, tokens, activeIds, aborter>>

-----------------------------------------------------------------------------
(* A turn. *)

Message(c) ==
    /\ conn[c] = "open" /\ phase[c] = "loop" /\ turns < MaxTurns
    /\ phase' = [phase EXCEPT ![c] = "queued"]
    /\ UNCHANGED <<conn, turn, turns, toolVars, managerVars, shownVars, abortVars>>

(* The turn has the session's queue; its id is made and registered. *)
BeginTurn(c) ==
    /\ phase[c] = "queued" /\ turns < MaxTurns
    /\ \A d \in Conns : SessionOf[d] = SessionOf[c] => turn[d] = NoTurn
    /\ turns' = turns + 1
    /\ turn' = [turn EXCEPT ![c] = turns + 1]
    /\ phase' = [phase EXCEPT ![c] = "registering"]
    /\ activeIds' = [activeIds EXCEPT ![SessionOf[c]] = turns + 1]
    /\ UNCHANGED <<conn, toolVars, managerVars, shownVars, cancelled, tokens, aborter>>

(* The queue refuses the message, or its wait times out. *)
Refused(c) ==
    /\ phase[c] = "queued"
    /\ phase' = [phase EXCEPT ![c] = "loop"]
    /\ UNCHANGED <<conn, turn, turns, toolVars, managerVars, shownVars, abortVars>>

RegisterToken(c) ==
    /\ phase[c] = "registering"
    /\ phase' = [phase EXCEPT ![c] = "running"]
    /\ tokens' = [tokens EXCEPT ![SessionOf[c]] = turn[c]]
    /\ UNCHANGED <<conn, turn, turns, toolVars, managerVars, shownVars,
                   cancelled, activeIds, aborter>>

(* An iteration of the agent's loop, which looks at the token at its head  *)
(* only, ends in a batch of questions.                                     *)
CallTools(c) ==
    /\ phase[c] = "running" /\ turn[c] \notin cancelled /\ Unanswered(c) = {}
    /\ \E batch \in SUBSET {q \in Questions : ask[q] = "fresh"} \ {{}} :
         /\ ask' = [q \in Questions |-> IF q \in batch THEN "called" ELSE ask[q]]
         /\ asker' = [q \in Questions |-> IF q \in batch THEN <<c, turn[c]>> ELSE asker[q]]
    /\ UNCHANGED <<connVars, result, managerVars, shownVars, abortVars>>

(* ask(): the request is in the map before it is broadcast. *)
Ask(q) ==
    /\ ask[q] = "called"
    /\ ask' = [ask EXCEPT ![q] = "waiting"]
    /\ pending' = pending \cup {q}
    /\ feed' = [c \in Conns |-> IF conn[c] = "open" THEN feed[c] \cup {q} ELSE feed[c]]
    /\ missed' = missed \cup {<<c, q>> : c \in {d \in Conns : conn[d] = "handshake"}}
    /\ UNCHANGED <<connVars, asker, result, oneshot, accepts, late, seen, abortVars>>

Returns(q, r) ==
    /\ ask' = [ask EXCEPT ![q] = "returned"]
    /\ result' = [result EXCEPT ![q] = r]

Receive(q) ==
    /\ ask[q] = "waiting" /\ oneshot[q] # "empty"
    /\ Returns(q, oneshot[q])
    /\ UNCHANGED <<connVars, asker, managerVars, shownVars, abortVars>>

(* The timer fires; the request is removed in a step of its own, and other *)
(* threads may take it first.                                              *)
Fire(q) ==
    /\ ask[q] = "waiting" /\ oneshot[q] = "empty"
    /\ ask' = [ask EXCEPT ![q] = "expired"]
    /\ UNCHANGED <<connVars, asker, result, managerVars, shownVars, abortVars>>

ExpireKeeps(q) ==    \* mutant of Expire: the map keeps the request
    /\ ask[q] = "expired"
    /\ Returns(q, "expired")
    /\ UNCHANGED <<connVars, asker, managerVars, shownVars, abortVars>>

Expire(q) ==
    /\ ask[q] = "expired"
    /\ pending' = pending \ {q}
    /\ Returns(q, "expired")
    /\ UNCHANGED <<connVars, asker, oneshot, accepts, late, shownVars, abortVars>>

(* The turn is over when all its calls are: its id is removed first. *)
EndTurn(c) ==
    /\ phase[c] = "running" /\ Unanswered(c) = {}
    /\ phase' = [phase EXCEPT ![c] = "ending"]
    /\ activeIds' = [activeIds EXCEPT ![SessionOf[c]] = NoTurn]
    /\ UNCHANGED <<conn, turn, turns, toolVars, managerVars, shownVars,
                   cancelled, tokens, aborter>>

Unregister(c) ==
    /\ phase[c] = "ending"
    /\ phase' = [phase EXCEPT ![c] = "loop"]
    /\ turn' = [turn EXCEPT ![c] = NoTurn]
    /\ tokens' = [tokens EXCEPT ![SessionOf[c]] = NoTurn]
    /\ UNCHANGED <<conn, turns, toolVars, managerVars, shownVars,
                   cancelled, activeIds, aborter>>

-----------------------------------------------------------------------------
(* The user. *)

(* submit, under the map's lock: every other response is answered          *)
(* not_pending or rejected and changes nothing.                            *)
Accept(q) ==
    /\ pending' = pending \ {q}
    /\ oneshot' = [oneshot EXCEPT ![q] = "answer"]
    /\ accepts' = [accepts EXCEPT ![q] = @ + 1]
    /\ late' = IF ask[q] = "expired" THEN late \cup {q} ELSE late

AnyAnswer(c, q) ==   \* mutant of Answer: no look at what is pending
    /\ Reading(c) /\ ask[q] \in {"waiting", "expired"} /\ accepts[q] < 2
    /\ SessionOfQ(q) = SessionOf[c]
    /\ Accept(q)
    /\ UNCHANGED <<connVars, toolVars, shownVars, abortVars>>

Answer(c, q) ==
    /\ Reading(c) /\ q \in pending
    /\ SessionOfQ(q) = SessionOf[c]
    /\ Accept(q)
    /\ UNCHANGED <<connVars, toolVars, shownVars, abortVars>>

(* cancel_turn, under the map's lock. *)
CancelTurn(s, t) ==
    LET hit == {q \in pending : SessionOfQ(q) = s /\ TurnOf(q) = t} IN
    /\ pending' = pending \ hit
    /\ oneshot' = [q \in Questions |-> IF q \in hit THEN "cancelled" ELSE oneshot[q]]

(* The abort frame, read by the turn's own connection. *)
AbortFrame(c) ==
    /\ Reading(c) /\ phase[c] = "running"
    /\ cancelled' = cancelled \cup {turn[c]}
    /\ CancelTurn(SessionOf[c], turn[c])
    /\ UNCHANGED <<connVars, toolVars, accepts, late, shownVars, tokens, activeIds, aborter>>

(* POST /api/sessions/{id}/abort cancels the session's token, then looks   *)
(* up the session's turn and cancels that turn's questions.                *)
AbortToken(s) ==
    /\ s \notin aborter /\ tokens[s] # NoTurn
    /\ aborter' = aborter \cup {s}
    /\ cancelled' = cancelled \cup {tokens[s]}
    /\ UNCHANGED <<connVars, toolVars, managerVars, shownVars, tokens, activeIds>>

AbortQuestions(s) ==
    /\ s \in aborter
    /\ aborter' = aborter \ {s}
    /\ \/ activeIds[s] # NoTurn /\ CancelTurn(s, activeIds[s])
       \/ activeIds[s] = NoTurn /\ UNCHANGED <<pending, oneshot>>
    /\ UNCHANGED <<connVars, toolVars, accepts, late, shownVars,
                   cancelled, tokens, activeIds>>

Next ==
    \/ \E c \in Conns :
         \/ SendPending(c) \/ Subscribe(c) \/ Close(c)
         \/ Message(c) \/ BeginTurn(c) \/ Refused(c) \/ RegisterToken(c)
         \/ CallTools(c) \/ EndTurn(c) \/ Unregister(c) \/ AbortFrame(c)
         \/ \E q \in Questions : ShowEvent(c, q) \/ Answer(c, q)
    \/ \E q \in Questions : Ask(q) \/ Receive(q) \/ Fire(q) \/ Expire(q)
    \/ \E s \in Sessions : AbortToken(s) \/ AbortQuestions(s)

Spec == Init /\ [][Next]_vars

-----------------------------------------------------------------------------
(* At most one response to a question is told it was accepted, and the     *)
(* tool returns an answer only if there was one.  An accepted answer is    *)
(* what the tool returns, unless it was accepted between the firing of the *)
(* timer and the removal of the request: submit cannot see that the        *)
(* receiver has gone.                                                      *)
AcceptedIsReturned ==
    \A q \in Questions :
        /\ accepts[q] <= 1
        /\ result[q] = "answer" => accepts[q] = 1
        /\ accepts[q] = 1 => \/ result[q] \in {"none", "answer"}
                             \/ result[q] = "expired" /\ q \in late

(* The map holds a request only while its turn runs and its tool call      *)
(* waits: no question is left over for a client to answer after its turn.  *)
NoQuestionOutlivesTurn ==
    \A q \in pending : /\ ask[q] \in {"waiting", "expired"}
                       /\ phase[asker[q][1]] = "running"
                       /\ turn[asker[q][1]] = TurnOf(q)

(* Every open connection of the session was shown a pending question, or   *)
(* has it among the events it will read, also if it connected after it was *)
(* asked; the exception is a connection that was in its handshake, past    *)
(* the list and not yet subscribed.                                        *)
QuestionShown ==
    \A c \in Conns, q \in pending :
        (/\ conn[c] = "open" /\ SessionOfQ(q) = SessionOf[c]
         /\ <<c, q>> \notin missed)
            => q \in seen[c] \cup feed[c]
=============================================================================
