---------------------------- MODULE Conversation ----------------------------
(***************************************************************************)
(* The stored conversation of one session and everyone who writes it.      *)
(*                                                                         *)
(* The messages table (crates/clawseed-gateway/src/session_sqlite.rs) is   *)
(* shared; each of its calls runs under the connection mutex and is one    *)
(* atomic step.  Every WebSocket connection (ws.rs) has an agent with a    *)
(* history of its own, copied from the table when the connection opens and *)
(* never refreshed.  Writers find "their" row again as the last row of a   *)
(* role, so what they overwrite depends on who else wrote meanwhile.  The  *)
(* session lock (SessionQueue) orders the turns of ordinary messages; a    *)
(* message sent as the first frame, the deletion half of a regeneration,   *)
(* the webhook (handlers.rs) and DELETE /api/sessions/{id} do not take it. *)
(*                                                                         *)
(* A message is a model value.  A question's text is the message it is     *)
(* the text of, raw or with the time stamp and the recalled memories the   *)
(* agent adds; an answer's text is the message it answers.  Compaction,    *)
(* trim_history, titles, attachments and metrics are left out.             *)
(***************************************************************************)
EXTENDS Naturals, Sequences, SequencesExt

CONSTANTS
    Conns,          \* WebSocket connections of the session
    Messages,       \* user messages, each sent once (a bound)
    NoConn, NoMessage,
    Results,        \* the text "[Tool results] ..."
    NativeTools,    \* the provider's supports_native_tools()
    CarefulClients  \* clients keep the unlocked operations apart (see Careful)

ASSUME ConversationAssumption ==
    /\ NoConn \notin Conns
    /\ NoMessage \notin Messages /\ Results \notin Messages /\ NoMessage # Results
    /\ NativeTools \in BOOLEAN /\ CarefulClients \in BOOLEAN

VARIABLES
    rows,      \* the messages table, in the order of its ids
    history,   \* each connection's agent: its chat messages
    pc,        \* where each connection's handler is
    current,   \* content: the message a connection is handling
    partial,   \* partial_saved
    lock,      \* who holds the session's permit
    hook,      \* the message a webhook request is answering
    sent,      \* messages sent so far
    done       \* ghost: questions whose "done" frame was sent and whose
               \* answer nobody asked to drop since

conns == <<history, pc, current, partial>>
vars == <<rows, conns, lock, hook, sent, done>>

Texts == Messages \cup {Results}
(* owner is a ghost: the message the row was inserted for.                 *)
QuestionRow == [role : {"user"}, owner : Texts, text : Texts, stage : {"raw", "enriched"}]
AnswerRow == [role : {"assistant"}, owner : Texts, text : Texts,
              stage : {"partial", "final", "interrupted"}]
Entry == [role : {"user", "assistant", "tool"}, text : Texts]

InTurn == {"running", "stored"}

TypeOK ==
    /\ rows \in Seq(QuestionRow \cup AnswerRow)
    /\ history \in [Conns -> Seq(Entry)]
    /\ pc \in [Conns -> {"closed", "handshake", "idle", "waiting", "rewinding"} \cup InTurn]
    /\ current \in [Conns -> Texts \cup {NoMessage}]
    /\ partial \in [Conns -> BOOLEAN]
    /\ lock \in Conns \cup {NoConn}
    /\ hook \in Messages \cup {NoMessage}
    /\ sent \subseteq Messages /\ done \subseteq Texts
    /\ \A c \in Conns : partial[c] => pc[c] \in InTurn

Init ==
    /\ rows = <<>>
    /\ history = [c \in Conns |-> <<>>]
    /\ pc = [c \in Conns |-> "closed"]
    /\ current = [c \in Conns |-> NoMessage]
    /\ partial = [c \in Conns |-> FALSE]
    /\ lock = NoConn /\ hook = NoMessage
    /\ sent = {} /\ done = {}

-----------------------------------------------------------------------------
(* The session store: one operator per call.                               *)

IsUser(r) == r.role = "user"
IsAssistant(r) == r.role = "assistant"

(* Position of the last question in a table or history, 0 without one.     *)
LastUser(s) == SelectLastInSeq(s, IsUser)

AppendRow(table, role, m, stage) ==
    Append(table, [role |-> role, owner |-> m, text |-> m, stage |-> stage])

UpdateLast(table, m, stage) ==
    LET i == SelectLastInSeq(table, IsAssistant)
    IN  IF i = 0 THEN table
        ELSE [table EXCEPT ![i].text = m, ![i].stage = stage]

(* Mutant: the raw content is written back. *)
UpdateLastUserRaw(table, m) ==
    LET i == LastUser(table)
    IN  IF i = 0 THEN table ELSE [table EXCEPT ![i].text = m]

UpdateLastUser(table, m) ==
    LET i == LastUser(table)
    IN  IF i = 0 THEN table
        ELSE [table EXCEPT ![i].text = m, ![i].stage = "enriched"]

RemoveLastAssistantTurn(table) ==
    LET i == LastUser(table)
    IN  IF i = 0 THEN table ELSE SubSeq(table, 1, i)

(* What seed_history makes of the table.                                   *)
Seed(table) == [i \in DOMAIN table |-> [role |-> table[i].role, text |-> table[i].text]]

-----------------------------------------------------------------------------
(* What the environment is trusted with when CarefulClients.  The code     *)
(* enforces none of it.                                                    *)

(* Nothing of the session is going on.                                     *)
Quiet ==
    /\ lock = NoConn /\ hook = NoMessage
    /\ \A c \in Conns : pc[c] \in {"closed", "handshake", "idle"}

(* Something that does not hold the lock is changing the session.          *)
Bypassing ==
    \/ hook # NoMessage
    \/ \E c \in Conns : pc[c] = "rewinding" \/ (pc[c] \in InTurn /\ lock # c)

(* The agent's last question is the session's last question.               *)
UpToDate(c) ==
    LET h == LastUser(history[c])
        t == LastUser(rows)
    IN  h # 0 /\ t # 0 /\ history[c][h].text = rows[t].text

Careful(P) == CarefulClients => P

-----------------------------------------------------------------------------
(* Connections. *)

Open(c) ==
    /\ pc[c] = "closed"
    /\ pc' = [pc EXCEPT ![c] = "handshake"]
    /\ history' = [history EXCEPT ![c] = Seed(rows)]
    /\ UNCHANGED <<rows, current, partial, lock, hook, sent, done>>

(* The first frame is "connect", "register_tools" or a mistake.            *)
Connect(c) ==
    /\ pc[c] = "handshake"
    /\ pc' = [pc EXCEPT ![c] = "idle"]
    /\ UNCHANGED <<rows, history, current, partial, lock, hook, sent, done>>

(* The handler leaves its loop: the client left, or closed during a turn   *)
(* that is over now.                                                       *)
Close(c) ==
    /\ pc[c] \in {"handshake", "idle"}
    /\ pc' = [pc EXCEPT ![c] = "closed"]
    /\ history' = [history EXCEPT ![c] = <<>>]
    /\ UNCHANGED <<rows, current, partial, lock, hook, sent, done>>

(* process_chat_message starts: prepare_turn pushes the question.          *)
BeginTurn(c, m) ==
    /\ pc' = [pc EXCEPT ![c] = "running"]
    /\ current' = [current EXCEPT ![c] = m]

Asked(h, m) == Append(h, [role |-> "user", text |-> m])

(* The guard is dropped with the handler's scope.                          *)
EndTurn(c) ==
    /\ pc' = [pc EXCEPT ![c] = "idle"]
    /\ current' = [current EXCEPT ![c] = NoMessage]
    /\ partial' = [partial EXCEPT ![c] = FALSE]
    /\ lock' = IF lock = c THEN NoConn ELSE lock

(* A message as the first frame: persisted and answered without the lock.  *)
FirstMessage(c, m) ==
    /\ pc[c] = "handshake" /\ m \notin sent
    /\ Careful(Quiet)
    /\ sent' = sent \cup {m}
    /\ rows' = AppendRow(rows, "user", m, "raw")
    /\ history' = [history EXCEPT ![c] = Asked(@, m)]
    /\ BeginTurn(c, m)
    /\ UNCHANGED <<partial, lock, hook, done>>

(* Any other message waits for the lock first.                             *)
Send(c, m) ==
    /\ pc[c] = "idle" /\ m \notin sent
    /\ Careful(~Bypassing)
    /\ sent' = sent \cup {m}
    /\ pc' = [pc EXCEPT ![c] = "waiting"]
    /\ current' = [current EXCEPT ![c] = m]
    /\ UNCHANGED <<rows, history, partial, lock, hook, done>>

Acquire(c) ==
    /\ pc[c] = "waiting" /\ lock = NoConn
    /\ lock' = c
    /\ rows' = AppendRow(rows, "user", current[c], "raw")
    /\ history' = [history EXCEPT ![c] = Asked(@, current[c])]
    /\ BeginTurn(c, current[c])
    /\ UNCHANGED <<partial, hook, sent, done>>

(* The agent and the table are rewound before the lock is asked for.       *)
Regenerate(c) ==
    LET u == LastUser(history[c])
        t == LastUser(rows)
    IN  /\ pc[c] = "idle" /\ u # 0
        /\ Careful(Quiet /\ UpToDate(c))
        /\ current' = [current EXCEPT ![c] = history[c][u].text]
        /\ history' = [history EXCEPT ![c] = SubSeq(@, 1, u - 1)]
        /\ rows' = RemoveLastAssistantTurn(rows)
        /\ done' = IF t = 0 THEN done ELSE done \ {rows[t].owner}
        /\ pc' = [pc EXCEPT ![c] = "rewinding"]
        /\ UNCHANGED <<partial, lock, hook, sent>>

(* No question is appended: the old one is still in the table.             *)
Rerun(c) ==
    /\ pc[c] = "rewinding" /\ lock = NoConn
    /\ lock' = c
    /\ history' = [history EXCEPT ![c] = Asked(@, current[c])]
    /\ BeginTurn(c, current[c])
    /\ UNCHANGED <<rows, partial, hook, sent, done>>

(* SESSION_BUSY: the queue is full, or the wait timed out.                 *)
Refused(c) ==
    /\ pc[c] \in {"waiting", "rewinding"} /\ lock # NoConn
    /\ pc' = [pc EXCEPT ![c] = "idle"]
    /\ current' = [current EXCEPT ![c] = NoMessage]
    /\ UNCHANGED <<rows, history, partial, lock, hook, sent, done>>

-----------------------------------------------------------------------------
(* Turns. *)

(* A batch of tool results goes into the history.  The XML dispatcher      *)
(* makes it a user message.  Bound: one batch a turn.                      *)
ToolRound(c) ==
    LET role == IF NativeTools THEN "tool" ELSE "user"
    IN  /\ pc[c] = "running"
        /\ Last(history[c]) = [role |-> "user", text |-> current[c]]
        /\ history' = [history EXCEPT ![c] = Append(@, [role |-> role, text |-> Results])]
        /\ UNCHANGED <<rows, pc, current, partial, lock, hook, sent, done>>

(* The answer so far or whole: the first write appends, later ones         *)
(* overwrite the last answer of the table.                                 *)
Answer(c, stage) ==
    rows' = IF partial[c] THEN UpdateLast(rows, current[c], stage)
            ELSE AppendRow(rows, "assistant", current[c], stage)

(* Mutant: partial_saved is never set. *)
SavePartialAgain(c) ==
    /\ pc[c] = "running" /\ Len(rows) < 4
    /\ Answer(c, "partial")
    /\ UNCHANGED <<conns, lock, hook, sent, done>>

SavePartial(c) ==
    /\ pc[c] = "running"
    /\ Answer(c, "partial")
    /\ partial' = [partial EXCEPT ![c] = TRUE]
    /\ UNCHANGED <<history, pc, current, lock, hook, sent, done>>

(* Mutant: the guard is dropped once the answer is stored. *)
FinishOkUnlocks(c) ==
    /\ pc[c] = "running"
    /\ Answer(c, "final")
    /\ history' = [history EXCEPT ![c] =
                     Append(@, [role |-> "assistant", text |-> current[c]])]
    /\ pc' = [pc EXCEPT ![c] = "stored"]
    /\ lock' = IF lock = c THEN NoConn ELSE lock
    /\ UNCHANGED <<current, partial, hook, sent, done>>

FinishOk(c) ==
    /\ pc[c] = "running"
    /\ Answer(c, "final")
    /\ history' = [history EXCEPT ![c] =
                     Append(@, [role |-> "assistant", text |-> current[c]])]
    /\ pc' = [pc EXCEPT ![c] = "stored"]
    /\ UNCHANGED <<current, partial, lock, hook, sent, done>>

(* The agent's last user message replaces the table's; then "done" goes    *)
(* out and the turn is over.                                               *)
Enrich(c) ==
    LET u == LastUser(history[c])
    IN  /\ pc[c] = "stored"
        /\ rows' = IF u = 0 THEN rows ELSE UpdateLastUser(rows, history[c][u].text)
        /\ done' = done \cup {current[c]}
        /\ EndTurn(c)
        /\ UNCHANGED <<history, hook, sent>>

FinishCancelled(c) ==
    /\ pc[c] = "running"
    /\ Answer(c, "interrupted")
    /\ EndTurn(c)
    /\ UNCHANGED <<history, hook, sent, done>>

(* Nothing is persisted; what was saved so far stays.  An error before     *)
(* prepare_turn leaves the question out of the history.                    *)
FinishError(c) ==
    /\ pc[c] = "running"
    /\ \/ UNCHANGED history
       \/ /\ ~partial[c]
          /\ Last(history[c]) = [role |-> "user", text |-> current[c]]
          /\ history' = [history EXCEPT ![c] = Front(@)]
    /\ EndTurn(c)
    /\ UNCHANGED <<rows, hook, sent, done>>

-----------------------------------------------------------------------------
(* The other writers, and the process. *)

(* POST /webhook with a session id: its agent is new and has no history.   *)
(* Bound: one request at a time.                                           *)
Webhook(m) ==
    /\ hook = NoMessage /\ m \notin sent
    /\ Careful(Quiet)
    /\ sent' = sent \cup {m}
    /\ hook' = m
    /\ rows' = AppendRow(rows, "user", m, "raw")
    /\ UNCHANGED <<conns, lock, done>>

WebhookAnswers ==
    /\ hook # NoMessage
    /\ \/ rows' = AppendRow(rows, "assistant", hook, "final")
       \/ rows' = rows
    /\ hook' = NoMessage
    /\ UNCHANGED <<conns, lock, sent, done>>

(* DELETE /api/sessions/{id}: the messages go with the session's row.      *)
Delete ==
    /\ rows # <<>>
    /\ Careful(Quiet)
    /\ rows' = <<>> /\ done' = {}
    /\ UNCHANGED <<conns, lock, hook, sent>>

(* The process dies; the table stays.                                      *)
Crash ==
    /\ \E c \in Conns : pc[c] # "closed"
    /\ history' = [c \in Conns |-> <<>>]
    /\ pc' = [c \in Conns |-> "closed"]
    /\ current' = [c \in Conns |-> NoMessage]
    /\ partial' = [c \in Conns |-> FALSE]
    /\ lock' = NoConn /\ hook' = NoMessage
    /\ UNCHANGED <<rows, sent, done>>

Next ==
    \/ \E c \in Conns :
          \/ Open(c) \/ Connect(c) \/ Close(c)
          \/ Acquire(c) \/ Refused(c) \/ Regenerate(c) \/ Rerun(c)
          \/ ToolRound(c) \/ SavePartial(c)
          \/ FinishOk(c) \/ Enrich(c) \/ FinishCancelled(c) \/ FinishError(c)
          \/ \E m \in Messages : FirstMessage(c, m) \/ Send(c, m)
    \/ \E m \in Messages : Webhook(m)
    \/ WebhookAnswers \/ Delete \/ Crash

Spec == Init /\ [][Next]_vars

-----------------------------------------------------------------------------
(* Every question in the table still has the text it was asked with: no    *)
(* turn's end overwrites another turn's question (ws.rs, update_last_user  *)
(* after the answer; session_queue.rs, "prevents SQLite history corruption *)
(* from overlapping writes").                                              *)
QuestionsKept == \A i \in DOMAIN rows : IsUser(rows[i]) => rows[i].text = rows[i].owner

(* An answer stands right after the question it answers: a reader, and the *)
(* agent of the next connection, never sees it under another question.     *)
AnswersInPlace ==
    \A i \in DOMAIN rows : IsAssistant(rows[i]) =>
        /\ i > 1
        /\ IsUser(rows[i - 1]) /\ rows[i - 1].owner = rows[i].text

(* A finished answer the client was told of stays in the table, whole,     *)
(* until the client regenerates it or deletes the session; and so does its *)
(* question, as the model saw it, so that a resumed session repeats the    *)
(* prompt (ws.rs:1454-1457).                                               *)
AnswersKept ==
    \A m \in done :
        /\ \E i \in DOMAIN rows :
              IsAssistant(rows[i]) /\ rows[i].text = m /\ rows[i].stage = "final"
        /\ \E i \in DOMAIN rows :
              IsUser(rows[i]) /\ rows[i].text = m /\ rows[i].stage = "enriched"
=============================================================================
