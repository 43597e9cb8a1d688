-------------------------------- MODULE Turn --------------------------------
(***************************************************************************)
(* One turn of a session: the gateway's process_chat_message               *)
(* (crates/clawseed-gateway/src/ws.rs) drives two futures in one task, the *)
(* agent's turn_streamed_with_files (crates/clawseed-agent/src/agent/      *)
(* turn.rs), which produces events, and a forwarder, which takes them from *)
(* a bounded channel, saves partial text and relays them to the client.    *)
(* Both end before the handler goes on (tokio::join!).  A cancellation     *)
(* token, shared with the abort endpoint (api/sessions.rs), is the only    *)
(* way to stop the agent.                                                  *)
(*                                                                         *)
(* Text is counted in chunks: a text is the number of its first chunks.    *)
(* The provider and the tools are external: a stream yields text, tool     *)
(* calls, or ends at any point; a tool batch takes any time but ends.      *)
(***************************************************************************)
EXTENDS Naturals, Sequences

CONSTANTS
    ChannelCap,   \* capacity of the event channel (64)
    MaxIter,      \* max_tool_iterations
    MaxChunks     \* bound: chunks one stream yields

ASSUME TurnAssumption == /\ ChannelCap \in Nat \ {0}
                         /\ MaxIter \in Nat \ {0}
                         /\ MaxChunks \in Nat

VARIABLES
    \* the agent
    agent,       \* where turn_streamed_with_files is
    iter,        \* iterations begun
    got,         \* got_stream: this stream yielded something
    called,      \* this response has tool calls
    streamed,    \* chunks of this iteration's text
    produced,    \* chunks of the whole turn, sent or about to be
    result,      \* "none", then "ok", "cancelled" or "error"
    \* between them
    channel,     \* event_rx: a sequence of event kinds
    cancelled,   \* the CancellationToken
    \* the forwarder and the handler around it
    handler,     \* where process_chat_message is
    forwarding,  \* forward_fut has not returned
    accumulated, \* accumulated_text
    savedPartial,\* partial_saved
    registered,  \* cancel_tokens and active_turn_ids have this turn's entry
    \* the client
    inbox,       \* what the client sent and the forwarder has not read
    outcome,     \* the frame that ended the turn: "none", "done", "aborted", "error"
    \* what is on disk
    rows,        \* assistant rows this turn appended
    dbState      \* session state: "idle", "running" or "error"

agentVars == <<agent, iter, got, called, streamed, produced, result>>
handlerVars == <<handler, forwarding, accumulated, savedPartial, registered, outcome>>
disk == <<rows, dbState>>
vars == <<agentVars, channel, cancelled, handlerVars, inbox, disk>>

AgentPCs == {"check", "stream", "sendChunk", "decide", "fallback", "sendLast",
             "sendCall", "tools", "sendResult", "ended"}
HandlerPCs == {"turn", "unregistered", "persisted", "over", "crashed"}
EventKinds == {"chunk", "call", "result"}
Row == [text : Nat, marked : BOOLEAN]   \* marked: ends in "[interrupted by user]"

TypeOK ==
    /\ agent \in AgentPCs
    /\ iter \in 0 .. MaxIter
    /\ got \in BOOLEAN /\ called \in BOOLEAN
    /\ streamed \in Nat /\ produced \in Nat
    /\ result \in {"none", "ok", "cancelled", "error"}
    /\ channel \in Seq(EventKinds) /\ Len(channel) <= ChannelCap
    /\ cancelled \in BOOLEAN
    /\ handler \in HandlerPCs
    /\ forwarding \in BOOLEAN /\ savedPartial \in BOOLEAN /\ registered \in BOOLEAN
    /\ accumulated \in 0 .. produced
    /\ inbox \in Seq({"abort", "close"})
    /\ outcome \in {"none", "done", "aborted", "error"}
    /\ rows \in Seq(Row)
    /\ dbState \in {"idle", "running", "error"}

(* process_chat_message up to the join: the turn is registered, the        *)
(* session is marked running, the agent has the user message.              *)
Init ==
    /\ agent = "check" /\ iter = 0 /\ got = FALSE /\ called = FALSE
    /\ streamed = 0 /\ produced = 0 /\ result = "none"
    /\ channel = <<>> /\ cancelled = FALSE
    /\ handler = "turn" /\ forwarding = TRUE /\ accumulated = 0
    /\ savedPartial = FALSE /\ registered = TRUE
    /\ inbox = <<>> /\ outcome = "none"
    /\ rows = <<>> /\ dbState = "running"

-----------------------------------------------------------------------------
(* The agent. *)

(* The agent runs as long as its handler is at the join. *)
InTurn == handler = "turn" /\ UNCHANGED <<cancelled, handlerVars, inbox, disk>>

EndAgent(r) == agent' = "ended" /\ result' = r

(* The loop head: the turn is out of iterations, or cancelled, or streams. *)
BeginIteration ==
    /\ agent = "check"
    /\ \/ /\ iter = MaxIter
          /\ EndAgent("error")
          /\ UNCHANGED <<iter, got, called, streamed>>
       \/ /\ iter < MaxIter /\ cancelled
          /\ EndAgent("cancelled")
          /\ UNCHANGED <<iter, got, called, streamed>>
       \/ /\ iter < MaxIter /\ ~cancelled
          /\ agent' = "stream"
          /\ iter' = iter + 1
          /\ got' = FALSE /\ called' = FALSE /\ streamed' = 0
          /\ UNCHANGED result
    /\ UNCHANGED <<produced, channel>> /\ InTurn

(* The biased select takes a stream item only while the token is live. *)
StreamText ==
    /\ agent = "stream" /\ ~cancelled /\ streamed < MaxChunks
    /\ agent' = "sendChunk"
    /\ got' = TRUE /\ streamed' = streamed + 1 /\ produced' = produced + 1
    /\ UNCHANGED <<iter, called, result, channel>> /\ InTurn

StreamCall ==
    /\ agent = "stream" /\ ~cancelled /\ ~called
    /\ got' = TRUE /\ called' = TRUE
    /\ UNCHANGED <<agent, iter, streamed, produced, result, channel>> /\ InTurn

(* Final, end of stream and a stream error all leave the loop. *)
StreamEnds ==
    /\ agent = "stream" /\ ~cancelled
    /\ agent' = "decide"
    /\ UNCHANGED <<iter, got, called, streamed, produced, result, channel>>
    /\ InTurn

StreamCut ==
    /\ agent = "stream" /\ cancelled
    /\ agent' = "decide"
    /\ UNCHANGED <<iter, got, called, streamed, produced, result, channel>> /\ InTurn

(* What a stream left is the response, complete or not; nothing at all     *)
(* makes the agent ask again without streaming.                            *)
Decide ==
    /\ agent = "decide"
    /\ \/ got /\ called /\ agent' = "sendCall" /\ UNCHANGED result
       \/ got /\ ~called /\ EndAgent("ok")
       \/ ~got /\ agent' = "fallback" /\ UNCHANGED result
    /\ UNCHANGED <<iter, got, called, streamed, produced, channel>> /\ InTurn

(* provider.chat, which nothing cancels. *)
FallbackReply ==
    /\ agent = "fallback"
    /\ \/ EndAgent("error") /\ UNCHANGED <<streamed, produced>>
       \/ EndAgent("ok") /\ UNCHANGED <<streamed, produced>>      \* empty text
       \/ /\ agent' = "sendLast" /\ UNCHANGED result
          /\ streamed' = 1 /\ produced' = produced + 1
       \/ agent' = "sendCall" /\ UNCHANGED <<result, streamed, produced>>
    /\ UNCHANGED <<iter, got, called, channel>> /\ InTurn

(* event_tx.send: waits for room, whatever happens to the token or to the  *)
(* forwarder (the receiver outlives it, so the channel never closes).      *)
Send(kind, from, to) ==
    /\ agent = from /\ agent' = to
    /\ Len(channel) < ChannelCap
    /\ channel' = Append(channel, kind)
    /\ UNCHANGED <<iter, got, called, streamed, produced>> /\ InTurn

SendEvent ==
    \/ Send("chunk", "sendChunk", "stream") /\ UNCHANGED result
    \/ Send("chunk", "sendLast", "ended") /\ result' = "ok"
    \/ Send("call", "sendCall", "tools") /\ UNCHANGED result
    \/ Send("result", "sendResult", "check") /\ UNCHANGED result

(* execute_tools: nothing cancels it; every tool has a timeout. *)
ToolsDone ==
    /\ agent = "tools"
    /\ agent' = "sendResult"
    /\ UNCHANGED <<iter, got, called, streamed, produced, result, channel>>
    /\ InTurn

AgentStep ==
    BeginIteration \/ StreamText \/ StreamCall \/ StreamEnds \/ StreamCut
        \/ Decide \/ FallbackReply \/ SendEvent \/ ToolsDone

-----------------------------------------------------------------------------
(* The forwarder. *)

OtherThanForwarder == UNCHANGED <<agentVars, handler, registered, outcome, dbState>>

(* the placeholder row is appended again at every save *)
SaveRowMutant(row) == rows' = Append(rows, row)

(* Partial text is appended once, then updated in place. *)
SaveRow(row) ==
    rows' = IF savedPartial THEN [rows EXCEPT ![Len(rows)] = row] ELSE Append(rows, row)

(* An event leaves the channel and is relayed; a chunk is also added to    *)
(* the text, which is saved when the last save is 500 ms old.              *)
Forward ==
    /\ handler = "turn" /\ forwarding
    /\ channel # <<>>
    /\ channel' = Tail(channel)
    /\ IF Head(channel) = "chunk"
       THEN /\ accumulated' = accumulated + 1
            /\ \/ /\ SaveRow([text |-> accumulated + 1, marked |-> FALSE])
                  /\ savedPartial' = TRUE
               \/ UNCHANGED <<rows, savedPartial>>
       ELSE UNCHANGED <<accumulated, rows, savedPartial>>
    /\ UNCHANGED <<cancelled, inbox, forwarding>> /\ OtherThanForwarder

(* event_rx.recv gives None: the agent dropped its sender, all is relayed. *)
ForwardDone ==
    /\ handler = "turn" /\ forwarding
    /\ agent = "ended" /\ channel = <<>>
    /\ forwarding' = FALSE
    /\ UNCHANGED <<channel, cancelled, inbox, accumulated, rows, savedPartial>>
    /\ OtherThanForwarder

(* the abort branch leaves the loop like the close branch does *)
ReadAbortMutant ==
    /\ handler = "turn" /\ forwarding
    /\ inbox # <<>> /\ Head(inbox) = "abort"
    /\ inbox' = Tail(inbox)
    /\ cancelled' = TRUE /\ forwarding' = FALSE
    /\ UNCHANGED <<channel, accumulated, rows, savedPartial>>
    /\ OtherThanForwarder

ReadAbort ==
    /\ handler = "turn" /\ forwarding
    /\ inbox # <<>> /\ Head(inbox) = "abort"
    /\ inbox' = Tail(inbox)
    /\ cancelled' = TRUE
    /\ UNCHANGED <<channel, forwarding, accumulated, rows, savedPartial>>
    /\ OtherThanForwarder

(* The connection closed: the turn is cancelled and the forwarder returns, *)
(* but the receiving end of the channel stays open.                        *)
ReadClose ==
    /\ handler = "turn" /\ forwarding
    /\ inbox # <<>> /\ Head(inbox) = "close"
    /\ cancelled' = TRUE /\ forwarding' = FALSE
    /\ UNCHANGED <<channel, inbox, accumulated, rows, savedPartial>>
    /\ OtherThanForwarder

-----------------------------------------------------------------------------
(* The handler after the join. *)

Unregister ==
    /\ handler = "turn" /\ agent = "ended" /\ ~forwarding
    /\ handler' = "unregistered"
    /\ registered' = FALSE
    /\ UNCHANGED <<agentVars, channel, cancelled, forwarding, accumulated,
                   savedPartial, outcome, inbox, disk>>

(* the agent's return value, which is the text of the last iteration only *)
FinalTextMutant == streamed

(* All deltas of all iterations, or the return value when there were none. *)
FinalText == IF accumulated = 0 THEN streamed ELSE accumulated

Persist ==
    /\ handler = "unregistered"
    /\ handler' = "persisted"
    /\ \/ result = "ok" /\ SaveRow([text |-> FinalText, marked |-> FALSE])
       \/ result = "cancelled" /\ SaveRow([text |-> accumulated, marked |-> TRUE])
       \/ result = "error" /\ UNCHANGED rows
    /\ UNCHANGED <<agentVars, channel, cancelled, forwarding, accumulated,
                   savedPartial, registered, outcome, inbox, dbState>>

StateAfter == IF result = "error" THEN "error" ELSE "idle"

Report ==
    /\ handler = "persisted"
    /\ handler' = "over"
    /\ outcome' = CASE result = "ok" -> "done"
                    [] result = "cancelled" -> "aborted"
                    [] result = "error" -> "error"
    /\ dbState' = StateAfter
    /\ UNCHANGED <<agentVars, channel, cancelled, forwarding, accumulated,
                   savedPartial, registered, inbox, rows>>

(* The process dies; the disk stays as it is. *)
Crash ==
    /\ handler \notin {"over", "crashed"}
    /\ handler' = "crashed"
    /\ UNCHANGED <<agentVars, channel, cancelled, forwarding, accumulated,
                   savedPartial, registered, outcome, inbox, disk>>

-----------------------------------------------------------------------------
(* The client, and the abort endpoint. *)

ClientSends(m) ==
    /\ handler = "turn" /\ forwarding
    /\ \A i \in DOMAIN inbox : inbox[i] # "close" /\ inbox[i] # m
    /\ inbox' = Append(inbox, m)
    /\ UNCHANGED <<agentVars, channel, cancelled, handlerVars, disk>>

(* POST /api/sessions/{id}/abort, or an abort on another connection. *)
AbortEndpoint ==
    /\ handler # "crashed" /\ registered
    /\ cancelled' = TRUE
    /\ UNCHANGED <<agentVars, channel, handlerVars, inbox, disk>>

-----------------------------------------------------------------------------
HandlerStep == Forward \/ ForwardDone \/ ReadAbort \/ ReadClose
                 \/ Unregister \/ Persist \/ Report

Next ==
    \/ AgentStep
    \/ HandlerStep
    \/ Crash \/ AbortEndpoint
    \/ ClientSends("abort") \/ ClientSends("close")

Spec == Init /\ [][Next]_vars

(* The task is polled while it can go on, and select! is fair to its       *)
(* branches; the provider's streams and the tools end.  The client and the *)
(* process need not do anything.                                           *)
Fairness ==
    /\ WF_vars(AgentStep)
    /\ WF_vars(Forward) /\ WF_vars(ForwardDone)
    /\ WF_vars(ReadAbort) /\ WF_vars(ReadClose)
    /\ WF_vars(Unregister \/ Persist \/ Report)

FairSpec == Spec /\ Fairness

-----------------------------------------------------------------------------
(* Properties. *)

Closing == \E i \in DOMAIN inbox : inbox[i] = "close"

(* When the turn is over it has left exactly one answer row (an error may  *)
(* leave none), marked as interrupted if and only if the turn was          *)
(* cancelled, nothing is left to abort, and the session is not "running".  *)
(* As long as the client did not close, what is stored and announced is    *)
(* everything the agent produced, whatever was cancelled when: joining the *)
(* two futures drains the channel.                                         *)
Settled ==
    handler = "over" =>
        /\ Len(rows) <= 1
        /\ result # "error" => Len(rows) = 1
        /\ \A i \in DOMAIN rows : rows[i].marked <=> result = "cancelled"
        /\ ~registered /\ dbState # "running"
        /\ ~Closing /\ result # "error" =>
              accumulated = produced /\ rows[1].text = produced

(* The stored answer only grows while the turn runs, so a crash finds a    *)
(* prefix of what was streamed and the final write loses none of it, text  *)
(* of earlier iterations included (ws.rs:1412-1419).                       *)
AnswerNeverShrinks ==
    [][\A i \in DOMAIN rows : i \in DOMAIN rows' /\ rows'[i].text >= rows[i].text]_vars

(* A sender that waits for room nobody will make. *)
Stuck ==
    /\ ~forwarding /\ Closing
    /\ agent \in {"sendChunk", "sendLast", "sendCall", "sendResult"}
    /\ Len(channel) = ChannelCap

(* A turn ends, unless the client closes its connection and the agent is   *)
(* left with a full channel.                                               *)
EndsOrStuck == handler = "turn" ~> handler \in {"over", "crashed"} \/ Stuck

(* ws.rs:1146-1149: the token is removed "after the turn completes         *)
(* regardless of outcome (normal, error, or cancelled)", which needs every *)
(* turn to complete.                                                       *)
TurnEnds == handler = "turn" ~> handler \in {"over", "crashed"}
=============================================================================
