----------------------------- MODULE RemoteTools -----------------------------
(***************************************************************************)
(* Tools a WebSocket client executes for the agent of its connection       *)
(* (crates/clawseed-gateway/src/remote_tool.rs and the handler in ws.rs).  *)
(*                                                                         *)
(* RemoteTool::execute puts a request with the sender half of a oneshot    *)
(* channel into the connection's bounded request channel, then waits for   *)
(* the answer with a timeout.  While a turn runs, its forwarder takes the  *)
(* requests, relays them to the client and keeps the oneshot senders in    *)
(* pending_remote_calls until the client answers.  A oneshot sender is     *)
(* thus in the channel, in the map, or used up: the model says which.      *)
(*                                                                         *)
(* The socket is reliable and ordered until it breaks.  A client answers   *)
(* in any order, late, more than once or never.                            *)
(***************************************************************************)
EXTENDS Naturals, Sequences, SequencesExt, FiniteSets

CONSTANTS
    Calls,        \* tool calls, each made at most once: a call has a fresh id
    Capacity,     \* places in the request channel (32)
    MaxReplies    \* bound: answers of the client on their way to the gateway

ASSUME RemoteToolsAssumption == /\ IsFiniteSet(Calls)
                                /\ Capacity \in Nat \ {0}
                                /\ MaxReplies \in Nat \ {0}

VARIABLES
    handler,   \* "idle" between turns, "turn" during one, "gone" after the connection
    forwarding,\* the turn's forwarder has not returned
    socket,    \* "up" or "broken"
    call,      \* where RemoteTool::execute is, for each call
    result,    \* what it returned
    requests,  \* the request channel
    pending,   \* keys of pending_remote_calls
    oneshot,   \* what each call's oneshot channel holds
    asked,     \* calls the client was asked to execute
    replies,   \* the client's answers, on the wire
    acked      \* calls whose answer the gateway acknowledged

gateway == <<handler, forwarding, requests, pending>>
agent == <<call, result>>
client == <<socket, asked, replies>>
vars == <<gateway, agent, client, oneshot, acked>>

Active == {c \in Calls : call[c] \in {"sending", "waiting"}}

TypeOK ==
    /\ handler \in {"idle", "turn", "gone"}
    /\ forwarding \in BOOLEAN
    /\ socket \in {"up", "broken"}
    /\ call \in [Calls -> {"fresh", "sending", "waiting", "returned"}]
    /\ result \in [Calls -> {"none", "answer", "sendFailed", "timeout"}]
    /\ requests \in Seq(Calls) /\ Len(requests) <= Capacity
    /\ pending \subseteq Calls
    /\ oneshot \in [Calls -> {"empty", "answer", "sendFailed"}]
    /\ asked \subseteq Calls
    /\ replies \in Seq(Calls) /\ Len(replies) <= MaxReplies
    /\ acked \subseteq Calls

Init ==
    /\ handler = "idle" /\ forwarding = FALSE /\ socket = "up"
    /\ call = [c \in Calls |-> "fresh"]
    /\ result = [c \in Calls |-> "none"]
    /\ requests = <<>> /\ pending = {}
    /\ oneshot = [c \in Calls |-> "empty"]
    /\ asked = {} /\ replies = <<>> /\ acked = {}

-----------------------------------------------------------------------------
(* The agent's side. *)

BeginTurn ==
    /\ handler = "idle" /\ socket = "up"
    /\ handler' = "turn" /\ forwarding' = TRUE
    /\ UNCHANGED <<requests, pending, agent, client, oneshot, acked>>

(* execute_tools runs the calls of one response in parallel and waits for  *)
(* all of them before the next response.                                   *)
CallBatch ==
    /\ handler = "turn" /\ Active = {}
    /\ \E batch \in SUBSET {c \in Calls : call[c] = "fresh"} \ {{}} :
         call' = [c \in Calls |-> IF c \in batch THEN "sending" ELSE call[c]]
    /\ UNCHANGED <<gateway, result, client, oneshot, acked>>

(* request_tx.send waits for room in the channel; no timeout covers it.    *)
SendRequest(c) ==
    /\ call[c] = "sending" /\ Len(requests) < Capacity
    /\ requests' = Append(requests, c)
    /\ call' = [call EXCEPT ![c] = "waiting"]
    /\ UNCHANGED <<handler, forwarding, pending, result, client, oneshot, acked>>

Returns(c, r) ==
    /\ call' = [call EXCEPT ![c] = "returned"]
    /\ result' = [result EXCEPT ![c] = r]
    /\ UNCHANGED <<gateway, client, oneshot, acked>>

Receive(c) ==
    /\ call[c] = "waiting" /\ oneshot[c] # "empty"
    /\ Returns(c, oneshot[c])

ForwardedOnly(c) ==  \* mutant of Timeout: the timer starts when the request is relayed
    /\ call[c] = "waiting" /\ oneshot[c] = "empty" /\ c \in pending
    /\ Returns(c, "timeout")

(* tokio's timeout looks at the oneshot before it looks at the clock. *)
Timeout(c) ==
    /\ call[c] = "waiting" /\ oneshot[c] = "empty"
    /\ Returns(c, "timeout")

(* The agent returns, the event channel closes and the forwarder with it,  *)
(* whatever is still in the request channel.                               *)
EndTurn ==
    /\ handler = "turn" /\ Active = {}
    /\ handler' = "idle" /\ forwarding' = FALSE
    /\ UNCHANGED <<requests, pending, agent, client, oneshot, acked>>

-----------------------------------------------------------------------------
(* The gateway's side. *)

(* The forwarder's remote_request_rx arm.  A send on a broken socket may   *)
(* fail, or succeed and reach nobody.                                      *)
ForwardLast ==        \* mutant of Forward: one place instead of a map
    /\ forwarding /\ requests # <<>>
    /\ requests' = Tail(requests)
    /\ asked' = IF socket = "up" THEN asked \cup {Head(requests)} ELSE asked
    /\ pending' = {Head(requests)}
    /\ UNCHANGED <<handler, forwarding, agent, socket, replies, acked, oneshot>>

Forward ==
    /\ forwarding /\ requests # <<>>
    /\ LET c == Head(requests) IN
       /\ requests' = Tail(requests)
       /\ \/ socket = "up" /\ asked' = asked \cup {c}
             /\ pending' = pending \cup {c} /\ UNCHANGED oneshot
          \/ socket = "broken" /\ UNCHANGED asked
             /\ pending' = pending \cup {c} /\ UNCHANGED oneshot
          \/ /\ socket = "broken" /\ UNCHANGED <<asked, pending>>
             /\ oneshot' = IF call[c] = "waiting"
                           THEN [oneshot EXCEPT ![c] = "sendFailed"]
                           ELSE oneshot
    /\ UNCHANGED <<handler, forwarding, agent, socket, replies, acked>>

(* handle_mid_turn_client_message, called by the forwarder during a turn   *)
(* and by the connection's loop between turns.  The answer is acknowledged *)
(* whether or not a call waits for it.                                     *)
Reading == handler = "idle" \/ forwarding

Deliver(c) ==
    /\ pending' = pending \ {c}
    /\ oneshot' = IF c \in pending /\ call[c] = "waiting"
                  THEN [oneshot EXCEPT ![c] = "answer"]
                  ELSE oneshot

ReadReply ==
    /\ Reading /\ replies # <<>>
    /\ Deliver(Head(replies))
    /\ acked' = acked \cup {Head(replies)}
    /\ replies' = Tail(replies)
    /\ UNCHANGED <<handler, forwarding, requests, agent, socket, asked>>

(* Nothing more to read from a broken socket: during a turn the forwarder  *)
(* cancels the token and returns, and the turn goes on until its calls     *)
(* end; between turns the connection's task ends and drops what it holds.  *)
SeeClose ==
    /\ Reading /\ socket = "broken" /\ replies = <<>>
    /\ \/ handler = "turn" /\ forwarding' = FALSE /\ UNCHANGED <<handler, requests, pending>>
       \/ /\ handler = "idle" /\ handler' = "gone"
          /\ requests' = <<>> /\ pending' = {}
          /\ UNCHANGED forwarding
    /\ UNCHANGED <<agent, client, oneshot, acked>>

-----------------------------------------------------------------------------
(* The client. *)

Reply(c) ==
    /\ socket = "up" /\ c \in asked /\ Len(replies) < MaxReplies
    /\ replies' = Append(replies, c)
    /\ UNCHANGED <<gateway, agent, socket, asked, oneshot, acked>>

(* A close lets what was sent before it arrive; an error loses it. *)
Break ==
    /\ socket = "up"
    /\ socket' = "broken"
    /\ replies' \in {replies, <<>>}
    /\ UNCHANGED <<gateway, agent, asked, oneshot, acked>>

Next ==
    \/ BeginTurn \/ CallBatch \/ EndTurn
    \/ \E c \in Calls : SendRequest(c) \/ Receive(c) \/ Timeout(c) \/ Reply(c)
    \/ Forward \/ ReadReply \/ SeeClose \/ Break

Spec == Init /\ [][Next]_vars

(* The runtime polls the agent and the forwarder, timers fire, and a       *)
(* client that is there reads what it is sent.  Nothing is assumed of its  *)
(* answers.                                                                *)
Fairness ==
    /\ \A c \in Calls : WF_vars(SendRequest(c)) /\ WF_vars(Receive(c) \/ Timeout(c))
    /\ WF_vars(Forward)

FairSpec == Spec /\ Fairness

-----------------------------------------------------------------------------
(* The oneshot sender of a waiting call is in exactly one place: in the    *)
(* channel, in the map, or used.  It is never dropped, so execute's        *)
(* "Response channel closed" is not reached, and no answer meets a map     *)
(* that forgot its call.                                                   *)
SenderOf(c) == {p \in {"channel", "map", "used"} :
                    \/ p = "channel" /\ c \in Range(requests)
                    \/ p = "map" /\ c \in pending
                    \/ p = "used" /\ oneshot[c] # "empty"}

SenderKept ==
    \A c \in Calls : call[c] = "waiting" => \E p \in SenderOf(c) : SenderOf(c) = {p}

(* A call returns the client's answer only if the client answered that     *)
(* very call, and an answer the gateway acknowledged is returned to the    *)
(* agent unless its call gave up first.                                    *)
OwnAnswer ==
    \A c \in Calls :
        /\ "answer" \in {oneshot[c], result[c]} => c \in acked
        /\ c \in acked => oneshot[c] = "answer" \/ result[c] = "timeout"
        /\ oneshot[c] = "answer" => result[c] \in {"none", "answer"}

(* What a finished turn leaves in the connection's channel and map is of   *)
(* calls that timed out, nothing else.                                     *)
LeftoversTimedOut ==
    Active = {} => \A c \in pending \cup Range(requests) : result[c] = "timeout"

(* All three: every answer finds the call it is for, and nothing is left   *)
(* behind for another turn's calls to meet.                                *)
AnswersRouted == SenderKept /\ OwnAnswer /\ LeftoversTimedOut

(* Every call returns, whatever the client does and however the connection *)
(* ends, with one exception: a full channel nobody reads any more.         *)
Stuck == ~forwarding /\ Len(requests) = Capacity

CallsReturn ==
    \A c \in Calls :
        call[c] \in {"sending", "waiting"} ~> (call[c] = "returned" \/ Stuck)
=============================================================================
