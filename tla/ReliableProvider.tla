--------------------------- MODULE ReliableProvider ---------------------------
(***************************************************************************)
(* One request of an agent to its model: a stream first, and when nothing  *)
(* comes of it the loop of ReliableProvider::chat in                       *)
(* crates/clawseed-providers/src/reliable.rs over a chain of models, the   *)
(* providers in their order and the attempts at each.  chat_with_system,   *)
(* chat_with_history and chat_with_tools run the same loop.                *)
(*                                                                         *)
(* A pair of provider and model has a window; a request that is longer is  *)
(* refused, and the first refusal of a call drops the older half of the    *)
(* messages for good.  Any attempt may also fail for the moment or for     *)
(* good.  Waiting times and the rotation of keys, that has no effect on    *)
(* the next request, are left out.                                         *)
(***************************************************************************)
EXTENDS Naturals, FiniteSets, Sequences, SequencesExt

CONSTANTS
    Models,      \* the length of model_chain
    Providers,   \* how many there are
    MaxRetries,  \* max_retries
    Requests,    \* what may be asked: sequences of roles
    Windows      \* context windows, in messages

ASSUME ReliableProviderAssumption ==
    /\ Models \in Nat \ {0} /\ Providers \in Nat \ {0} /\ MaxRetries \in Nat
    /\ Requests \subseteq Seq(STRING) /\ Windows \subseteq Nat

VARIABLES
    request,   \* the messages' roles
    images,    \* one of them has an attachment
    sent,      \* effective_messages: which positions are left
    truncated, \* context_truncated
    pair,      \* the model and the provider whose turn it is
    window,    \* its context window
    sees,      \* its supports_image_attachments
    attempt,
    failures,  \* what the final error will list: pairs, with the reason
    reply,    \* "stream", "none", "ok", "too long" or "failed"
    tried      \* ghost: every attempt of the loop, with what was sent and what came

callVars == <<request, images, sent, truncated, pair, window, sees, attempt,
              failures, reply, tried>>

Pairs == (1 .. Models) \X (1 .. Providers)
Ends == {"ok", "transient", "permanent", "context"}

CallTypeOK ==
    /\ request \in Requests /\ images \in BOOLEAN /\ truncated \in BOOLEAN
    /\ sees \in BOOLEAN /\ window \in Windows
    /\ sent \subseteq DOMAIN request
    /\ pair \in Pairs /\ attempt \in 0 .. MaxRetries
    /\ failures \in Seq(Pairs \X (Ends \cup {"no images"}))
    /\ reply \in {"stream", "none", "ok", "too long", "failed"}

CallInit ==
    /\ request \in Requests /\ images \in BOOLEAN
    /\ sent = DOMAIN request
    /\ truncated = FALSE
    /\ pair = <<1, 1>> /\ window \in Windows /\ sees \in BOOLEAN /\ attempt = 0
    /\ failures = <<>> /\ reply = "stream" /\ tried = <<>>

-----------------------------------------------------------------------------
(* truncate_for_context. *)

Talk(s) == {i \in s : request[i] # "system"}

(* How many members of a set of positions are not behind i. *)
Rank(s, i) == Cardinality({j \in s : j <= i})

(* Mutant: the newer half is dropped. *)
NewerDropped(s) ==
    LET kept == Cardinality(Talk(s)) - Cardinality(Talk(s)) \div 2
    IN {i \in s : request[i] = "system" \/ Rank(Talk(s), i) <= kept}

(* The older half of what is not a system message is dropped: nothing of a *)
(* request with images or with one message.                                *)
Truncated(s) ==
    IF images \/ Cardinality(Talk(s)) <= 1 THEN s
    ELSE {i \in s : request[i] = "system" \/ Rank(Talk(s), i) > Cardinality(Talk(s)) \div 2}

-----------------------------------------------------------------------------
(* The stream of stream_chat, from the first provider that can, with the   *)
(* first model and no second attempt.  When there is none, or it fails     *)
(* before any output, the loop is next.                                    *)
Stream ==
    /\ reply = "stream"
    /\ reply' \in {"none", "ok"}
    /\ UNCHANGED <<request, images, sent, truncated, pair, window, sees, attempt, failures, tried>>

-----------------------------------------------------------------------------
(* The loop of chat. *)

(* The pair after this one, the next attempt at it, or the end. *)
LastPair == pair = <<Models, Providers>>

ArriveAt(p) == pair' = p /\ window' \in Windows /\ sees' \in BOOLEAN

NextPair ==
    /\ attempt' = 0
    /\ IF LastPair THEN reply' = "failed" /\ UNCHANGED <<pair, window, sees>>
       ELSE /\ ArriveAt(IF pair[2] < Providers THEN <<pair[1], pair[2] + 1>>
                        ELSE <<pair[1] + 1, 1>>)
            /\ UNCHANGED reply

NextAttempt ==
    IF attempt < MaxRetries THEN attempt' = attempt + 1 /\ UNCHANGED <<pair, window, sees, reply>>
    ELSE NextPair

CannotSee == images /\ ~sees

(* Mutant: the first provider that cannot ends the search for its model. *)
SkipModel ==
    /\ reply = "none" /\ CannotSee
    /\ failures' = Append(failures, <<pair, "no images">>)
    /\ attempt' = 0
    /\ IF pair[1] = Models THEN reply' = "failed" /\ UNCHANGED <<pair, window, sees>>
       ELSE ArriveAt(<<pair[1] + 1, 1>>) /\ UNCHANGED reply
    /\ UNCHANGED <<request, images, sent, truncated, tried>>

Skip ==
    /\ reply = "none" /\ CannotSee
    /\ failures' = Append(failures, <<pair, "no images">>)
    /\ NextPair
    /\ UNCHANGED <<request, images, sent, truncated, tried>>

Called(end) ==
    /\ reply = "none" /\ ~CannotSee
    /\ tried' = Append(tried, [pair |-> pair, sent |-> sent, end |-> end])
    /\ UNCHANGED <<request, images>>

Fits == Cardinality(sent) <= window

Answered ==
    /\ Fits /\ Called("ok")
    /\ reply' = "ok"
    /\ UNCHANGED <<sent, truncated, pair, window, sees, attempt, failures>>

(* The first refusal of the call that can be helped: an attempt is used    *)
(* up, and nothing is written down.                                        *)
TooLongTruncate ==
    /\ ~Fits /\ ~truncated /\ Truncated(sent) # sent
    /\ Called("context")
    /\ sent' = Truncated(sent) /\ truncated' = TRUE
    /\ NextAttempt
    /\ UNCHANGED failures

(* The first refusal when nothing can be dropped ends the call. *)
TooLongGiveUp ==
    /\ ~Fits /\ ~truncated /\ Truncated(sent) = sent
    /\ Called("context")
    /\ failures' = Append(failures, <<pair, "context">>)
    /\ reply' = "too long"
    /\ UNCHANGED <<sent, truncated, pair, window, sees, attempt>>

(* Any other failure is written down; only a permanent one ends the        *)
(* attempts at the pair.                                                   *)
Fails(kind) ==
    /\ Called(kind)
    /\ failures' = Append(failures, <<pair, kind>>)
    /\ IF kind = "permanent" THEN NextPair ELSE NextAttempt
    /\ UNCHANGED <<sent, truncated>>

StillTooLong == ~Fits /\ truncated /\ Fails("context")

CallNext ==
    \/ Stream \/ Skip \/ Answered \/ TooLongTruncate \/ TooLongGiveUp \/ StillTooLong
    \/ Fails("transient") \/ Fails("permanent")

CallSpec == CallInit /\ [][CallNext]_callVars

-----------------------------------------------------------------------------
AttemptsAt(p) == {n \in DOMAIN tried : tried[n].pair = p}

Blind == {<<p, "no images">> : p \in Pairs}

(* What the error says of attempts, and those it should say it of: all     *)
(* that failed but the refusal after which messages were dropped.          *)
Told == {n \in DOMAIN failures : failures[n] \notin Blind}
Refused == {n \in DOMAIN tried : tried[n].end = "context"}
Trail ==
    {n \in DOMAIN tried : tried[n].end # "ok"} \
        (IF truncated THEN {n \in Refused : \A m \in Refused : n <= m} ELSE {})

(* Nobody is given up early: when a call fails for want of anyone left,    *)
(* every pair was asked until it failed for good or MaxRetries + 1 times,  *)
(* but for those the error names as unable to take the images.  The error  *)
(* lists the failed attempts in their order.                               *)
EveryoneAsked ==
    /\ reply = "failed" =>
        \A p \in Pairs :
            LET a == AttemptsAt(p)
            IN \/ Cardinality(a) = MaxRetries + 1
               \/ a # {} /\ tried[Max(a)].end = "permanent"
               \/ \E n \in DOMAIN failures : failures[n] = <<p, "no images">>
    /\ Cardinality(Told) = Cardinality(Trail)
    /\ \A n \in Told, m \in Trail : Rank(Told, n) = Rank(Trail, m) =>
          failures[n] = <<tried[m].pair, tried[m].end>>

(* What is sent is the system messages and an end of the conversation, at  *)
(* least half of it; with images, all of it.                               *)
EndIsSent ==
    \A n \in DOMAIN tried :
        LET s == tried[n].sent
        IN /\ \A i \in DOMAIN request : request[i] = "system" => i \in s
           /\ \A i \in Talk(s) : i .. Len(request) \subseteq s
           /\ 2 * Cardinality(Talk(s)) >= Cardinality(Talk(DOMAIN request))
           /\ images => s = DOMAIN request
=============================================================================
