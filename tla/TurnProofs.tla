----------------------------- MODULE TurnProofs -----------------------------
(***************************************************************************)
(* A turn for every capacity of its channel, every number of iterations    *)
(* and of chunks: what it stores only grows, and is complete and marked    *)
(* rightly when the turn is over.  The heart of the invariant counts the   *)
(* chunks: those the agent produced are in the accumulated text, in the    *)
(* channel, or in the hands of a send that waits for room (Accounted).     *)
(***************************************************************************)
EXTENDS Turn, FiniteSetTheorems, SequenceTheorems, TLAPS

Chunks(s) == {i \in 1 .. Len(s) : s[i] = "chunk"}

NChunks(s) == Cardinality(Chunks(s))

(* TypeOK but that what is accumulated was produced. *)
Shape ==
    /\ agent \in AgentPCs
    /\ iter \in 0 .. MaxIter
    /\ got \in BOOLEAN /\ called \in BOOLEAN
    /\ streamed \in Nat /\ produced \in Nat
    /\ result \in {"none", "ok", "cancelled", "error"}
    /\ channel \in Seq(EventKinds) /\ Len(channel) <= ChannelCap
    /\ cancelled \in BOOLEAN
    /\ handler \in HandlerPCs
    /\ forwarding \in BOOLEAN /\ savedPartial \in BOOLEAN /\ registered \in BOOLEAN
    /\ accumulated \in Nat
    /\ inbox \in Seq({"abort", "close"})
    /\ outcome \in {"none", "done", "aborted", "error"}
    /\ rows \in Seq(Row)
    /\ dbState \in {"idle", "running", "error"}

Unsent == IF agent \in {"sendChunk", "sendLast"} THEN 1 ELSE 0

Accounted == accumulated + NChunks(channel) + Unsent = produced

(* The agent has a result when it ends, and the text of an iteration is    *)
(* part of the turn's.                                                     *)
Ends == (result # "none" <=> agent = "ended") /\ streamed <= produced

(* The forwarder returns when the agent has ended and all is relayed, or   *)
(* when the client closes.                                                 *)
Gone == ~forwarding => Closing \/ (agent = "ended" /\ channel = <<>>)

Joined ==
    /\ handler \in {"unregistered", "persisted", "over"} =>
          agent = "ended" /\ ~forwarding /\ ~registered
    /\ handler = "over" => dbState # "running"

(* Until the final save there is a row if a partial text was saved, with a *)
(* part of what is accumulated ...                                         *)
Saved ==
    handler \in {"turn", "unregistered"} =>
        /\ Len(rows) = IF savedPartial THEN 1 ELSE 0
        /\ \A i \in 1 .. Len(rows) : ~rows[i].marked /\ rows[i].text <= accumulated

(* ... and after it the row is as Settled says. *)
Left ==
    handler \in {"persisted", "over"} =>
        /\ Len(rows) <= 1
        /\ result # "error" => Len(rows) = 1
        /\ \A i \in 1 .. Len(rows) : rows[i].marked <=> result = "cancelled"
        /\ ~Closing /\ result # "error" =>
              accumulated = produced /\ rows[1].text = produced

IInv == Shape /\ Accounted /\ Ends /\ Gone /\ Joined /\ Saved /\ Left

-----------------------------------------------------------------------------
USE TurnAssumption

(* The chunks of a channel can be counted ... *)
LEMMA ChunksFinite ==
    ASSUME NEW s \in Seq(EventKinds)
    PROVE  IsFiniteSet(Chunks(s)) /\ NChunks(s) \in Nat
<1>1. IsFiniteSet(1 .. Len(s))
  BY LenProperties, FS_Interval
<1>2. Chunks(s) \in SUBSET (1 .. Len(s))
  BY DEF Chunks
<1> QED
  BY <1>1, <1>2, FS_Subset, FS_CardinalityType DEF NChunks

(* ... there are none in an empty one ... *)
LEMMA ChunksEmpty == NChunks(<<>>) = 0
BY FS_EmptySet DEF NChunks, Chunks

(* ... a chunk that is sent is one more ... *)
LEMMA ChunksAppend ==
    ASSUME NEW s \in Seq(EventKinds), NEW e \in EventKinds
    PROVE  NChunks(Append(s, e)) = NChunks(s) + IF e = "chunk" THEN 1 ELSE 0
<1> DEFINE t == Append(s, e)
<1>1. /\ Len(t) = Len(s) + 1 /\ t[Len(s) + 1] = e
      /\ \A i \in 1 .. Len(s) : t[i] = s[i]
  BY AppendProperties
<1>2. Len(s) \in Nat
  BY LenProperties
<1> HIDE DEF t
<1>3. CASE e = "chunk"
  <2>1. Chunks(t) = Chunks(s) \cup {Len(s) + 1} /\ Len(s) + 1 \notin Chunks(s)
    BY <1>1, <1>2, <1>3 DEF Chunks
  <2> QED
    BY <1>3, <2>1, ChunksFinite, FS_AddElement DEF NChunks, t
<1>4. CASE e # "chunk"
  <2>1. Chunks(t) = Chunks(s)
    BY <1>1, <1>2, <1>4 DEF Chunks
  <2>2. NChunks(s) \in Nat
    BY ChunksFinite
  <2> QED
    BY <1>4, <2>1, <2>2 DEF NChunks, t
<1> QED
  BY <1>3, <1>4

(* ... and one that is received is one less. *)
LEMMA ChunksTail ==
    ASSUME NEW s \in Seq(EventKinds), s # <<>>
    PROVE  /\ Tail(s) \in Seq(EventKinds) /\ Len(Tail(s)) = Len(s) - 1
           /\ NChunks(s) = NChunks(Tail(s)) + IF Head(s) = "chunk" THEN 1 ELSE 0
<1> DEFINE t == Tail(s)
           A == Chunks(t)
           B == Chunks(s) \ {1}
           f == [i \in A |-> i + 1]
<1>1. /\ t \in Seq(EventKinds) /\ Len(t) = Len(s) - 1
      /\ \A i \in 1 .. Len(t) : t[i] = s[i + 1]
  BY HeadTailProperties
<1>2. Len(s) \in Nat /\ Len(s) >= 1 /\ Head(s) = s[1]
  BY LenProperties, EmptySeq
<1> HIDE DEF t
<1>3. IsFiniteSet(A) /\ IsFiniteSet(Chunks(s)) /\ Cardinality(A) \in Nat /\ Cardinality(Chunks(s)) \in Nat
  BY <1>1, ChunksFinite DEF NChunks
<1>4. f \in Bijection(A, B)
  <2>1. \A i \in A : i \in Int /\ i + 1 \in B
    BY <1>1, <1>2 DEF Chunks
  <2>2. \A i, j \in A : i + 1 = j + 1 => i = j
    BY <2>1
  <2>3. \A k \in B : k - 1 \in A /\ (k - 1) + 1 = k
    BY <1>1, <1>2 DEF Chunks
  <2> QED
    BY <2>1, <2>2, <2>3 DEF Bijection, Injection, Surjection, IsInjective
<1>5. Cardinality(B) = Cardinality(A)
  BY <1>3, <1>4, FS_Bijection DEF ExistsBijection
<1>6. Cardinality(B) = IF 1 \in Chunks(s) THEN Cardinality(Chunks(s)) - 1 ELSE Cardinality(Chunks(s))
  BY <1>3, FS_RemoveElement
<1>7. 1 \in Chunks(s) <=> Head(s) = "chunk"
  BY <1>2 DEF Chunks
<1> HIDE DEF A, B
<1>8. NChunks(s) = NChunks(t) + IF Head(s) = "chunk" THEN 1 ELSE 0
  BY <1>3, <1>5, <1>6, <1>7 DEF NChunks, A
<1> QED
  BY <1>1, <1>8 DEF t

(* The text of every row is a number of chunks. *)
LEMMA TextsCount ==
    ASSUME rows \in Seq(Row) PROVE \A i \in 1 .. Len(rows) : rows[i].text \in Nat
<1> SUFFICES ASSUME NEW i \in 1 .. Len(rows) PROVE rows[i].text \in Nat
  OBVIOUS
<1>1. rows[i] \in Row
  BY ElementOfSeq
<1> QED
  BY <1>1 DEF Row

(* A save leaves one row, the one that was saved. *)
LEMMA SaveRowGives ==
    ASSUME rows \in Seq(Row), savedPartial \in BOOLEAN,
           Len(rows) = IF savedPartial THEN 1 ELSE 0, NEW row \in Row, SaveRow(row)
    PROVE  rows' \in Seq(Row) /\ Len(rows') = 1 /\ rows'[1] = row
<1>1. CASE savedPartial
  <2>1. 1 \in 1 .. Len(rows) /\ Len(rows) = 1
    BY <1>1
  <2>2. rows' = [rows EXCEPT ![1] = row]
    BY <1>1, <2>1 DEF SaveRow
  <2> QED
    BY <2>1, <2>2, ExceptSeq
<1>2. CASE ~savedPartial
  <2>1. rows' = Append(rows, row) /\ Len(rows) = 0
    BY <1>2 DEF SaveRow
  <2>2. Append(rows, row) \in Seq(Row) /\ Len(Append(rows, row)) = Len(rows) + 1
        /\ Append(rows, row)[Len(rows) + 1] = row
    BY AppendProperties
  <2> QED
    BY <2>1, <2>2
<1> QED
  BY <1>1, <1>2

-----------------------------------------------------------------------------
(* The turn begins with nothing produced, sent or stored. *)
LEMMA InvInit == Init => IInv
<1> SUFFICES ASSUME Init PROVE IInv
  OBVIOUS
<1>1. Shape
  <2>1. <<>> \in Seq(EventKinds) /\ <<>> \in Seq({"abort", "close"}) /\ <<>> \in Seq(Row)
    BY EmptySeq
  <2>2. 0 <= ChannelCap /\ 0 \in 0 .. MaxIter /\ Len(<<>>) = 0
    BY EmptySeq
  <2> QED
    BY <2>1, <2>2 DEF Init, Shape, AgentPCs, HandlerPCs
<1>2. Accounted
  BY ChunksEmpty DEF Init, Accounted, Unsent
<1>3. Ends /\ Gone /\ Joined /\ Saved /\ Left
  BY DEF Init, Ends, Gone, Joined, Saved, Left
<1> QED
  BY <1>1, <1>2, <1>3 DEF IInv

(* A send puts its event at the end of the channel. *)
LEMMA SendGives ==
    ASSUME Shape, NEW k \in EventKinds, channel' = Append(channel, k), Len(channel) < ChannelCap
    PROVE  /\ channel' \in Seq(EventKinds) /\ Len(channel') <= ChannelCap
           /\ NChunks(channel') = NChunks(channel) + IF k = "chunk" THEN 1 ELSE 0
<1>1. channel \in Seq(EventKinds) /\ Len(channel) \in Nat
  BY LenProperties DEF Shape
<1>2. channel' \in Seq(EventKinds) /\ Len(channel') = Len(channel) + 1
  BY <1>1, AppendProperties
<1> QED
  BY <1>1, <1>2, ChunksAppend

(* A turn that has a result is reported with the frame that belongs to it. *)
LEMMA ReportGives == Shape /\ Ends /\ Joined /\ Report => outcome' \in {"done", "aborted", "error"}
<1> SUFFICES ASSUME Shape, Ends, Joined, Report PROVE outcome' \in {"done", "aborted", "error"}
  OBVIOUS
<1>1. result \in {"ok", "cancelled", "error"}
  BY DEF Shape, Ends, Joined, Report
<1>2. CASE result = "ok"
  BY <1>2 DEF Report
<1>3. CASE result = "cancelled"
  BY <1>3 DEF Report
<1>4. CASE result = "error"
  BY <1>4 DEF Report
<1> QED
  BY <1>1, <1>2, <1>3, <1>4

(* A step keeps the variables in their types. *)
LEMMA ShapeStep == Shape /\ Ends /\ Joined /\ Saved /\ [Next]_vars => Shape'
<1> SUFFICES ASSUME Shape, Ends, Joined, Saved, [Next]_vars PROVE Shape'
  OBVIOUS
<1> USE DEF agentVars, handlerVars, disk, AgentPCs, HandlerPCs
<1>1. CASE BeginIteration \/ StreamText \/ StreamCall \/ StreamEnds \/ StreamCut \/ Decide
           \/ FallbackReply \/ ToolsDone
  <2>1. UNCHANGED <<channel, cancelled, handlerVars, inbox, disk>>
    BY <1>1 DEF BeginIteration, StreamText, StreamCall, StreamEnds, StreamCut, Decide,
       FallbackReply, ToolsDone, InTurn
  <2>2. agent' \in AgentPCs /\ result' \in {"none", "ok", "cancelled", "error"}
    BY <1>1 DEF Shape, BeginIteration, StreamText, StreamCall, StreamEnds, StreamCut, Decide,
       FallbackReply, ToolsDone, EndAgent
  <2>3. got' \in BOOLEAN /\ called' \in BOOLEAN
    BY <1>1 DEF Shape, BeginIteration, StreamText, StreamCall, StreamEnds, StreamCut, Decide,
       FallbackReply, ToolsDone
  <2>4. iter' \in 0 .. MaxIter
    <3>1. iter' = iter \/ (iter < MaxIter /\ iter' = iter + 1)
      BY <1>1 DEF BeginIteration, StreamText, StreamCall, StreamEnds, StreamCut, Decide,
         FallbackReply, ToolsDone
    <3> QED
      BY <3>1 DEF Shape
  <2>5. streamed' \in Nat /\ produced' \in Nat
    BY <1>1 DEF Shape, BeginIteration, StreamText, StreamCall, StreamEnds, StreamCut, Decide,
       FallbackReply, ToolsDone
  <2> QED
    BY <2>1, <2>2, <2>3, <2>4, <2>5 DEF Shape
<1>2. CASE SendEvent
  <2>1. PICK k \in EventKinds : channel' = Append(channel, k) /\ Len(channel) < ChannelCap
    BY <1>2 DEF SendEvent, Send, EventKinds
  <2>2. channel' \in Seq(EventKinds) /\ Len(channel') <= ChannelCap
    BY <2>1, SendGives
  <2>3. agent' \in AgentPCs /\ result' \in {result, "ok"}
    BY <1>2 DEF SendEvent, Send
  <2>4. UNCHANGED <<iter, got, called, streamed, produced, cancelled, handlerVars, inbox, disk>>
    BY <1>2 DEF SendEvent, Send, InTurn
  <2> QED
    BY <2>2, <2>3, <2>4 DEF Shape
<1>3. CASE Forward
  <2>1. channel \in Seq(EventKinds) /\ channel # <<>>
    BY <1>3 DEF Forward, Shape
  <2>2. channel' \in Seq(EventKinds) /\ Len(channel') <= ChannelCap
    <3>1. channel' \in Seq(EventKinds) /\ Len(channel') = Len(channel) - 1 /\ Len(channel) \in Nat
      BY <1>3, <2>1, ChunksTail, LenProperties DEF Forward
    <3> QED
      BY <3>1 DEF Shape
  <2>3. accumulated' \in {accumulated, accumulated + 1} /\ savedPartial' \in BOOLEAN
    BY <1>3 DEF Forward, Shape
  <2>4. rows' \in Seq(Row)
    <3>1. CASE rows' = rows
      BY <3>1 DEF Shape
    <3>2. CASE SaveRow([text |-> accumulated + 1, marked |-> FALSE])
      <4>1. [text |-> accumulated + 1, marked |-> FALSE] \in Row
        BY DEF Shape, Row
      <4>2. Len(rows) = IF savedPartial THEN 1 ELSE 0
        BY <1>3 DEF Forward, Saved
      <4> QED
        BY <3>2, <4>1, <4>2, SaveRowGives DEF Shape
    <3> QED
      BY <1>3, <3>1, <3>2 DEF Forward
  <2>5. UNCHANGED <<agentVars, handler, registered, outcome, dbState, cancelled, inbox, forwarding>>
    BY <1>3 DEF Forward, OtherThanForwarder
  <2> QED
    BY <2>2, <2>3, <2>4, <2>5 DEF Shape
<1>4. CASE Persist
  <2>1. Len(rows) = IF savedPartial THEN 1 ELSE 0
    BY <1>4 DEF Persist, Saved
  <2>2. [text |-> FinalText, marked |-> FALSE] \in Row /\ [text |-> accumulated, marked |-> TRUE] \in Row
    BY DEF Shape, Row, FinalText
  <2>3. rows' \in Seq(Row)
    BY <1>4, <2>1, <2>2, SaveRowGives DEF Persist, Shape
  <2> QED
    BY <1>4, <2>3 DEF Persist, Shape
<1>5. CASE ReadAbort
  <2>1. inbox' \in Seq({"abort", "close"})
    BY <1>5, HeadTailProperties DEF ReadAbort, Shape
  <2> QED
    BY <1>5, <2>1 DEF ReadAbort, OtherThanForwarder, Shape
<1>6. CASE ForwardDone \/ ReadClose \/ Unregister \/ Crash \/ AbortEndpoint \/ UNCHANGED vars
  <2>1. UNCHANGED <<agentVars, channel, accumulated, savedPartial, outcome, inbox, disk>>
    BY <1>6 DEF ForwardDone, ReadClose, Unregister, Crash, AbortEndpoint, vars,
       OtherThanForwarder
  <2>2. cancelled' \in BOOLEAN /\ forwarding' \in BOOLEAN /\ registered' \in BOOLEAN
    BY <1>6 DEF ForwardDone, ReadClose, Unregister, Crash, AbortEndpoint, vars, Shape,
       OtherThanForwarder
  <2>3. handler' \in HandlerPCs
    BY <1>6 DEF ForwardDone, ReadClose, Unregister, Crash, AbortEndpoint, vars, Shape,
       OtherThanForwarder
  <2> QED
    BY <2>1, <2>2, <2>3 DEF Shape
<1>7. CASE Report
  <2>1. outcome' \in {"none", "done", "aborted", "error"}
    BY <1>7, ReportGives
  <2>2. dbState' \in {"idle", "running", "error"} /\ handler' = "over"
    BY <1>7 DEF Report, StateAfter
  <2>3. UNCHANGED <<agentVars, channel, cancelled, forwarding, accumulated, savedPartial,
                    registered, inbox, rows>>
    BY <1>7 DEF Report
  <2> QED
    BY <2>1, <2>2, <2>3 DEF Shape
<1>8. CASE ClientSends("abort") \/ ClientSends("close")
  <2>1. inbox' \in Seq({"abort", "close"})
    <3>1. PICK m \in {"abort", "close"} : inbox' = Append(inbox, m)
      BY <1>8 DEF ClientSends
    <3> QED
      BY <3>1, AppendProperties DEF Shape
  <2> QED
    BY <1>8, <2>1 DEF ClientSends, Shape
<1> QED
  BY <1>1, <1>2, <1>3, <1>4, <1>5, <1>6, <1>7, <1>8 DEF Next, AgentStep, HandlerStep

(* No chunk is lost or counted twice on its way. *)
LEMMA AccountedStep == Shape /\ Accounted /\ [Next]_vars => Accounted'
<1> SUFFICES ASSUME Shape, Accounted, [Next]_vars PROVE Accounted'
  OBVIOUS
<1> USE DEF agentVars, handlerVars, disk
<1>0. NChunks(channel) \in Nat
  BY ChunksFinite DEF Shape
<1>1. CASE BeginIteration \/ StreamText \/ StreamCall \/ StreamEnds \/ StreamCut \/ Decide
           \/ FallbackReply \/ ToolsDone
  <2>1. channel' = channel /\ accumulated' = accumulated
    BY <1>1 DEF BeginIteration, StreamText, StreamCall, StreamEnds, StreamCut, Decide,
       FallbackReply, ToolsDone, InTurn
  <2>2. Unsent = 0 /\ produced' = produced + Unsent'
    BY <1>1 DEF Shape, BeginIteration, StreamText, StreamCall, StreamEnds, StreamCut, Decide,
       FallbackReply, ToolsDone, EndAgent, Unsent
  <2>3. Unsent' \in Nat
    BY DEF Unsent
  <2> QED
    BY <1>0, <2>1, <2>2, <2>3 DEF Accounted, Shape
<1>2. CASE SendEvent
  <2>1. PICK k \in EventKinds :
          /\ channel' = Append(channel, k) /\ Len(channel) < ChannelCap
          /\ Unsent = (IF k = "chunk" THEN 1 ELSE 0) /\ Unsent' = 0
    BY <1>2 DEF SendEvent, Send, EventKinds, Unsent
  <2>2. NChunks(channel') = NChunks(channel) + Unsent
    BY <2>1, SendGives
  <2>3. produced' = produced /\ accumulated' = accumulated /\ Unsent \in Nat
    BY <1>2 DEF SendEvent, Send, InTurn, Unsent
  <2> QED
    BY <1>0, <2>1, <2>2, <2>3 DEF Accounted, Shape
<1>3. CASE Forward
  <2>1. channel \in Seq(EventKinds) /\ channel # <<>> /\ channel' = Tail(channel)
    BY <1>3 DEF Forward, Shape
  <2>2. /\ NChunks(channel) = NChunks(channel') + IF Head(channel) = "chunk" THEN 1 ELSE 0
        /\ NChunks(channel') \in Nat
    BY <2>1, ChunksTail, ChunksFinite
  <2>3. accumulated' = accumulated + IF Head(channel) = "chunk" THEN 1 ELSE 0
    BY <1>3 DEF Forward, Shape
  <2>4. Unsent' = Unsent /\ produced' = produced /\ Unsent \in Nat
    BY <1>3 DEF Forward, OtherThanForwarder, Unsent
  <2> QED
    BY <1>0, <2>2, <2>3, <2>4 DEF Accounted, Shape
<1>4. CASE ForwardDone \/ ReadAbort \/ ReadClose \/ Unregister \/ Persist \/ Report \/ Crash
           \/ AbortEndpoint \/ ClientSends("abort") \/ ClientSends("close") \/ UNCHANGED vars
  <2>1. UNCHANGED <<agent, produced, accumulated, channel>>
    BY <1>4 DEF ForwardDone, ReadAbort, ReadClose, Unregister, Persist, Report, Crash,
       AbortEndpoint, ClientSends, OtherThanForwarder, vars
  <2> QED
    BY <2>1 DEF Accounted, Unsent
<1> QED
  BY <1>1, <1>2, <1>3, <1>4 DEF Next, AgentStep, HandlerStep

(* The agent has a result exactly from its end on. *)
LEMMA EndsStep == Shape /\ Ends /\ [Next]_vars => Ends'
<1> SUFFICES ASSUME Shape, Ends, [Next]_vars PROVE Ends'
  OBVIOUS
<1> USE DEF agentVars, Ends
<1>1. CASE AgentStep
  BY <1>1 DEF Shape, AgentStep, BeginIteration, StreamText, StreamCall, StreamEnds, StreamCut,
     Decide, FallbackReply, SendEvent, Send, ToolsDone, EndAgent
<1>2. CASE ~AgentStep
  <2>1. UNCHANGED agentVars
    BY <1>2 DEF Next, HandlerStep, Forward, ForwardDone, ReadAbort, ReadClose, Unregister, Persist,
       Report, Crash, AbortEndpoint, ClientSends, OtherThanForwarder, vars
  <2> QED
    BY <2>1
<1> QED
  BY <1>1, <1>2

(* The agent does nothing after its end or outside the join. *)
LEMMA AgentQuiet == AgentStep => agent # "ended" /\ handler = "turn" /\
                        UNCHANGED <<cancelled, handlerVars, inbox, disk>>
BY DEF AgentStep, BeginIteration, StreamText, StreamCall, StreamEnds, StreamCut, Decide,
   FallbackReply, SendEvent, Send, ToolsDone, InTurn

(* The forwarder returns in two ways, and does not come back. *)
LEMMA GoneStep == Shape /\ Gone /\ [Next]_vars => Gone'
<1> SUFFICES ASSUME Shape, Gone, [Next]_vars PROVE Gone'
  OBVIOUS
<1> USE DEF handlerVars, agentVars, disk
<1>1. CASE AgentStep
  <2>1. agent # "ended" /\ forwarding' = forwarding /\ inbox' = inbox
    BY <1>1, AgentQuiet
  <2> QED
    BY <2>1 DEF Gone, Closing
<1>2. CASE ForwardDone
  BY <1>2 DEF ForwardDone, OtherThanForwarder, Gone
<1>3. CASE ReadClose
  <2>1. inbox \in Seq({"abort", "close"}) /\ inbox # <<>> /\ inbox[1] = "close" /\ inbox' = inbox
    BY <1>3 DEF ReadClose, Shape
  <2>2. 1 \in DOMAIN inbox
    BY <2>1, EmptySeq, LenProperties
  <2> QED
    BY <2>1, <2>2 DEF Gone, Closing
<1>4. CASE Forward \/ ReadAbort \/ ClientSends("abort") \/ ClientSends("close")
  <2>1. forwarding'
    BY <1>4 DEF Forward, ReadAbort, ClientSends
  <2> QED
    BY <2>1 DEF Gone
<1>5. CASE Unregister \/ Persist \/ Report \/ Crash \/ AbortEndpoint \/ UNCHANGED vars
  <2>1. UNCHANGED <<forwarding, inbox, agent, channel>>
    BY <1>5 DEF Unregister, Persist, Report, Crash, AbortEndpoint, vars
  <2> QED
    BY <2>1 DEF Gone, Closing
<1> QED
  BY <1>1, <1>2, <1>3, <1>4, <1>5 DEF Next, HandlerStep

(* After the join nothing goes on, and nothing is left to abort. *)
LEMMA JoinedStep == Shape /\ Joined /\ [Next]_vars => Joined'
<1> SUFFICES ASSUME Shape, Joined, [Next]_vars PROVE Joined'
  OBVIOUS
<1> USE DEF handlerVars, agentVars, disk, Joined
<1>1. CASE AgentStep
  BY <1>1, AgentQuiet
<1>2. CASE Forward \/ ForwardDone \/ ReadAbort \/ ReadClose
  BY <1>2 DEF Forward, ForwardDone, ReadAbort, ReadClose, OtherThanForwarder
<1>3. CASE Unregister \/ Persist
  BY <1>3 DEF Unregister, Persist
<1>4. CASE Report
  BY <1>4 DEF Report, StateAfter
<1>5. CASE Crash \/ AbortEndpoint \/ ClientSends("abort") \/ ClientSends("close") \/ UNCHANGED vars
  BY <1>5 DEF Crash, AbortEndpoint, ClientSends, vars
<1> QED
  BY <1>1, <1>2, <1>3, <1>4, <1>5 DEF Next, HandlerStep

(* Partial texts are saved in one row. *)
LEMMA SavedStep == Shape /\ Saved /\ [Next]_vars => Saved'
<1> SUFFICES ASSUME Shape, Saved, [Next]_vars, handler' \in {"turn", "unregistered"}
             PROVE  /\ Len(rows') = IF savedPartial' THEN 1 ELSE 0
                    /\ \A i \in 1 .. Len(rows') : ~rows'[i].marked /\ rows'[i].text <= accumulated'
  BY DEF Saved
<1> USE DEF handlerVars, agentVars, disk
<1>1. CASE UNCHANGED <<rows, savedPartial, accumulated>> /\ handler \in {"turn", "unregistered"}
  BY <1>1 DEF Saved
<1>2. CASE Forward
  <2>1. /\ Len(rows) = IF savedPartial THEN 1 ELSE 0
        /\ \A i \in 1 .. Len(rows) : ~rows[i].marked /\ rows[i].text <= accumulated
    BY <1>2 DEF Forward, Saved
  <2>2. CASE UNCHANGED <<rows, savedPartial>>
    <3>1. accumulated' \in {accumulated, accumulated + 1}
      BY <1>2 DEF Forward
    <3>2. \A i \in 1 .. Len(rows) : rows[i].text \in Nat
      BY TextsCount DEF Shape
    <3> QED
      BY <2>1, <2>2, <3>1, <3>2 DEF Shape
  <2>3. CASE /\ SaveRow([text |-> accumulated + 1, marked |-> FALSE])
             /\ savedPartial' = TRUE /\ accumulated' = accumulated + 1
    <3>1. [text |-> accumulated + 1, marked |-> FALSE] \in Row
      BY DEF Shape, Row
    <3>2. Len(rows') = 1 /\ rows'[1] = [text |-> accumulated + 1, marked |-> FALSE]
      BY <2>1, <2>3, <3>1, SaveRowGives DEF Shape
    <3> QED
      BY <2>3, <3>2 DEF Shape
  <2> QED
    BY <1>2, <2>2, <2>3 DEF Forward
<1>3. CASE AgentStep
  BY <1>1, <1>3, AgentQuiet
<1>4. CASE ForwardDone \/ ReadAbort \/ ReadClose \/ Unregister \/ AbortEndpoint
           \/ ClientSends("abort") \/ ClientSends("close") \/ UNCHANGED vars
  BY <1>1, <1>4 DEF ForwardDone, ReadAbort, ReadClose, Unregister, AbortEndpoint, ClientSends,
     OtherThanForwarder, vars
<1>5. ~Persist /\ ~Report /\ ~Crash
  BY DEF Persist, Report, Crash
<1> QED
  BY <1>2, <1>3, <1>4, <1>5 DEF Next, HandlerStep

(* The final save finds everything drained, unless the client closed. *)
LEMMA LeftStep == IInv /\ [Next]_vars => Left'
<1> SUFFICES ASSUME IInv, [Next]_vars, handler' \in {"persisted", "over"}
             PROVE  Left'
  BY DEF Left
<1> USE DEF handlerVars, agentVars, disk
<1>1. CASE Persist
  <2>1. /\ Shape /\ agent = "ended" /\ ~forwarding /\ result # "none"
        /\ Len(rows) = IF savedPartial THEN 1 ELSE 0
        /\ \A i \in 1 .. Len(rows) : ~rows[i].marked
        /\ streamed <= produced
    BY <1>1 DEF Persist, IInv, Joined, Saved, Ends
  <2>2. ~Closing => accumulated = produced
    <3>1. ASSUME ~Closing PROVE channel = <<>>
      BY <2>1, <3>1 DEF IInv, Gone
    <3>2. ASSUME channel = <<>> PROVE accumulated + 0 + 0 = produced
      BY <2>1, <3>2, ChunksEmpty DEF IInv, Accounted, Unsent
    <3> QED
      BY <2>1, <3>1, <3>2 DEF Shape
  <2>3. /\ UNCHANGED <<result, inbox, accumulated, produced, streamed>> /\ result' = result
        /\ Closing' = Closing
    BY <1>1 DEF Persist, Closing
  <2>4. CASE result = "ok" /\ SaveRow([text |-> FinalText, marked |-> FALSE])
    <3>1. [text |-> FinalText, marked |-> FALSE] \in Row
      BY <2>1 DEF Shape, Row, FinalText
    <3>2. Len(rows') = 1 /\ rows'[1] = [text |-> FinalText, marked |-> FALSE]
      BY <2>1, <2>4, <3>1, SaveRowGives DEF Shape
    <3>3. ~Closing => FinalText = produced
      BY <2>1, <2>2 DEF FinalText, Shape
    <3> QED
      BY <2>2, <2>3, <2>4, <3>2, <3>3 DEF Left
  <2>5. CASE result = "cancelled" /\ SaveRow([text |-> accumulated, marked |-> TRUE])
    <3>1. [text |-> accumulated, marked |-> TRUE] \in Row
      BY <2>1 DEF Shape, Row
    <3>2. Len(rows') = 1 /\ rows'[1] = [text |-> accumulated, marked |-> TRUE]
      BY <2>1, <2>5, <3>1, SaveRowGives DEF Shape
    <3> QED
      BY <2>2, <2>3, <2>5, <3>2 DEF Left
  <2>6. CASE result = "error" /\ UNCHANGED rows
    <3>1. Len(rows) <= 1 /\ rows' = rows
      <4>1. CASE savedPartial
        BY <2>1, <2>6, <4>1
      <4>2. CASE ~savedPartial
        BY <2>1, <2>6, <4>2
      <4> QED
        BY <4>1, <4>2
    <3>2. \A i \in 1 .. Len(rows') : rows'[i].marked <=> result' = "cancelled"
      BY <2>1, <2>3, <2>6
    <3> QED
      BY <2>3, <2>6, <3>1, <3>2 DEF Left
  <2> QED
    BY <1>1, <2>4, <2>5, <2>6 DEF Persist
<1>2. CASE handler \in {"persisted", "over"} /\ UNCHANGED <<rows, result, inbox, accumulated, produced>>
  BY <1>2 DEF IInv, Left, Closing
<1>3. CASE Report \/ AbortEndpoint \/ UNCHANGED vars
  BY <1>2, <1>3 DEF Report, AbortEndpoint, vars
<1>4. ~AgentStep
  BY AgentQuiet
<1>5. ~Forward /\ ~ForwardDone /\ ~ReadAbort /\ ~ReadClose
  BY DEF Forward, ForwardDone, ReadAbort, ReadClose, OtherThanForwarder
<1>6. ~Unregister /\ ~Crash /\ ~ClientSends("abort") /\ ~ClientSends("close")
  BY DEF Unregister, Crash, ClientSends
<1> QED
  BY <1>1, <1>3, <1>4, <1>5, <1>6 DEF Next, HandlerStep

(* The invariant holds of every state, for any capacity and bounds. *)
THEOREM InvKept == Spec => []IInv
<1>1. IInv /\ [Next]_vars => IInv'
  BY ShapeStep, AccountedStep, EndsStep, GoneStep, JoinedStep, SavedStep, LeftStep DEF IInv
<1> QED
  BY <1>1, InvInit, PTL DEF Spec

-----------------------------------------------------------------------------
(* Every variable keeps its type; the channel is never fuller than its     *)
(* capacity, and no text is accumulated that was not produced.             *)
THEOREM TypeCorrect == Spec => []TypeOK
<1>1. IInv => TypeOK
  <2> SUFFICES ASSUME IInv PROVE TypeOK
    OBVIOUS
  <2>1. Shape /\ NChunks(channel) \in Nat /\ Unsent \in Nat
    BY ChunksFinite DEF IInv, Shape, Unsent
  <2>2. accumulated \in 0 .. produced
    BY <2>1 DEF IInv, Accounted, Shape
  <2> QED
    BY <2>1, <2>2 DEF Shape, TypeOK
<1> QED
  BY <1>1, InvKept, PTL

(* What a turn leaves behind is complete, marked rightly and can not be    *)
(* aborted any more, however aborts, closes and saves are interleaved.     *)
THEOREM TurnsSettle == Spec => []Settled
<1>1. IInv => Settled
  <2> SUFFICES ASSUME IInv, handler = "over" PROVE Settled
    BY DEF Settled
  <2>1. DOMAIN rows = 1 .. Len(rows)
    BY LenProperties DEF IInv, Shape
  <2> QED
    BY <2>1 DEF IInv, Left, Joined, Settled
<1> QED
  BY <1>1, InvKept, PTL

(* Neither a partial nor the final save takes text away that was stored:   *)
(* a crash at any point leaves a prefix of what was streamed.              *)
THEOREM SavesOnlyAdd == Spec => AnswerNeverShrinks
<1> DEFINE Grows == \A i \in DOMAIN rows : i \in DOMAIN rows' /\ rows'[i].text >= rows[i].text
<1>1. IInv /\ [Next]_vars => [Grows]_vars
  <2> SUFFICES ASSUME IInv, Next PROVE Grows
    OBVIOUS
  <2>0. /\ Shape /\ rows \in Seq(Row) /\ DOMAIN rows = 1 .. Len(rows)
        /\ \A i \in 1 .. Len(rows) : rows[i].text \in Nat
    BY LenProperties, TextsCount DEF IInv, Shape
  <2>1. CASE rows' = rows
    BY <2>0, <2>1
  <2>2. ASSUME NEW row \in Row, SaveRow(row), row.text >= accumulated,
               handler \in {"turn", "unregistered"}
        PROVE  Grows
    <3>1. /\ Len(rows) = IF savedPartial THEN 1 ELSE 0
          /\ \A i \in 1 .. Len(rows) : rows[i].text <= accumulated
      BY <2>2 DEF IInv, Saved
    <3>2. rows' \in Seq(Row) /\ Len(rows') = 1 /\ rows'[1] = row
      BY <2>0, <2>2, <3>1, SaveRowGives DEF Shape
    <3>3. 1 \in DOMAIN rows'
      BY <3>2, LenProperties
    <3>4. \A i \in 1 .. Len(rows) : i = 1
      BY <3>1
    <3>5. row.text \in Nat /\ accumulated \in Nat
      BY <2>0 DEF Row, Shape
    <3> QED
      BY <2>0, <2>2, <3>1, <3>2, <3>3, <3>4, <3>5
  <2>3. CASE Forward
    <3>1. [text |-> accumulated + 1, marked |-> FALSE] \in Row /\ accumulated + 1 >= accumulated
      BY <2>0 DEF Shape, Row
    <3>2. handler = "turn" /\ (rows' = rows \/ SaveRow([text |-> accumulated + 1, marked |-> FALSE]))
      BY <2>3 DEF Forward
    <3> QED
      BY <2>1, <2>2, <3>1, <3>2
  <2>4. CASE Persist
    <3>1. /\ [text |-> FinalText, marked |-> FALSE] \in Row /\ FinalText >= accumulated
          /\ [text |-> accumulated, marked |-> TRUE] \in Row /\ accumulated >= accumulated
      BY <2>0 DEF Shape, Row, FinalText
    <3>2. handler = "unregistered"
          /\ \/ rows' = rows
             \/ SaveRow([text |-> FinalText, marked |-> FALSE])
             \/ SaveRow([text |-> accumulated, marked |-> TRUE])
      BY <2>4 DEF Persist
    <3> QED
      BY <2>1, <2>2, <3>1, <3>2
  <2>5. CASE ~Forward /\ ~Persist
    <3>1. rows' = rows
      BY <2>5, AgentQuiet DEF Next, HandlerStep, ForwardDone, ReadAbort, ReadClose, Unregister,
         Report, Crash, AbortEndpoint, ClientSends, OtherThanForwarder, disk
    <3> QED
      BY <2>1, <3>1
  <2> QED
    BY <2>3, <2>4, <2>5
<1> QED
  BY <1>1, InvKept, PTL DEF Spec, AnswerNeverShrinks

=============================================================================
