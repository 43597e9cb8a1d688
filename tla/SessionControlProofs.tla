------------------------ MODULE SessionControlProofs ------------------------
(***************************************************************************)
(* What the gateway keeps about a running turn, for any number of          *)
(* connections, turns, calls and crashes.  Next to the types one fact does *)
(* the work: careful clients have one turn at a time (Single), so what a   *)
(* turn writes under the session's key no other turn overwrites.           *)
(***************************************************************************)
EXTENDS SessionControl, TLAPS

(* TypeOK, but for the two flags. *)
Shape ==
    /\ row \in Row \cup {NoRow}
    /\ token \in 0 .. MaxTurns /\ active \in 0 .. MaxTurns /\ abort \in 0 .. MaxTurns
    /\ pc \in [Conns -> {"off", "fresh", "idle", "queued"} \cup InTurn]
    /\ turn \in [Conns -> 0 .. MaxTurns]
    /\ result \in [Conns -> {"none", "ok", "cancelled", "error"}]
    /\ title \in [Conns -> {"none", "asked", "made"}]
    /\ lock \in Conns \cup {NoOne}
    /\ turns \in 0 .. MaxTurns /\ calls \in 0 .. MaxCalls /\ crashes \in 0 .. MaxCrashes
    /\ cancelled \subseteq Turns /\ lost \subseteq Turns
    /\ chosen \in {"no", "yes", "late"}
    /\ row.state = "idle" => row.turn = NoTurn
    /\ \A c \in Conns : pc[c] \in InTurn <=> turn[c] # NoTurn

Flags == erased \in BOOLEAN /\ renaming \in BOOLEAN

Single ==
    \A c, d \in Conns : pc[c] \in InTurn /\ pc[d] \in InTurn => c = d

(* A turn is listed under its id from its first step until it ends. *)
Listed ==
    \A c \in Conns : pc[c] \in {"begun", "marked", "running"} => active = turn[c]

Aborts == Single /\ Listed /\ Abortable

Tells == Single /\ StateTellsTurn

(* Nobody asks for a title of a session that has the user's name. *)
Named == chosen = "yes" => row.name = "user" /\ \A c \in Conns : title[c] # "asked"

-----------------------------------------------------------------------------
USE SessionControlAssumption DEF NoTurn, Turns

(* The row after INSERT OR IGNORE. *)
LEMMA EnsuredRow ==
    ASSUME row \in Row \cup {NoRow}
    PROVE  /\ Ensured \in Row
           /\ row # NoRow => Ensured = row
           /\ row = NoRow => Ensured.state = "idle" /\ Ensured.turn = 0
BY DEF Ensured, Row, NoRow

(* The row that a write of the state leaves.                               *)
LEMMA StateRow ==
    ASSUME row \in Row \cup {NoRow}, NEW s \in {"idle", "running", "error"},
           NEW t \in 0 .. MaxTurns, SetState(s, t)
    PROVE  row' \in Row /\ row'.state = s /\ row'.turn = t /\ row'.name = Ensured.name
<1>1. Ensured \in Row
  BY EnsuredRow
<1> QED
  BY <1>1 DEF SetState, Row

(* The row that a write of the name leaves.                                *)
LEMMA NameRow ==
    ASSUME row \in Row \cup {NoRow}, NEW n \in {"default", "user", "auto"}, SetName(n)
    PROVE  /\ row' \in Row /\ row'.name = n
           /\ row'.state = Ensured.state /\ row'.turn = Ensured.turn
<1>1. Ensured \in Row
  BY EnsuredRow
<1> QED
  BY <1>1 DEF SetName, Row

-----------------------------------------------------------------------------
(* No session exists yet.                                                  *)
LEMMA ShapeInit == Init => Shape
BY DEF Init, Shape, InTurn, Marked, Row, NoRow, NoOne

(* A step keeps the variables in their types.                              *)
LEMMA ShapeStep == Shape /\ [Next]_vars => Shape'
<1> SUFFICES ASSUME Shape, [Next]_vars PROVE Shape'
  OBVIOUS
<1> USE DEF Shape, InTurn, Marked, handler, endpoint, bounds, ghosts
<1>1. ASSUME NEW c \in Conns, Connect(c) PROVE Shape'
  <2>1. CASE UNCHANGED <<row, chosen>>
    BY <1>1, <2>1 DEF Connect, At
  <2>2. CASE calls < MaxCalls /\ UserNames
    <3>1. row' \in Row /\ (row'.state = "idle" => row'.turn = 0)
      BY <2>2, NameRow, EnsuredRow DEF UserNames
    <3>2. chosen' \in {"no", "yes", "late"} /\ calls' \in 0 .. MaxCalls
      BY <1>1, <2>2 DEF UserNames, Connect
    <3> QED
      BY <1>1, <3>1, <3>2 DEF Connect, At
  <2> QED
    BY <1>1, <2>1, <2>2 DEF Connect
<1>2. ASSUME NEW c \in Conns, Handshake(c) \/ Message(c) \/ Refused(c) \/ Close(c)
      PROVE  Shape'
  BY <1>2 DEF Handshake, Message, Refused, Close, At
<1>3. ASSUME NEW c \in Conns, BeginQueued(c) \/ BeginFirst(c) PROVE Shape'
  <2>1. Begin(c) /\ pc' = [pc EXCEPT ![c] = "begun"] /\ lock' \in {lock, c}
    BY <1>3 DEF BeginQueued, BeginFirst, At
  <2>2. row' \in Row /\ (row'.state = "idle" => row'.turn = 0)
    BY <2>1, EnsuredRow DEF Begin
  <2>3. turns + 1 \in 1 .. MaxTurns
    BY <2>1 DEF Begin
  <2> QED
    BY <2>1, <2>2, <2>3 DEF Begin
<1>4. ASSUME NEW c \in Conns, Mark(c) PROVE Shape'
  <2>1. row' \in Row /\ row'.state = "running"
    BY <1>4, StateRow DEF Mark
  <2> QED
    BY <1>4, <2>1 DEF Mark, At
<1>5. ASSUME NEW c \in Conns, Register(c) \/ CancelOwn(c) \/ EndTurn(c) \/ Unregister(c)
      PROVE  Shape'
  <2>1. CASE Register(c)
    BY <2>1 DEF Register, At
  <2>4. CASE Unregister(c)
    BY <2>4 DEF Unregister, At
  <2>2. CASE CancelOwn(c)
    <3>1. turn[c] \in 1 .. MaxTurns
      BY <2>2 DEF CancelOwn
    <3> QED
      BY <2>2, <3>1 DEF CancelOwn
  <2>3. CASE EndTurn(c)
    BY <2>3 DEF EndTurn, At
  <2> QED
    BY <1>5, <2>1, <2>2, <2>3, <2>4
<1>6. ASSUME NEW c \in Conns, SavePartial(c) \/ Store(c) PROVE Shape'
  <2>1. row' \in Row \cup {NoRow} /\ (row'.state = "idle" => row'.turn = 0)
    BY <1>6, EnsuredRow DEF SavePartial, Store
  <2> QED
    BY <1>6, <2>1 DEF SavePartial, Store, At
<1>7. ASSUME NEW c \in Conns, CheckTitle(c) PROVE Shape'
  BY <1>7 DEF CheckTitle, At
<1>8. ASSUME NEW c \in Conns, MakeTitle(c) PROVE Shape'
  <2>1. row' \in Row /\ (row'.state = "idle" => row'.turn = 0)
    BY <1>8, NameRow, EnsuredRow DEF MakeTitle
  <2> QED
    BY <1>8, <2>1 DEF MakeTitle
<1>9. ASSUME NEW c \in Conns, Tell(c) PROVE Shape'
  <2>1. row' \in Row /\ (row'.state = "idle" => row'.turn = 0)
    BY <1>9, StateRow DEF Tell
  <2> QED
    BY <1>9, <2>1 DEF Tell, At
<1>10. ASSUME NEW c \in Conns, Return(c) PROVE Shape'
  BY <1>10 DEF Return, At
<1>11. ASSUME AbortLookup \/ AbortCancel \/ RenameLookup PROVE Shape'
  <2>1. CASE AbortLookup
    BY <2>1 DEF AbortLookup
  <2>2. CASE AbortCancel
    BY <2>2 DEF AbortCancel
  <2>3. CASE RenameLookup
    BY <2>3 DEF RenameLookup
  <2> QED
    BY <1>11, <2>1, <2>2, <2>3
<1>12. ASSUME Rename PROVE Shape'
  <2>1. row' \in Row /\ (row'.state = "idle" => row'.turn = 0)
    BY <1>12, NameRow, EnsuredRow DEF Rename, UserNames
  <2> QED
    BY <1>12, <2>1 DEF Rename, UserNames
<1>13. ASSUME Delete PROVE Shape'
  BY <1>13 DEF Delete, NoRow
<1>14. ASSUME Crash PROVE Shape'
  <2>1. lost' \subseteq 1 .. MaxTurns
    <3>1. \A c \in {d \in Conns : turn[d] # 0} : turn[c] \in 1 .. MaxTurns
      OBVIOUS
    <3>2. lost \subseteq 1 .. MaxTurns
      OBVIOUS
    <3> QED
      BY <1>14, <3>1, <3>2, Zenon DEF Crash, NoTurn
  <2>2. crashes' \in 0 .. MaxCrashes
    BY <1>14 DEF Crash
  <2> QED
    BY <1>14, <2>1, <2>2 DEF Crash, NoOne
<1>15. CASE UNCHANGED vars
  BY <1>15 DEF vars
<1> QED
  BY <1>1, <1>2, <1>3, <1>4, <1>5, <1>6, <1>7, <1>8, <1>9, <1>10, <1>11, <1>12,
     <1>13, <1>14, <1>15 DEF Next, TurnStep

(* The two ghosts stay Booleans.                                           *)
LEMMA FlagsStep == Flags /\ [Next]_vars => Flags'
<1> SUFFICES ASSUME Flags, [Next]_vars PROVE Flags'
  OBVIOUS
<1> USE DEF Flags, endpoint, ghosts
<1>1. ASSUME NEW c \in Conns, BeginQueued(c) \/ BeginFirst(c) \/ Mark(c) PROVE Flags'
  BY <1>1, Zenon DEF BeginQueued, BeginFirst, Begin, Mark
<1>2. ASSUME NEW c \in Conns,
             \/ Connect(c) \/ Handshake(c) \/ Message(c) \/ Refused(c) \/ CancelOwn(c)
             \/ SavePartial(c) \/ Close(c) \/ Register(c) \/ EndTurn(c) \/ Unregister(c)
      PROVE  Flags'
  BY <1>2, Zenon DEF Connect, Handshake, Message, Refused, CancelOwn, SavePartial, Close,
     Register, EndTurn, Unregister
<1>3. ASSUME NEW c \in Conns, Store(c) \/ CheckTitle(c) \/ MakeTitle(c) \/ Tell(c) \/ Return(c)
      PROVE  Flags'
  BY <1>3, Zenon DEF Store, CheckTitle, MakeTitle, Tell, Return
<1>4. ASSUME \/ AbortLookup \/ AbortCancel \/ RenameLookup \/ Rename \/ Delete \/ Crash
             \/ UNCHANGED vars
      PROVE  Flags'
  BY <1>4, Zenon DEF AbortLookup, AbortCancel, RenameLookup, Rename, Delete, Crash, vars
<1> QED
  BY <1>1, <1>2, <1>3, <1>4, Zenon DEF Next, TurnStep

(* Whatever happens to a session, its row, its entries and its handlers    *)
(* keep to their types; a session said to be idle has no turn.             *)
THEOREM TypeCorrect == Spec => []TypeOK
<1>1. Init => Shape /\ Flags
  BY ShapeInit DEF Init, Flags
<1>2. Shape /\ Flags /\ [Next]_vars => Shape' /\ Flags'
  BY ShapeStep, FlagsStep
<1>3. Shape /\ Flags => TypeOK
  BY Zenon DEF Shape, Flags, TypeOK
<1> QED
  BY <1>1, <1>2, <1>3, PTL DEF Spec

-----------------------------------------------------------------------------
(* One turn at a time, its token and its id where the abort looks.         *)
LEMMA AbortsInit == Init => Aborts
BY DEF Init, Aborts, Single, Listed, Abortable, InTurn, Marked

(* A turn begins. *)
LEMMA AbortsBegin ==
    ASSUME Shape, Aborts, CarefulClients = TRUE, NEW c \in Conns,
           BeginQueued(c) \/ BeginFirst(c)
    PROVE  Aborts'
<1>1. \A d \in Conns : pc[d] \notin InTurn
  BY DEF BeginQueued, BeginFirst, Careful
<1>2. /\ pc' = [pc EXCEPT ![c] = "begun"] /\ turn' = [turn EXCEPT ![c] = turns + 1]
      /\ active' = turns + 1 /\ token' = token
  BY DEF BeginQueued, BeginFirst, Begin, At
<1>3. token = 0
  BY <1>1 DEF Aborts, Abortable, InTurn, Marked
<1> QED
  BY <1>1, <1>2, <1>3 DEF Shape, Aborts, Single, Listed, Abortable, InTurn, Marked

(* The token of the map is the running turn's.                             *)
LEMMA AbortsStep == CarefulClients = TRUE /\ Shape /\ Aborts /\ [Next]_vars => Aborts'
<1> SUFFICES ASSUME CarefulClients = TRUE, Shape, Aborts, [Next]_vars PROVE Aborts'
  OBVIOUS
<1> USE DEF Aborts, Single, Listed, Abortable, InTurn, Marked, Shape,
            handler, endpoint, bounds, ghosts
<1>1. ASSUME NEW c \in Conns, BeginQueued(c) \/ BeginFirst(c) PROVE Aborts'
  BY <1>1, AbortsBegin
<1>2. ASSUME NEW c \in Conns, Connect(c) \/ Handshake(c) \/ Message(c) \/ Refused(c) \/ Close(c)
      PROVE  Aborts'
  <2>1. /\ pc[c] \notin InTurn /\ UNCHANGED <<token, active, turn>>
        /\ \E p \in {"off", "fresh", "idle", "queued"} : pc' = [pc EXCEPT ![c] = p]
    BY <1>2 DEF Connect, Handshake, Message, Refused, Close, At
  <2> QED
    BY <2>1
<1>3. ASSUME NEW c \in Conns, Mark(c) PROVE Aborts'
  BY <1>3 DEF Mark, At
<1>4. ASSUME NEW c \in Conns, Register(c) PROVE Aborts'
  BY <1>4 DEF Register, At
<1>5. ASSUME NEW c \in Conns, EndTurn(c) PROVE Aborts'
  BY <1>5 DEF EndTurn, At
<1>6. ASSUME NEW c \in Conns, Unregister(c) PROVE Aborts'
  BY <1>6 DEF Unregister, At
<1>7. ASSUME NEW c \in Conns, Store(c) \/ CheckTitle(c) \/ Tell(c) PROVE Aborts'
  <2>1. /\ pc[c] \in {"over", "answered", "stored"} /\ UNCHANGED <<token, active, turn>>
        /\ \E p \in {"answered", "stored", "told"} : pc' = [pc EXCEPT ![c] = p]
    BY <1>7 DEF Store, CheckTitle, Tell, At
  <2> QED
    BY <2>1
<1>8. ASSUME NEW c \in Conns, Return(c) PROVE Aborts'
  BY <1>8 DEF Return, At
<1>9. ASSUME \/ \E c \in Conns : CancelOwn(c) \/ SavePartial(c) \/ MakeTitle(c)
             \/ AbortLookup \/ AbortCancel \/ RenameLookup \/ Rename \/ Delete
             \/ UNCHANGED vars
      PROVE  Aborts'
  <2>1. UNCHANGED <<token, active, pc, turn>>
    BY <1>9 DEF CancelOwn, SavePartial, MakeTitle, AbortLookup, AbortCancel, RenameLookup,
       Rename, Delete, vars
  <2> QED
    BY <2>1
<1>10. ASSUME Crash PROVE Aborts'
  BY <1>10 DEF Crash
<1> QED
  BY <1>1, <1>2, <1>3, <1>4, <1>5, <1>6, <1>7, <1>8, <1>9, <1>10 DEF Next, TurnStep

(* With careful clients, the token and the id that the abort endpoint      *)
(* finds are those of the turn that runs, and of no other.                 *)
THEOREM TurnsAbortable ==
    ASSUME CarefulClients = TRUE
    PROVE  Spec => []Abortable
<1>1. Init => Shape /\ Aborts
  BY ShapeInit, AbortsInit
<1>2. Shape /\ Aborts /\ [Next]_vars => Shape' /\ Aborts'
  BY ShapeStep, AbortsStep
<1>3. Aborts => Abortable
  BY DEF Aborts
<1> QED
  BY <1>1, <1>2, <1>3, PTL DEF Spec

-----------------------------------------------------------------------------
(* No session tells of a turn yet.                                         *)
LEMMA TellsInit == Init => Tells
BY DEF Init, Tells, Single, StateTellsTurn, InTurn, Marked, NoRow

(* The row of a session that runs is not created again. *)
LEMMA EnsureKeeps ==
    ASSUME Shape, Tells
    PROVE  /\ \A c \in Conns : pc[c] \in Marked /\ ~erased =>
                  Ensured.state = "running" /\ Ensured.turn = turn[c]
           /\ Ensured.state = "running" => Ensured = row
<1>1. row \in Row \cup {NoRow} /\ NoRow.state # "running"
  BY DEF Shape, NoRow
<1> QED
  BY <1>1, EnsuredRow DEF Tells, StateTellsTurn

(* A step that keeps the turns where they are, and in the row only writes  *)
(* what is there, or another name.                                         *)
LEMMA TellsSame ==
    ASSUME Shape, Tells, UNCHANGED <<turn, lost, erased>>,
           \A c \in Conns : /\ pc'[c] \in InTurn <=> pc[c] \in InTurn
                            /\ pc'[c] \in Marked <=> pc[c] \in Marked,
           \/ row' = row
           \/ row'.state = Ensured.state /\ row'.turn = Ensured.turn
    PROVE  Tells'
<1>0. turn' = turn /\ lost' = lost /\ erased' = erased
  OBVIOUS
<1>1. CASE row' = row
  BY <1>0, <1>1 DEF Tells, Single, StateTellsTurn
<1>2. CASE row'.state = Ensured.state /\ row'.turn = Ensured.turn
  <2>1. Single'
    BY DEF Tells, Single
  <2>2. \A c \in Conns : pc'[c] \in Marked /\ ~erased' =>
            row'.state = "running" /\ row'.turn = turn'[c]
    BY <1>0, <1>2, EnsureKeeps
  <2>3. row'.state = "running" => 
            \/ row'.turn \in lost'
            \/ \E c \in Conns : turn'[c] = row'.turn /\ pc'[c] \in Marked
    <3> SUFFICES ASSUME row'.state = "running"
                 PROVE  \/ row'.turn \in lost'
                        \/ \E c \in Conns : turn'[c] = row'.turn /\ pc'[c] \in Marked
      OBVIOUS
    <3>1. Ensured = row
      BY <1>2, EnsureKeeps
    <3> QED
      BY <1>0, <1>2, <3>1 DEF Tells, StateTellsTurn
  <2> QED
    BY <2>1, <2>2, <2>3 DEF Tells, StateTellsTurn
<1> QED
  BY <1>1, <1>2

(* The stored state and the turn change together.                          *)
LEMMA TellsStep == CarefulClients = TRUE /\ Shape /\ Tells /\ [Next]_vars => Tells'
<1> SUFFICES ASSUME CarefulClients = TRUE, Shape, Tells, [Next]_vars PROVE Tells'
  OBVIOUS
<1> USE DEF InTurn, Marked, handler, endpoint, bounds, ghosts
<1>1. ASSUME NEW c \in Conns, Handshake(c) \/ Message(c) \/ Refused(c) \/ Close(c) PROVE Tells'
  <2>1. /\ pc[c] \notin InTurn /\ UNCHANGED <<row, turn, lost, erased>>
        /\ \E p \in {"off", "idle", "queued"} : pc' = [pc EXCEPT ![c] = p]
    BY <1>1 DEF Handshake, Message, Refused, Close, At
  <2> QED
    BY <2>1, TellsSame DEF Shape
<1>2. ASSUME NEW c \in Conns, Connect(c) PROVE Tells'
  <2>1. pc[c] = "off" /\ pc' = [pc EXCEPT ![c] = "fresh"] /\ UNCHANGED <<turn, lost, erased>>
    BY <1>2 DEF Connect, At
  <2>2. row' = row \/ (row'.state = Ensured.state /\ row'.turn = Ensured.turn)
    BY <1>2, NameRow DEF Connect, UserNames, Shape
  <2> QED
    BY <2>1, <2>2, TellsSame DEF Shape
<1>3. ASSUME NEW c \in Conns, BeginQueued(c) \/ BeginFirst(c) PROVE Tells'
  <2>1. \A d \in Conns : pc[d] \notin InTurn
    BY <1>3 DEF BeginQueued, BeginFirst, Careful
  <2>2. /\ pc' = [pc EXCEPT ![c] = "begun"] /\ turn' = [turn EXCEPT ![c] = turns + 1]
        /\ row' = Ensured /\ lost' = lost
    BY <1>3 DEF BeginQueued, BeginFirst, Begin, At
  <2>3. row'.state = "running" => row'.turn \in lost'
    BY <2>1, <2>2, EnsureKeeps DEF Tells, StateTellsTurn
  <2>4. \A d \in Conns : pc'[d] \notin Marked /\ (pc'[d] \in InTurn => d = c)
    BY <2>1, <2>2 DEF Shape
  <2> QED
    BY <2>3, <2>4 DEF Tells, Single, StateTellsTurn
<1>4. ASSUME NEW c \in Conns, Mark(c) PROVE Tells'
  <2>1. row'.state = "running" /\ row'.turn = turn[c]
    BY <1>4, StateRow DEF Mark, Shape
  <2>2. pc[c] = "begun" /\ pc' = [pc EXCEPT ![c] = "marked"] /\ turn' = turn
    BY <1>4 DEF Mark, At
  <2>3. \A d \in Conns : pc'[d] \in InTurn => d = c
    BY <2>2 DEF Tells, Single, Shape
  <2> QED
    BY <2>1, <2>2, <2>3 DEF Tells, Single, StateTellsTurn, Shape
<1>5. ASSUME NEW c \in Conns,
             Register(c) \/ EndTurn(c) \/ Unregister(c) \/ Store(c) \/ CheckTitle(c)
      PROVE  Tells'
  <2>1. /\ pc[c] \in Marked /\ UNCHANGED <<turn, lost, erased>>
        /\ \E p \in Marked : pc' = [pc EXCEPT ![c] = p]
    BY <1>5 DEF Register, EndTurn, Unregister, Store, CheckTitle, At
  <2>2. row' = row \/ row' = Ensured
    BY <1>5 DEF Register, EndTurn, Unregister, Store, CheckTitle
  <2> QED
    BY <2>1, <2>2, TellsSame DEF Shape
<1>6. ASSUME NEW c \in Conns, CancelOwn(c) \/ SavePartial(c) \/ MakeTitle(c) PROVE Tells'
  <2>1. UNCHANGED <<pc, turn, lost, erased>>
    BY <1>6 DEF CancelOwn, SavePartial, MakeTitle
  <2>2. row' = row \/ (row'.state = Ensured.state /\ row'.turn = Ensured.turn)
    BY <1>6, NameRow DEF CancelOwn, SavePartial, MakeTitle, Shape
  <2> QED
    BY <2>1, <2>2, TellsSame
<1>7. ASSUME NEW c \in Conns, Tell(c) PROVE Tells'
  <2>1. pc[c] \in Marked /\ pc' = [pc EXCEPT ![c] = "told"]
    BY <1>7 DEF Tell, At
  <2>2. row'.state # "running"
    BY <1>7, StateRow DEF Tell, Shape
  <2>3. \A d \in Conns : pc'[d] \notin Marked /\ (pc'[d] \in InTurn => d = c)
    BY <2>1 DEF Tells, Single, Shape
  <2> QED
    BY <2>2, <2>3 DEF Tells, Single, StateTellsTurn
<1>8. ASSUME NEW c \in Conns, Return(c) PROVE Tells'
  <2>1. /\ pc[c] = "told" /\ pc' = [pc EXCEPT ![c] = "idle"]
        /\ turn' = [turn EXCEPT ![c] = 0] /\ UNCHANGED <<row, lost, erased>>
    BY <1>8 DEF Return, At
  <2>2. Single'
    BY <2>1 DEF Tells, Single, Shape
  <2>3. \A d \in Conns : pc'[d] \in Marked <=> pc[d] \in Marked
    BY <2>1 DEF Shape
  <2>4. \A d \in Conns : pc[d] \in Marked => turn'[d] = turn[d]
    BY <2>1 DEF Shape
  <2>5. StateTellsTurn'
    BY <2>1, <2>3, <2>4, Zenon DEF Tells, StateTellsTurn
  <2> QED
    BY <2>2, <2>5 DEF Tells
<1>9. ASSUME AbortLookup \/ AbortCancel \/ RenameLookup \/ Rename \/ UNCHANGED vars PROVE Tells'
  <2>1. UNCHANGED <<pc, turn, lost, erased>>
    BY <1>9 DEF AbortLookup, AbortCancel, RenameLookup, Rename, UserNames, vars
  <2>2. row' = row \/ (row'.state = Ensured.state /\ row'.turn = Ensured.turn)
    BY <1>9, NameRow DEF AbortLookup, AbortCancel, RenameLookup, Rename, UserNames, vars, Shape
  <2> QED
    BY <2>1, <2>2, TellsSame
<1>10. ASSUME Delete PROVE Tells'
  <2>1. row'.state # "running" /\ erased' = TRUE /\ UNCHANGED pc
    BY <1>10 DEF Delete, NoRow
  <2> QED
    BY <2>1 DEF Tells, Single, StateTellsTurn
<1>11. ASSUME Crash PROVE Tells'
  <2>1. \A c \in Conns : pc'[c] \notin InTurn
    BY <1>11 DEF Crash
  <2>2. lost' = lost \cup {turn[c] : c \in {d \in Conns : turn[d] # NoTurn}} /\ row' = row
    BY <1>11 DEF Crash
  <2>3. \A c \in Conns : pc[c] \in Marked => turn[c] \in lost'
    BY <2>2 DEF Shape
  <2> QED
    BY <2>1, <2>2, <2>3 DEF Tells, Single, StateTellsTurn
<1> QED
  BY <1>1, <1>2, <1>3, <1>4, <1>5, <1>6, <1>7, <1>8, <1>9, <1>10, <1>11 DEF Next, TurnStep

(* With careful clients, the row that clients poll tells the turn from its *)
(* first step to its end, and says of no other that it runs.               *)
THEOREM StateIsTold ==
    ASSUME CarefulClients = TRUE
    PROVE  Spec => []StateTellsTurn
<1>1. Init => Shape /\ Tells
  BY ShapeInit, TellsInit
<1>2. Shape /\ Tells /\ [Next]_vars => Shape' /\ Tells'
  BY ShapeStep, TellsStep
<1>3. Tells => StateTellsTurn
  BY DEF Tells
<1> QED
  BY <1>1, <1>2, <1>3, PTL DEF Spec

-----------------------------------------------------------------------------
(* No session has a name yet.                                              *)
LEMMA NamedInit == Init => Named
BY DEF Init, Named

(* A name a user gave is not replaced.                                     *)
LEMMA NamedStep == Shape /\ Named /\ [Next]_vars => Named'
<1> SUFFICES ASSUME Shape, Named, [Next]_vars PROVE Named'
  OBVIOUS
<1> USE DEF Named, handler, endpoint, bounds, ghosts
<1>0. chosen = "yes" => Ensured = row
  BY EnsuredRow DEF Shape, NoRow
(* The user gives a name. *)
<1>1. ASSUME UserNames, title' = title PROVE Named'
  <2>1. row'.name = "user"
    BY <1>1, NameRow DEF UserNames, Shape
  <2>2. chosen' = "yes" => \A c \in Conns : title[c] # "asked"
    BY <1>1 DEF UserNames
  <2> QED
    BY <1>1, <2>1, <2>2
(* The row keeps its name. *)
<1>2. ASSUME row' \in {row, Ensured}, chosen' = chosen, title' = title PROVE Named'
  BY <1>0, <1>2
<1>3. ASSUME NEW c \in Conns, Connect(c) PROVE Named'
  BY <1>1, <1>2, <1>3 DEF Connect
<1>4. ASSUME NEW c \in Conns,
             \/ Handshake(c) \/ Message(c) \/ Refused(c) \/ BeginQueued(c) \/ BeginFirst(c)
             \/ Register(c) \/ CancelOwn(c) \/ SavePartial(c) \/ EndTurn(c) \/ Unregister(c)
             \/ Store(c) \/ Close(c)
      PROVE  Named'
  BY <1>2, <1>4 DEF Handshake, Message, Refused, BeginQueued, BeginFirst, Begin, Register,
     CancelOwn, SavePartial, EndTurn, Unregister, Store, Close
<1>5. ASSUME NEW c \in Conns, Mark(c) \/ Tell(c) PROVE Named'
  <2>1. row'.name = Ensured.name /\ UNCHANGED <<chosen, title>>
    BY <1>5, StateRow DEF Mark, Tell, Shape
  <2> QED
    BY <1>0, <2>1
<1>6. ASSUME NEW c \in Conns, CheckTitle(c) PROVE Named'
  BY <1>6 DEF CheckTitle, Shape
<1>7. ASSUME NEW c \in Conns, MakeTitle(c) PROVE Named'
  BY <1>7 DEF MakeTitle
<1>8. ASSUME NEW c \in Conns, Return(c) PROVE Named'
  BY <1>8 DEF Return, Shape
<1>9. ASSUME Rename PROVE Named'
  BY <1>1, <1>9 DEF Rename
<1>10. ASSUME Delete \/ Crash PROVE Named'
  BY <1>10 DEF Delete, Crash
<1>11. ASSUME AbortLookup \/ AbortCancel \/ RenameLookup \/ UNCHANGED vars PROVE Named'
  BY <1>2, <1>11 DEF AbortLookup, AbortCancel, RenameLookup, vars
<1> QED
  BY <1>3, <1>4, <1>5, <1>6, <1>7, <1>8, <1>9, <1>10, <1>11 DEF Next, TurnStep

(* A title the gateway makes up replaces no name of the user's but one     *)
(* given while the title was asked for, also with careless clients.        *)
THEOREM UserNameKept == Spec => []NameKept
<1>1. Init => Shape /\ Named
  BY ShapeInit, NamedInit
<1>2. Shape /\ Named /\ [Next]_vars => Shape' /\ Named'
  BY ShapeStep, NamedStep
<1>3. Named => NameKept
  BY DEF Named, NameKept
<1> QED
  BY <1>1, <1>2, <1>3, PTL DEF Spec

=============================================================================
