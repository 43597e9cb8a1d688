------------------------- MODULE ConversationProofs -------------------------
(***************************************************************************)
(* The stored conversation, for any connections and messages.              *)
(*                                                                         *)
(* Types hold of every client and provider.  The three invariants of the   *)
(* table need clients that keep the unlocked operations apart and a        *)
(* provider with native tool messages; they are parts of Told, which is    *)
(* kept because whoever writes is alone (OneWriter), nobody else works on  *)
(* its message (OwnMessages), the table ends where it writes               *)
(* (LastIsWritten), and the last user message of its agent's history is    *)
(* the question it answers (LastIsAsked).                                  *)
(***************************************************************************)
EXTENDS Conversation, SequenceLemmas, TLAPS

-----------------------------------------------------------------------------
(* What a connection works on has a text.                                  *)
Working == {"waiting", "rewinding"} \cup InTurn

TalkTyped ==
    /\ TypeOK
    /\ \A c \in Conns : pc[c] \in Working => current[c] \in Texts
    /\ lock # NoConn => pc[lock] \in InTurn

(* With careful clients at most one writer is past the lock, or passes it  *)
(* by; nobody waits while one passes it by.                                *)
Writing(c) == pc[c] \in {"rewinding"} \cup InTurn

OneWriter ==
    /\ \A c, d \in Conns : Writing(c) /\ Writing(d) => c = d
    /\ hook # NoMessage => \A c \in Conns : ~Writing(c)
    /\ Bypassing => \A c \in Conns : pc[c] # "waiting"

(* Each message is one connection's at most, and has not been answered.    *)
OwnMessages ==
    /\ \A c \in Conns : pc[c] \in Working => current[c] \in sent /\ current[c] \notin done
    /\ \A c, d \in Conns : pc[c] \in Working /\ pc[d] \in Working /\ current[c] = current[d] => c = d
    /\ done \subseteq sent

(* A question has the text of its owner, an answer follows its question.   *)
WellTold(table, S) ==
    \A i \in 1 .. Len(table) :
        IF IsUser(table[i]) THEN table[i].text = table[i].owner /\ table[i].owner \in S
        ELSE i > 1 /\ IsUser(table[i - 1]) /\ table[i - 1].owner = table[i].text

(* The table ends with the writer's question, or with the answer to it.    *)
AtQuestion(table, m) ==
    LET n == Len(table) IN n > 0 /\ IsUser(table[n]) /\ table[n].owner = m

AtAnswer(table, m, stages) ==
    LET n == Len(table) IN
    /\ n > 1 /\ IsAssistant(table[n]) /\ table[n].text = m /\ table[n].stage \in stages
    /\ IsUser(table[n - 1]) /\ table[n - 1].owner = m

Answered == {"partial", "final", "interrupted"}

LastIsWritten ==
    /\ hook # NoMessage => AtQuestion(rows, hook)
    /\ \A c \in Conns :
          /\ pc[c] = "rewinding" \/ (pc[c] = "running" /\ ~partial[c]) => AtQuestion(rows, current[c])
          /\ pc[c] = "running" /\ partial[c] => AtAnswer(rows, current[c], Answered)
          /\ pc[c] = "stored" => AtAnswer(rows, current[c], {"final"})

(* The table has the answer to m, whole, and its question as it was asked. *)
Keeps(table, m) ==
    /\ \E i \in 1 .. Len(table) :
          IsAssistant(table[i]) /\ table[i].text = m /\ table[i].stage = "final"
    /\ \E i \in 1 .. Len(table) :
          IsUser(table[i]) /\ table[i].text = m /\ table[i].stage = "enriched"

Told == WellTold(rows, sent) /\ \A m \in done : Keeps(rows, m)

(* The last question in the agent's history is the one being answered.     *)
Asks(h, m) ==
    \E i \in 1 .. Len(h) : /\ h[i].role = "user" /\ h[i].text = m
                           /\ \A k \in i + 1 .. Len(h) : h[k].role # "user"

LastIsAsked == \A c \in Conns : pc[c] \in InTurn => Asks(history[c], current[c])

TalkInv ==
    TalkTyped /\ OneWriter /\ OwnMessages /\ Told /\ LastIsWritten /\ LastIsAsked

-----------------------------------------------------------------------------
(* The operators of the session store. *)
TableRow == QuestionRow \cup AnswerRow

(* A row is a question or an answer. *)
LEMMA RowKinds ==
    /\ \A r \in TableRow : IsUser(r) \/ IsAssistant(r)
    /\ \A r \in TableRow : r.text \in Texts /\ r.owner \in Texts
    /\ \A r \in QuestionRow : IsUser(r) /\ ~IsAssistant(r)
    /\ \A r \in AnswerRow : IsAssistant(r) /\ ~IsUser(r)
BY DEF TableRow, QuestionRow, AnswerRow, IsUser, IsAssistant

(* The last question of a table or of a history. *)
LEMMA LastUserIs ==
    ASSUME NEW S, NEW s \in Seq(S)
    PROVE  /\ LastUser(s) \in 0 .. Len(s)
           /\ LastUser(s) # 0 => IsUser(s[LastUser(s)])
           /\ \A k \in 1 .. Len(s) : IsUser(s[k]) => LastUser(s) # 0 /\ k <= LastUser(s)
<1> DEFINE I == {i \in 1 .. Len(s) : IsUser(s[i])}
<1>1. LastUser(s) = IF I # {} THEN Max(I) ELSE 0
  BY DEF LastUser, SelectLastInSeq
<1>2. Len(s) \in Nat /\ I \in SUBSET (1 .. Len(s))
  BY LenProperties
<1>3. I # {} => Max(I) \in I /\ \A k \in I : Max(I) >= k
  BY <1>2, MaxOf
<1> QED
  BY <1>1, <1>2, <1>3

(* The last answer of a table. *)
LastAssistant(s) == SelectLastInSeq(s, IsAssistant)

(* What the search for it finds. *)
LEMMA LastAssistantIs ==
    ASSUME NEW S, NEW s \in Seq(S)
    PROVE  /\ LastAssistant(s) \in 0 .. Len(s)
           /\ LastAssistant(s) # 0 => IsAssistant(s[LastAssistant(s)])
           /\ \A k \in 1 .. Len(s) : IsAssistant(s[k]) => LastAssistant(s) # 0 /\ k <= LastAssistant(s)
<1> DEFINE I == {i \in 1 .. Len(s) : IsAssistant(s[i])}
<1>1. LastAssistant(s) = IF I # {} THEN Max(I) ELSE 0
  BY DEF LastAssistant, SelectLastInSeq
<1>2. Len(s) \in Nat /\ I \in SUBSET (1 .. Len(s))
  BY LenProperties
<1>3. I # {} => Max(I) \in I /\ \A k \in I : Max(I) >= k
  BY <1>2, MaxOf
<1> QED
  BY <1>1, <1>2, <1>3

(* append_message for a question or an answer. *)
LEMMA AppendedRow ==
    ASSUME NEW table \in Seq(TableRow), NEW m \in Texts, NEW role, NEW stage,
           (role = "user" /\ stage = "raw") \/ (role = "assistant" /\ stage \in Answered)
    PROVE  LET t == AppendRow(table, role, m, stage) IN
           /\ t \in Seq(TableRow) /\ Len(t) = Len(table) + 1
           /\ \A i \in 1 .. Len(table) : t[i] = table[i]
           /\ t[Len(t)].role = role /\ t[Len(t)].owner = m /\ t[Len(t)].text = m
           /\ t[Len(t)].stage = stage
<1> DEFINE row == [role |-> role, owner |-> m, text |-> m, stage |-> stage]
<1>1. row \in TableRow
  BY DEF TableRow, QuestionRow, AnswerRow, Answered
<1> HIDE DEF row
<1>2. /\ Append(table, row) \in Seq(TableRow) /\ Len(Append(table, row)) = Len(table) + 1
      /\ \A i \in 1 .. Len(table) : Append(table, row)[i] = table[i]
      /\ Append(table, row)[Len(table) + 1] = row
  BY <1>1, AppendProperties
<1>3. row.role = role /\ row.owner = m /\ row.text = m /\ row.stage = stage
  BY DEF row
<1> QED
  BY <1>2, <1>3 DEF AppendRow, row

(* update_last_message of the assistant: only the last answer changes. *)
LEMMA UpdatedLast ==
    ASSUME NEW table \in Seq(TableRow), NEW m \in Texts, NEW stage \in Answered
    PROVE  LET t == UpdateLast(table, m, stage)
               n == Len(table) IN
           /\ t \in Seq(TableRow) /\ Len(t) = n
           /\ n > 0 /\ IsAssistant(table[n]) =>
                 /\ \A i \in 1 .. n - 1 : t[i] = table[i]
                 /\ t[n].role = "assistant" /\ t[n].text = m /\ t[n].stage = stage
<1> DEFINE i == LastAssistant(table)
           n == Len(table)
           row == [[table[i] EXCEPT !.text = m] EXCEPT !.stage = stage]
<1>1. /\ i \in 0 .. n /\ (i # 0 => IsAssistant(table[i])) /\ n \in Nat
      /\ n > 0 /\ IsAssistant(table[n]) => i = n
  <2>1. n \in Nat /\ (n > 0 => n \in 1 .. n)
    BY LenProperties
  <2> QED
    BY <2>1, LastAssistantIs
<1>2. CASE i = 0
  BY <1>1, <1>2 DEF UpdateLast, LastAssistant
<1>3. CASE i # 0
  <2>1. i \in 1 .. n /\ table[i] \in AnswerRow
    BY <1>1, <1>3, RowKinds DEF TableRow
  <2>2. row \in AnswerRow /\ row.role = "assistant" /\ row.text = m /\ row.stage = stage
    BY <2>1 DEF AnswerRow, Answered
  <2>3. UpdateLast(table, m, stage) = [table EXCEPT ![i] = row]
    BY <1>3, <2>1 DEF UpdateLast, LastAssistant
  <2> HIDE DEF row, i
  <2>4. row \in TableRow
    BY <2>2 DEF TableRow
  <2>5. /\ [table EXCEPT ![i] = row] \in Seq(TableRow) /\ Len([table EXCEPT ![i] = row]) = n
        /\ \A j \in 1 .. n : [table EXCEPT ![i] = row][j] = IF j = i THEN row ELSE table[j]
    BY <2>1, <2>4, ExceptSeq
  <2> QED
    BY <1>1, <2>1, <2>2, <2>3, <2>5
<1> QED
  BY <1>2, <1>3

(* update_last_user: only the last question changes. *)
LEMMA UpdatedLastUser ==
    ASSUME NEW table \in Seq(TableRow), NEW m \in Texts
    PROVE  LET t == UpdateLastUser(table, m)
               u == LastUser(table) IN
           /\ t \in Seq(TableRow) /\ Len(t) = Len(table)
           /\ u # 0 => /\ \A i \in (1 .. Len(table)) \ {u} : t[i] = table[i]
                       /\ t[u].role = "user" /\ t[u].owner = table[u].owner
                       /\ t[u].text = m /\ t[u].stage = "enriched"
<1> DEFINE u == LastUser(table)
           n == Len(table)
           row == [[table[u] EXCEPT !.text = m] EXCEPT !.stage = "enriched"]
<1>1. u \in 0 .. n /\ (u # 0 => IsUser(table[u])) /\ n \in Nat
  BY LastUserIs, LenProperties
<1>2. CASE u = 0
  BY <1>1, <1>2 DEF UpdateLastUser
<1>3. CASE u # 0
  <2>1. u \in 1 .. n /\ table[u] \in QuestionRow
    BY <1>1, <1>3, RowKinds DEF TableRow
  <2>2. /\ row \in QuestionRow /\ row.role = "user" /\ row.owner = table[u].owner
        /\ row.text = m /\ row.stage = "enriched"
    BY <2>1 DEF QuestionRow
  <2>3. UpdateLastUser(table, m) = [table EXCEPT ![u] = row]
    BY <1>3, <2>1 DEF UpdateLastUser
  <2> HIDE DEF row, u
  <2>4. row \in TableRow
    BY <2>2 DEF TableRow
  <2>5. /\ [table EXCEPT ![u] = row] \in Seq(TableRow) /\ Len([table EXCEPT ![u] = row]) = n
        /\ \A j \in 1 .. n : [table EXCEPT ![u] = row][j] = IF j = u THEN row ELSE table[j]
    BY <2>1, <2>4, ExceptSeq
  <2> QED
    BY <1>1, <2>1, <2>2, <2>3, <2>5 DEF u
<1> QED
  BY <1>2, <1>3

(* remove_last_assistant_turn: the table up to its last question. *)
LEMMA RemovedTurn ==
    ASSUME NEW table \in Seq(TableRow)
    PROVE  LET t == RemoveLastAssistantTurn(table)
               u == LastUser(table) IN
           /\ t \in Seq(TableRow)
           /\ u # 0 => Len(t) = u /\ \A i \in 1 .. u : t[i] = table[i]
<1>1. LastUser(table) \in 0 .. Len(table)
  BY LastUserIs
<1> QED
  BY <1>1, FrontOf DEF RemoveLastAssistantTurn

(* seed_history: the chat messages of the table's rows. *)
LEMMA Seeded == ASSUME NEW table \in Seq(TableRow) PROVE Seed(table) \in Seq(Entry)
<1>1. DOMAIN table = 1 .. Len(table) /\ Len(table) \in Nat
  BY LenProperties
<1>2. \A i \in 1 .. Len(table) : [role |-> table[i].role, text |-> table[i].text] \in Entry
  <2>1. \A r \in TableRow : [role |-> r.role, text |-> r.text] \in Entry
    BY DEF TableRow, QuestionRow, AnswerRow, Entry
  <2> QED
    BY <2>1, ElementOfSeq
<1>3. Seed(table) \in [1 .. Len(table) -> Entry]
  BY <1>1, <1>2 DEF Seed
<1> QED
  BY <1>1, <1>3

(* A question is asked: the history ends with it. *)
LEMMA AskedIs ==
    ASSUME NEW h \in Seq(Entry), NEW m \in Texts
    PROVE  Asked(h, m) \in Seq(Entry) /\ Asks(Asked(h, m), m)
<1> DEFINE e == [role |-> "user", text |-> m]
<1>1. e \in Entry /\ e.role = "user" /\ e.text = m
  BY DEF Entry
<1> HIDE DEF e
<1>2. /\ Append(h, e) \in Seq(Entry) /\ Len(Append(h, e)) = Len(h) + 1
      /\ Append(h, e)[Len(h) + 1] = e /\ Len(h) \in Nat
  BY <1>1, AppendProperties, LenProperties
<1> QED
  BY <1>1, <1>2 DEF Asked, Asks, e

(* Entries of another role do not change which question is the last. *)
LEMMA AsksStill ==
    ASSUME NEW h \in Seq(Entry), NEW m, Asks(h, m), NEW e \in Entry
    PROVE  /\ Append(h, e) \in Seq(Entry)
           /\ e.role # "user" => Asks(Append(h, e), m)
<1>1. /\ Append(h, e) \in Seq(Entry) /\ Len(Append(h, e)) = Len(h) + 1
      /\ \A i \in 1 .. Len(h) : Append(h, e)[i] = h[i]
      /\ Append(h, e)[Len(h) + 1] = e /\ Len(h) \in Nat
  BY AppendProperties, LenProperties
<1> QED
  BY <1>1 DEF Asks

(* The last question of a history is the one that it asks. *)
LEMMA AskedLast ==
    ASSUME NEW h \in Seq(Entry), NEW m, Asks(h, m)
    PROVE  LastUser(h) # 0 /\ h[LastUser(h)].text = m
<1>1. PICK i \in 1 .. Len(h) : /\ h[i].role = "user" /\ h[i].text = m
                               /\ \A k \in i + 1 .. Len(h) : h[k].role # "user"
  BY DEF Asks
<1>2. LastUser(h) # 0 /\ i <= LastUser(h) /\ LastUser(h) \in 0 .. Len(h) /\ IsUser(h[LastUser(h)])
  BY <1>1, LastUserIs DEF IsUser
<1>3. ~(LastUser(h) \in i + 1 .. Len(h))
  BY <1>1, <1>2 DEF IsUser
<1>4. LastUser(h) = i
  BY <1>2, <1>3, LenProperties
<1> QED
  BY <1>1, <1>2, <1>4

-----------------------------------------------------------------------------
(* Initially nothing is stored and nobody is connected. *)
LEMMA TalkInit == Init => TalkInv
<1> SUFFICES ASSUME Init PROVE TalkInv
  OBVIOUS
<1>1. TypeOK
  BY DEF Init, TypeOK
<1>2. TalkTyped /\ OneWriter /\ OwnMessages
  BY <1>1 DEF Init, TalkTyped, OneWriter, OwnMessages, Working, Writing, InTurn, Bypassing
<1>3. Len(rows) = 0
  BY DEF Init
<1>4. Told /\ LastIsWritten /\ LastIsAsked
  BY <1>3 DEF Init, Told, WellTold, LastIsWritten, LastIsAsked, InTurn
<1> QED
  BY <1>2, <1>4 DEF TalkInv

(* What an answer writes is a table. *)
LEMMA AnswerTyped ==
    ASSUME TalkTyped, NEW c \in Conns, pc[c] \in InTurn, NEW stage \in Answered, Answer(c, stage)
    PROVE  rows' \in Seq(TableRow)
<1>1. rows \in Seq(TableRow) /\ current[c] \in Texts
  BY DEF TalkTyped, TypeOK, TableRow, Working
<1> QED
  BY <1>1, AppendedRow, UpdatedLast DEF Answer

(* Every step keeps the types, careful clients or not. *)
LEMMA TalkTypedKept == TalkTyped /\ [Next]_vars => TalkTyped'
<1> SUFFICES ASSUME TalkTyped, [Next]_vars PROVE TalkTyped'
  OBVIOUS
<1> USE DEF vars, conns
<1>0. /\ TypeOK /\ rows \in Seq(TableRow) /\ history \in [Conns -> Seq(Entry)]
      /\ \A m \in Messages : m \in Texts
      /\ \A r \in TableRow : r.text \in Texts /\ r.owner \in Texts
      /\ \A e \in Entry : e.text \in Texts
      /\ NoConn \notin Conns
  BY RowKinds, ConversationAssumption DEF TalkTyped, TypeOK, TableRow, Texts, Entry
<1>1. ASSUME NEW c \in Conns, Open(c) PROVE TalkTyped'
  BY <1>0, <1>1, Seeded DEF Open, TalkTyped, TypeOK, Working, InTurn
<1>2. ASSUME NEW c \in Conns, Connect(c) PROVE TalkTyped'
  BY <1>0, <1>2 DEF Connect, TalkTyped, TypeOK, Working, InTurn
<1>3. ASSUME NEW c \in Conns, Close(c) PROVE TalkTyped'
  BY <1>0, <1>3 DEF Close, TalkTyped, TypeOK, Working, InTurn
<1>4. ASSUME NEW c \in Conns, NEW m \in Messages, FirstMessage(c, m) PROVE TalkTyped'
  <2>1. rows' \in Seq(TableRow)
    BY <1>0, <1>4, AppendedRow DEF FirstMessage
  <2>2. history' \in [Conns -> Seq(Entry)]
    BY <1>0, <1>4, AskedIs DEF FirstMessage
  <2>3. /\ pc' = [pc EXCEPT ![c] = "running"] /\ current' = [current EXCEPT ![c] = m]
        /\ sent' = sent \cup {m} /\ UNCHANGED <<partial, lock, hook, done>>
    BY <1>4 DEF FirstMessage, BeginTurn
  <2> QED
    BY <1>0, <2>1, <2>2, <2>3 DEF TalkTyped, TypeOK, Working, InTurn, TableRow
<1>5. ASSUME NEW c \in Conns, NEW m \in Messages, Send(c, m) PROVE TalkTyped'
  BY <1>0, <1>5 DEF Send, TalkTyped, TypeOK, Working, InTurn
<1>6. ASSUME NEW c \in Conns, Acquire(c) PROVE TalkTyped'
  <2>1. current[c] \in Texts
    BY <1>6 DEF Acquire, TalkTyped, Working
  <2>2. rows' \in Seq(TableRow)
    BY <1>0, <1>6, <2>1, AppendedRow DEF Acquire
  <2>3. history' \in [Conns -> Seq(Entry)]
    BY <1>0, <1>6, <2>1, AskedIs DEF Acquire
  <2>4. /\ pc' = [pc EXCEPT ![c] = "running"] /\ current' = [current EXCEPT ![c] = current[c]]
        /\ lock' = c /\ UNCHANGED <<partial, hook, sent, done>>
    BY <1>6 DEF Acquire, BeginTurn
  <2> QED
    BY <1>0, <2>1, <2>2, <2>3, <2>4 DEF TalkTyped, TypeOK, Working, InTurn, TableRow
<1>7. ASSUME NEW c \in Conns, Regenerate(c) PROVE TalkTyped'
  <2> DEFINE u == LastUser(history[c])
             t == LastUser(rows)
  <2>1. u # 0 /\ u \in 0 .. Len(history[c]) /\ history[c] \in Seq(Entry)
    BY <1>0, <1>7, LastUserIs DEF Regenerate
  <2>2. history[c][u].text \in Texts /\ SubSeq(history[c], 1, u - 1) \in Seq(Entry)
    <3>1. u \in 1 .. Len(history[c]) /\ u - 1 \in 0 .. Len(history[c])
      BY <2>1, LenProperties
    <3> QED
      BY <1>0, <2>1, <3>1, FrontOf, ElementOfSeq
  <2>3. RemoveLastAssistantTurn(rows) \in Seq(TableRow)
    BY <1>0, RemovedTurn
  <2>4. done' \subseteq Texts
    BY <1>0, <1>7 DEF Regenerate, TypeOK
  <2>5. /\ pc[c] = "idle" /\ pc' = [pc EXCEPT ![c] = "rewinding"]
        /\ current' = [current EXCEPT ![c] = history[c][u].text]
        /\ history' = [history EXCEPT ![c] = SubSeq(@, 1, u - 1)]
        /\ rows' = RemoveLastAssistantTurn(rows)
        /\ UNCHANGED <<partial, lock, hook, sent>>
    BY <1>7 DEF Regenerate
  <2> HIDE DEF u, t
  <2> QED
    BY <1>0, <2>2, <2>3, <2>4, <2>5 DEF TalkTyped, TypeOK, Working, InTurn, TableRow
<1>8. ASSUME NEW c \in Conns, Rerun(c) PROVE TalkTyped'
  <2>1. current[c] \in Texts
    BY <1>8 DEF Rerun, TalkTyped, Working
  <2>2. history' \in [Conns -> Seq(Entry)]
    BY <1>0, <1>8, <2>1, AskedIs DEF Rerun
  <2>3. /\ pc' = [pc EXCEPT ![c] = "running"] /\ current' = [current EXCEPT ![c] = current[c]]
        /\ lock' = c /\ UNCHANGED <<rows, partial, hook, sent, done>>
    BY <1>8 DEF Rerun, BeginTurn
  <2> QED
    BY <1>0, <2>1, <2>2, <2>3 DEF TalkTyped, TypeOK, Working, InTurn
<1>9. ASSUME NEW c \in Conns, Refused(c) PROVE TalkTyped'
  BY <1>0, <1>9 DEF Refused, TalkTyped, TypeOK, Working, InTurn
<1>10. ASSUME NEW c \in Conns, ToolRound(c) PROVE TalkTyped'
  <2>1. [role |-> IF NativeTools THEN "tool" ELSE "user", text |-> Results] \in Entry
    BY DEF Entry, Texts
  <2>2. history' \in [Conns -> Seq(Entry)]
    BY <1>0, <1>10, <2>1, AppendProperties DEF ToolRound
  <2> QED
    BY <1>0, <1>10, <2>2 DEF ToolRound, TalkTyped, TypeOK, Working, InTurn
<1>11. ASSUME NEW c \in Conns, SavePartial(c) PROVE TalkTyped'
  <2>1. rows' \in Seq(TableRow)
    BY <1>11, AnswerTyped DEF SavePartial, InTurn, Answered
  <2> QED
    BY <1>0, <1>11, <2>1 DEF SavePartial, TalkTyped, TypeOK, Working, InTurn, TableRow
<1>12. ASSUME NEW c \in Conns, FinishOk(c) PROVE TalkTyped'
  <2>1. rows' \in Seq(TableRow) /\ current[c] \in Texts
    BY <1>12, AnswerTyped DEF FinishOk, InTurn, Answered, TalkTyped, Working
  <2>2. [role |-> "assistant", text |-> current[c]] \in Entry
    BY <2>1 DEF Entry
  <2>3. history' \in [Conns -> Seq(Entry)]
    BY <1>0, <1>12, <2>2, AppendProperties DEF FinishOk
  <2> QED
    BY <1>0, <1>12, <2>1, <2>3 DEF FinishOk, TalkTyped, TypeOK, Working, InTurn, TableRow
<1>13. ASSUME NEW c \in Conns, EndTurn(c), rows' \in Seq(TableRow), done' \subseteq Texts,
              history' \in [Conns -> Seq(Entry)], UNCHANGED <<hook, sent>>
       PROVE  TalkTyped'
  BY <1>0, <1>13 DEF EndTurn, TalkTyped, TypeOK, Working, InTurn, TableRow
<1>14. ASSUME NEW c \in Conns, Enrich(c) PROVE TalkTyped'
  <2> DEFINE u == LastUser(history[c])
  <2>1. history[c] \in Seq(Entry) /\ current[c] \in Texts /\ u \in 0 .. Len(history[c])
    BY <1>0, <1>14, LastUserIs DEF Enrich, TalkTyped, Working, InTurn
  <2>2. u # 0 => history[c][u].text \in Texts
    BY <1>0, <2>1, ElementOfSeq, LenProperties
  <2>3. rows' \in Seq(TableRow)
    BY <1>0, <1>14, <2>2, UpdatedLastUser DEF Enrich
  <2>4. done' \subseteq Texts
    BY <1>0, <1>14, <2>1 DEF Enrich, TypeOK
  <2> QED
    BY <1>0, <1>13, <1>14, <2>3, <2>4 DEF Enrich
<1>15. ASSUME NEW c \in Conns, FinishCancelled(c) PROVE TalkTyped'
  <2>1. rows' \in Seq(TableRow)
    BY <1>15, AnswerTyped DEF FinishCancelled, InTurn, Answered
  <2> QED
    BY <1>0, <1>13, <1>15, <2>1 DEF FinishCancelled, TypeOK
<1>16. ASSUME NEW c \in Conns, FinishError(c) PROVE TalkTyped'
  <2>1. history' \in [Conns -> Seq(Entry)]
    <3>1. CASE UNCHANGED history
      BY <1>0, <3>1
    <3>2. CASE /\ Last(history[c]) = [role |-> "user", text |-> current[c]]
               /\ history' = [history EXCEPT ![c] = Front(@)]
      <4>1. history[c] \in Seq(Entry) /\ Len(history[c]) \in Nat
        BY <1>0, LenProperties
      <4>2. CASE Len(history[c]) = 0
        <5>1. Front(history[c]) = <<>>
          BY <4>1, <4>2, SubSeqEmpty DEF Front
        <5> QED
          BY <1>0, <3>2, <5>1
      <4>3. CASE Len(history[c]) # 0
        <5>1. Len(history[c]) - 1 \in 0 .. Len(history[c])
          BY <4>1, <4>3
        <5>2. Front(history[c]) \in Seq(Entry)
          BY <4>1, <5>1, FrontOf DEF Front
        <5> QED
          BY <1>0, <3>2, <5>2
      <4> QED
        BY <4>2, <4>3
    <3> QED
      BY <1>16, <3>1, <3>2 DEF FinishError
  <2> QED
    BY <1>0, <1>13, <1>16, <2>1 DEF FinishError, TypeOK
<1>17. ASSUME NEW m \in Messages, Webhook(m) PROVE TalkTyped'
  <2>1. rows' \in Seq(TableRow)
    BY <1>0, <1>17, AppendedRow DEF Webhook
  <2> QED
    BY <1>0, <1>17, <2>1 DEF Webhook, TalkTyped, TypeOK, TableRow
<1>18. CASE WebhookAnswers
  <2>1. hook \in Texts
    BY <1>0, <1>18 DEF WebhookAnswers, TypeOK
  <2>2. rows' \in Seq(TableRow)
    BY <1>0, <1>18, <2>1, AppendedRow DEF WebhookAnswers, Answered
  <2> QED
    BY <1>0, <1>18, <2>2 DEF WebhookAnswers, TalkTyped, TypeOK, TableRow
<1>19. CASE Delete
  BY <1>0, <1>19 DEF Delete, TalkTyped, TypeOK
<1>20. CASE Crash
  BY <1>0, <1>20 DEF Crash, TalkTyped, TypeOK, Working, InTurn
<1>21. CASE UNCHANGED vars
  BY <1>0, <1>21 DEF TalkTyped, TypeOK
<1> QED
  BY <1>1, <1>2, <1>3, <1>4, <1>5, <1>6, <1>7, <1>8, <1>9, <1>10, <1>11, <1>12, <1>14, <1>15, <1>16,
     <1>17, <1>18, <1>19, <1>20, <1>21 DEF Next

-----------------------------------------------------------------------------
(* What the operators of the store do to a table that is told well. *)

(* A question joins it. *)
LEMMA QuestionTold ==
    ASSUME NEW S, NEW table \in Seq(TableRow), NEW m \in Texts, m \in S, WellTold(table, S)
    PROVE  LET t == AppendRow(table, "user", m, "raw") IN
           /\ WellTold(t, S) /\ AtQuestion(t, m)
           /\ \A d : Keeps(table, d) => Keeps(t, d)
<1> DEFINE t == AppendRow(table, "user", m, "raw")
           n == Len(table)
<1>1. /\ n \in Nat /\ Len(t) = n + 1 /\ \A i \in 1 .. n : t[i] = table[i]
      /\ t[n + 1].role = "user" /\ t[n + 1].owner = m /\ t[n + 1].text = m
  BY AppendedRow, LenProperties
<1> HIDE DEF t, n
<1>2. WellTold(t, S)
  BY <1>1 DEF WellTold, IsUser, n
<1>3. AtQuestion(t, m)
  BY <1>1 DEF AtQuestion, IsUser
<1>4. \A d : Keeps(table, d) => Keeps(t, d)
  BY <1>1 DEF Keeps, n
<1> QED
  BY <1>2, <1>3, <1>4 DEF t

(* Its answer joins the question that ends it. *)
LEMMA AnswerTold ==
    ASSUME NEW S, NEW table \in Seq(TableRow), NEW m \in Texts, NEW stage \in Answered,
           WellTold(table, S), AtQuestion(table, m)
    PROVE  LET t == AppendRow(table, "assistant", m, stage) IN
           /\ WellTold(t, S) /\ AtAnswer(t, m, {stage})
           /\ \A d : Keeps(table, d) => Keeps(t, d)
<1> DEFINE t == AppendRow(table, "assistant", m, stage)
           n == Len(table)
<1>1. /\ n \in Nat /\ Len(t) = n + 1 /\ \A i \in 1 .. n : t[i] = table[i]
      /\ t[n + 1].role = "assistant" /\ t[n + 1].text = m /\ t[n + 1].stage = stage
  BY AppendedRow, LenProperties
<1> HIDE DEF t, n
<1>2. n > 0 /\ IsUser(table[n]) /\ table[n].owner = m /\ n \in 1 .. n
  BY <1>1 DEF AtQuestion, n
<1>3. WellTold(t, S)
  BY <1>1, <1>2 DEF WellTold, IsUser, n
<1>4. AtAnswer(t, m, {stage})
  BY <1>1, <1>2 DEF AtAnswer, IsUser, IsAssistant
<1>5. \A d : Keeps(table, d) => Keeps(t, d)
  BY <1>1 DEF Keeps, n
<1> QED
  BY <1>3, <1>4, <1>5 DEF t

(* The answer that ends it is written again. *)
LEMMA AnswerRetold ==
    ASSUME NEW S, NEW table \in Seq(TableRow), NEW m \in Texts, NEW stage \in Answered,
           WellTold(table, S), AtAnswer(table, m, Answered)
    PROVE  LET t == UpdateLast(table, m, stage) IN
           /\ WellTold(t, S) /\ AtAnswer(t, m, {stage})
           /\ \A d : d # m /\ Keeps(table, d) => Keeps(t, d)
<1> DEFINE t == UpdateLast(table, m, stage)
           n == Len(table)
<1>0. /\ n \in Nat /\ n > 1 /\ IsAssistant(table[n]) /\ table[n].text = m
      /\ IsUser(table[n - 1]) /\ table[n - 1].owner = m
  BY LenProperties DEF AtAnswer
<1>1. /\ Len(t) = n /\ \A i \in 1 .. n - 1 : t[i] = table[i]
      /\ t[n].role = "assistant" /\ t[n].text = m /\ t[n].stage = stage
  BY <1>0, UpdatedLast
<1> HIDE DEF t, n
<1>2. n - 1 \in 1 .. n - 1 /\ 1 .. n = (1 .. n - 1) \cup {n}
  BY <1>0
<1>3. WellTold(t, S)
  BY <1>0, <1>1, <1>2 DEF WellTold, IsUser, n
<1>4. AtAnswer(t, m, {stage})
  BY <1>0, <1>1, <1>2 DEF AtAnswer, IsUser, IsAssistant
<1>5. \A d : d # m /\ Keeps(table, d) => Keeps(t, d)
  BY <1>0, <1>1, <1>2 DEF Keeps, IsUser, IsAssistant, n
<1> QED
  BY <1>3, <1>4, <1>5 DEF t

(* Its last question is written again as the model saw it. *)
LEMMA QuestionRetold ==
    ASSUME NEW S, NEW table \in Seq(TableRow), NEW m \in Texts,
           WellTold(table, S), AtAnswer(table, m, {"final"})
    PROVE  LET t == UpdateLastUser(table, m) IN
           /\ WellTold(t, S) /\ Keeps(t, m)
           /\ \A d : Keeps(table, d) => Keeps(t, d)
<1> DEFINE t == UpdateLastUser(table, m)
           n == Len(table)
           u == LastUser(table)
<1>0. /\ n \in Nat /\ n > 1 /\ IsAssistant(table[n]) /\ table[n].text = m
      /\ table[n].stage = "final" /\ IsUser(table[n - 1]) /\ table[n - 1].owner = m
  BY LenProperties DEF AtAnswer
<1>1. /\ u \in 0 .. n /\ (u # 0 => IsUser(table[u]))
      /\ \A k \in 1 .. n : IsUser(table[k]) => u # 0 /\ k <= u
  BY LastUserIs
<1>2. /\ Len(t) = n
      /\ u # 0 => /\ \A i \in (1 .. n) \ {u} : t[i] = table[i]
                  /\ t[u].role = "user" /\ t[u].owner = table[u].owner
                  /\ t[u].text = m /\ t[u].stage = "enriched"
  BY UpdatedLastUser
<1> HIDE DEF t, n, u
<1>3. u = n - 1
  BY <1>0, <1>1 DEF IsUser, IsAssistant
<1>4. /\ \A i \in (1 .. n) \ {u} : t[i] = table[i]
      /\ u \in 1 .. n /\ u + 1 = n /\ n \in 1 .. n
  BY <1>0, <1>2, <1>3
<1>5. t[u].role = "user" /\ t[u].owner = m /\ t[u].text = m /\ t[u].stage = "enriched"
  BY <1>0, <1>2, <1>3
<1>6. \A i \in 1 .. n : (IsUser(t[i]) <=> IsUser(table[i])) /\ t[i].owner = table[i].owner
  BY <1>0, <1>1, <1>3, <1>4, <1>5 DEF IsUser
<1>7. WellTold(t, S)
  <2> SUFFICES ASSUME NEW i \in 1 .. n
               PROVE  IF IsUser(t[i]) THEN t[i].text = t[i].owner /\ t[i].owner \in S
                      ELSE i > 1 /\ IsUser(t[i - 1]) /\ t[i - 1].owner = t[i].text
    BY <1>2 DEF WellTold
  <2>1. IF IsUser(table[i]) THEN table[i].text = table[i].owner /\ table[i].owner \in S
        ELSE i > 1 /\ IsUser(table[i - 1]) /\ table[i - 1].owner = table[i].text
    BY DEF WellTold, n
  <2>2. i > 1 => i - 1 \in 1 .. n
    BY <1>0
  <2> QED
    BY <1>0, <1>3, <1>4, <1>5, <1>6, <2>1, <2>2
<1>8. Keeps(t, m)
  BY <1>0, <1>2, <1>3, <1>4, <1>5 DEF Keeps, IsUser, IsAssistant
<1>9. ASSUME NEW d, Keeps(table, d) PROVE Keeps(t, d)
  <2>1. PICK i \in 1 .. n : IsAssistant(table[i]) /\ table[i].text = d /\ table[i].stage = "final"
    BY <1>9 DEF Keeps, n
  <2>2. PICK k \in 1 .. n : IsUser(table[k]) /\ table[k].text = d /\ table[k].stage = "enriched"
    BY <1>9 DEF Keeps, n
  <2>3. i # u
    BY <1>0, <1>3, <2>1 DEF IsUser, IsAssistant
  <2>4. k = u => d = m
    BY <1>0, <1>3, <2>2 DEF WellTold, n
  <2>5. IsUser(t[k]) /\ t[k].text = d /\ t[k].stage = "enriched"
    BY <1>4, <1>5, <2>2, <2>4 DEF IsUser
  <2>6. IsAssistant(t[i]) /\ t[i].text = d /\ t[i].stage = "final"
    BY <1>4, <2>1, <2>3
  <2> QED
    BY <1>2, <2>5, <2>6 DEF Keeps
<1> QED
  BY <1>7, <1>8, <1>9 DEF t

(* What follows its last question is removed: the answer to it, if any. *)
LEMMA TurnUntold ==
    ASSUME NEW S, NEW table \in Seq(TableRow), WellTold(table, S), LastUser(table) # 0
    PROVE  LET t == RemoveLastAssistantTurn(table)
               m == table[LastUser(table)].owner IN
           /\ WellTold(t, S) /\ AtQuestion(t, m) /\ m \in S
           /\ table[LastUser(table)].text = m
           /\ \A d : d # m /\ Keeps(table, d) => Keeps(t, d)
<1> DEFINE t == RemoveLastAssistantTurn(table)
           n == Len(table)
           u == LastUser(table)
           m == table[u].owner
<1>1. /\ n \in Nat /\ u \in 1 .. n /\ IsUser(table[u])
      /\ \A k \in 1 .. n : IsUser(table[k]) => k <= u
  <2>1. n \in Nat /\ u \in 0 .. n /\ u # 0
    BY LenProperties, LastUserIs
  <2> QED
    BY <2>1, LastUserIs
<1>2. Len(t) = u /\ \A i \in 1 .. u : t[i] = table[i]
  BY RemovedTurn
<1> HIDE DEF t, n, u
<1>3. /\ table[u].text = m /\ m \in S
      /\ \A i \in 1 .. n : ~IsUser(table[i]) =>
            i > 1 /\ IsUser(table[i - 1]) /\ table[i - 1].owner = table[i].text
  BY <1>1 DEF WellTold, n
<1>4. WellTold(t, S)
  BY <1>1, <1>2 DEF WellTold, n
<1>5. AtQuestion(t, m)
  BY <1>1, <1>2 DEF AtQuestion
<1>6. ASSUME NEW d, d # m, Keeps(table, d) PROVE Keeps(t, d)
  <2>1. PICK i \in 1 .. n : IsAssistant(table[i]) /\ table[i].text = d /\ table[i].stage = "final"
    BY <1>6 DEF Keeps, n
  <2>2. PICK k \in 1 .. n : IsUser(table[k]) /\ table[k].text = d /\ table[k].stage = "enriched"
    BY <1>6 DEF Keeps, n
  <2>3. k \in 1 .. u
    BY <1>1, <2>2
  <2>4. i \in 1 .. u
    <3>1. ~IsUser(table[i])
      BY <2>1 DEF IsUser, IsAssistant
    <3>2. i > 1 /\ IsUser(table[i - 1]) /\ table[i - 1].owner = d
      BY <1>3, <2>1, <3>1
    <3>3. i - 1 \in 1 .. n /\ i - 1 <= u /\ i - 1 # u
      BY <1>1, <1>6, <3>2
    <3> QED
      BY <1>1, <3>3
  <2> QED
    BY <1>2, <2>1, <2>2, <2>3, <2>4 DEF Keeps
<1> QED
  BY <1>3, <1>4, <1>5, <1>6 DEF t, u

-----------------------------------------------------------------------------
(* With careful clients there is one writer at a time. *)
LEMMA OneWriterKept ==
    ASSUME CarefulClients, TalkTyped, OneWriter, [Next]_vars PROVE OneWriter'
<1> USE DEF vars, conns, Writing, InTurn
<1>0. /\ pc \in [Conns -> {"closed", "handshake", "idle", "waiting", "rewinding"} \cup InTurn]
      /\ lock # NoConn => pc[lock] \in InTurn /\ lock \in Conns
      /\ NoConn \notin Conns
  BY ConversationAssumption DEF TalkTyped, TypeOK
<1>1. ASSUME NEW c \in Conns, Open(c) \/ Connect(c) \/ Close(c) PROVE OneWriter'
  <2>1. \A d \in Conns : IF d = c THEN pc[d] \in {"closed", "handshake", "idle"}
                                       /\ pc'[d] \in {"closed", "handshake", "idle"}
                         ELSE pc'[d] = pc[d]
    BY <1>0, <1>1 DEF Open, Connect, Close
  <2>2. UNCHANGED <<lock, hook>>
    BY <1>1 DEF Open, Connect, Close
  <2> QED
    BY <2>1, <2>2 DEF OneWriter, Bypassing
<1>2. ASSUME NEW c \in Conns, NEW m \in Messages, FirstMessage(c, m) PROVE OneWriter'
  <2>1. /\ hook = NoMessage /\ \A d \in Conns : pc[d] \in {"closed", "handshake", "idle"}
        /\ pc' = [pc EXCEPT ![c] = "running"] /\ UNCHANGED hook
    BY <1>2 DEF FirstMessage, BeginTurn, Careful, Quiet
  <2> QED
    BY <1>0, <2>1 DEF OneWriter, Bypassing
<1>3. ASSUME NEW c \in Conns, NEW m \in Messages, Send(c, m) PROVE OneWriter'
  <2>1. /\ ~Bypassing /\ pc' = [pc EXCEPT ![c] = "waiting"] /\ UNCHANGED <<lock, hook>>
    BY <1>3 DEF Send, Careful
  <2> QED
    BY <1>0, <2>1 DEF OneWriter, Bypassing
<1>4. ASSUME NEW c \in Conns, Acquire(c) PROVE OneWriter'
  <2>1. /\ pc[c] = "waiting" /\ lock = NoConn /\ lock' = c
        /\ pc' = [pc EXCEPT ![c] = "running"] /\ UNCHANGED hook
    BY <1>4 DEF Acquire, BeginTurn
  <2>2. hook = NoMessage /\ \A d \in Conns : ~Writing(d)
    BY <1>0, <2>1 DEF OneWriter, Bypassing
  <2> QED
    BY <1>0, <2>1, <2>2 DEF OneWriter, Bypassing
<1>5. ASSUME NEW c \in Conns, Regenerate(c) PROVE OneWriter'
  <2>1. /\ hook = NoMessage /\ \A d \in Conns : pc[d] \in {"closed", "handshake", "idle"}
        /\ pc' = [pc EXCEPT ![c] = "rewinding"] /\ UNCHANGED hook
    BY <1>5 DEF Regenerate, Careful, Quiet
  <2> QED
    BY <1>0, <2>1 DEF OneWriter, Bypassing
<1>6. ASSUME NEW c \in Conns, Rerun(c) PROVE OneWriter'
  <2>1. /\ pc[c] = "rewinding" /\ lock' = c
        /\ pc' = [pc EXCEPT ![c] = "running"] /\ UNCHANGED hook
    BY <1>6 DEF Rerun, BeginTurn
  <2>2. /\ hook = NoMessage /\ \A d \in Conns : Writing(d) => d = c
        /\ \A d \in Conns : pc[d] # "waiting"
    BY <1>0, <2>1 DEF OneWriter, Bypassing
  <2> QED
    BY <1>0, <2>1, <2>2 DEF OneWriter, Bypassing
<1>7. ASSUME NEW c \in Conns, Refused(c) PROVE OneWriter'
  <2>1. pc' = [pc EXCEPT ![c] = "idle"] /\ UNCHANGED <<lock, hook>>
    BY <1>7 DEF Refused
  <2> QED
    BY <1>0, <2>1 DEF OneWriter, Bypassing
<1>8. ASSUME NEW c \in Conns, SavePartial(c) \/ ToolRound(c) PROVE UNCHANGED <<pc, lock, hook>>
  BY <1>8 DEF SavePartial, ToolRound
<1>9. ASSUME NEW c \in Conns, FinishOk(c) PROVE OneWriter'
  <2>1. pc[c] = "running" /\ pc' = [pc EXCEPT ![c] = "stored"] /\ UNCHANGED <<lock, hook>>
    BY <1>9 DEF FinishOk
  <2> QED
    BY <1>0, <2>1 DEF OneWriter, Bypassing
<1>10. ASSUME NEW c \in Conns, Enrich(c) \/ FinishCancelled(c) \/ FinishError(c) PROVE OneWriter'
  <2>1. /\ pc[c] \in InTurn /\ pc' = [pc EXCEPT ![c] = "idle"] /\ UNCHANGED hook
        /\ lock' = IF lock = c THEN NoConn ELSE lock
    BY <1>10 DEF Enrich, FinishCancelled, FinishError, EndTurn
  <2>2. hook = NoMessage /\ \A d \in Conns : Writing(d) => d = c
    BY <1>0, <2>1 DEF OneWriter
  <2> QED
    BY <1>0, <2>1, <2>2 DEF OneWriter, Bypassing
<1>11. ASSUME NEW m \in Messages, Webhook(m) PROVE OneWriter'
  <2>1. \A d \in Conns : pc'[d] \in {"closed", "handshake", "idle"}
    BY <1>11 DEF Webhook, Careful, Quiet
  <2> QED
    BY <2>1 DEF OneWriter, Bypassing
<1>12. CASE WebhookAnswers
  <2>1. hook' = NoMessage /\ UNCHANGED <<pc, lock>>
    BY <1>12 DEF WebhookAnswers
  <2> QED
    BY <2>1 DEF OneWriter, Bypassing
<1>13. CASE Crash
  BY <1>13 DEF Crash, OneWriter, Bypassing
<1>14. CASE UNCHANGED <<pc, lock, hook>>
  BY <1>14 DEF OneWriter, Bypassing
<1>15. ASSUME Delete \/ UNCHANGED vars PROVE UNCHANGED <<pc, lock, hook>>
  BY <1>15 DEF Delete
<1> QED
  BY <1>1, <1>2, <1>3, <1>4, <1>5, <1>6, <1>7, <1>8, <1>9, <1>10, <1>11, <1>12, <1>13, <1>14, <1>15
     DEF Next

(* Nobody else works on a connection's message. *)
LEMMA OwnKept ==
    ASSUME CarefulClients, TalkTyped, OneWriter, OwnMessages, Told, [Next]_vars
    PROVE  OwnMessages'
<1> USE DEF vars, conns, Working, InTurn
<1>0. /\ pc \in [Conns -> {"closed", "handshake", "idle", "waiting", "rewinding"} \cup InTurn]
      /\ current \in [Conns -> Texts \cup {NoMessage}]
      /\ rows \in Seq(TableRow)
  BY DEF TalkTyped, TypeOK, TableRow
<1>1. ASSUME NEW c \in Conns, Open(c) \/ Connect(c) \/ Close(c) PROVE OwnMessages'
  <2>1. \A d \in Conns : pc'[d] \in Working => pc[d] \in Working
    BY <1>0, <1>1 DEF Open, Connect, Close
  <2>2. UNCHANGED <<current, sent, done>>
    BY <1>1 DEF Open, Connect, Close
  <2> QED
    BY <2>1, <2>2 DEF OwnMessages
<1>2. ASSUME NEW c \in Conns, NEW m \in Messages, m \notin sent, sent' = sent \cup {m},
             current' = [current EXCEPT ![c] = m], UNCHANGED done,
             \A d \in Conns \ {c} : pc'[d] = pc[d]
      PROVE  OwnMessages'
  BY <1>0, <1>2 DEF OwnMessages
<1>3. ASSUME NEW c \in Conns, NEW m \in Messages, FirstMessage(c, m) PROVE OwnMessages'
  BY <1>0, <1>2, <1>3 DEF FirstMessage, BeginTurn
<1>4. ASSUME NEW c \in Conns, NEW m \in Messages, Send(c, m) PROVE OwnMessages'
  BY <1>0, <1>2, <1>4 DEF Send
<1>5. ASSUME NEW c \in Conns, Acquire(c) \/ Rerun(c) PROVE OwnMessages'
  <2>1. /\ pc[c] \in Working /\ pc' = [pc EXCEPT ![c] = "running"] /\ UNCHANGED <<sent, done>>
        /\ current' = [current EXCEPT ![c] = current[c]]
    BY <1>5 DEF Acquire, Rerun, BeginTurn
  <2> QED
    BY <1>0, <2>1 DEF OwnMessages
<1>6. ASSUME NEW c \in Conns, Regenerate(c) PROVE OwnMessages'
  <2> DEFINE u == LastUser(history[c])
             t == LastUser(rows)
  <2>1. /\ t # 0 /\ history[c][u].text = rows[t].text
        /\ \A d \in Conns : pc[d] \in {"closed", "handshake", "idle"}
    BY <1>6 DEF Regenerate, Careful, Quiet, UpToDate
  <2>2. rows[t].text = rows[t].owner /\ rows[t].owner \in sent
    BY <1>0, <2>1, TurnUntold DEF Told
  <2>3. /\ current' = [current EXCEPT ![c] = history[c][u].text]
        /\ done' = done \ {rows[t].owner} /\ UNCHANGED sent
        /\ pc' = [pc EXCEPT ![c] = "rewinding"]
    BY <1>6, <2>1 DEF Regenerate
  <2> HIDE DEF u, t
  <2>4. \A d \in Conns : pc'[d] \in Working => d = c
    BY <1>0, <2>1, <2>3
  <2>5. current'[c] = rows[t].owner
    BY <1>0, <2>1, <2>2, <2>3
  <2> QED
    BY <2>2, <2>3, <2>4, <2>5 DEF OwnMessages
<1>7. ASSUME NEW c \in Conns, Refused(c) \/ FinishCancelled(c) \/ FinishError(c) PROVE OwnMessages'
  <2>1. /\ pc' = [pc EXCEPT ![c] = "idle"] /\ UNCHANGED <<sent, done>>
        /\ current' = [current EXCEPT ![c] = NoMessage]
    BY <1>7 DEF Refused, FinishCancelled, FinishError, EndTurn
  <2> QED
    BY <1>0, <2>1 DEF OwnMessages
<1>8. ASSUME NEW c \in Conns, Enrich(c) PROVE OwnMessages'
  <2>1. /\ pc[c] \in Working /\ pc' = [pc EXCEPT ![c] = "idle"] /\ UNCHANGED sent
        /\ current' = [current EXCEPT ![c] = NoMessage] /\ done' = done \cup {current[c]}
    BY <1>8 DEF Enrich, EndTurn
  <2> QED
    BY <1>0, <2>1 DEF OwnMessages
<1>9. ASSUME NEW c \in Conns, FinishOk(c) PROVE OwnMessages'
  BY <1>0, <1>9 DEF FinishOk, OwnMessages
<1>10. CASE UNCHANGED <<pc, current, sent, done>>
  BY <1>10 DEF OwnMessages
<1>11. ASSUME NEW c \in Conns, SavePartial(c) \/ ToolRound(c)
       PROVE  UNCHANGED <<pc, current, sent, done>>
  BY <1>11 DEF SavePartial, ToolRound
<1>12. ASSUME NEW m \in Messages, Webhook(m) PROVE OwnMessages'
  BY <1>12 DEF Webhook, OwnMessages
<1>13. ASSUME WebhookAnswers \/ UNCHANGED vars PROVE UNCHANGED <<pc, current, sent, done>>
  BY <1>13 DEF WebhookAnswers
<1>14. CASE Delete \/ Crash
  BY <1>14 DEF Delete, Crash, OwnMessages
<1> QED
  BY <1>1, <1>3, <1>4, <1>5, <1>6, <1>7, <1>8, <1>9, <1>10, <1>11, <1>12, <1>13, <1>14 DEF Next

(* Nothing but the question is a user message in a turn's history: tool    *)
(* results have a role of their own.                                       *)
LEMMA AskedKept ==
    ASSUME NativeTools, TalkTyped, LastIsAsked, [Next]_vars PROVE LastIsAsked'
<1> USE DEF vars, conns, InTurn
<1>0. /\ pc \in [Conns -> {"closed", "handshake", "idle", "waiting", "rewinding"} \cup InTurn]
      /\ current \in [Conns -> Texts \cup {NoMessage}] /\ history \in [Conns -> Seq(Entry)]
      /\ \A c \in Conns : pc[c] \in Working => current[c] \in Texts
      /\ \A m \in Messages : m \in Texts
  BY DEF TalkTyped, TypeOK, Texts
<1>1. ASSUME NEW c \in Conns, \A d \in Conns \ {c} : /\ pc'[d] = pc[d] /\ current'[d] = current[d]
                                                     /\ history'[d] = history[d],
             pc'[c] \notin InTurn
      PROVE  LastIsAsked'
  BY <1>1 DEF LastIsAsked, Asks
<1>2. ASSUME NEW c \in Conns, \A d \in Conns \ {c} : /\ pc'[d] = pc[d] /\ current'[d] = current[d]
                                                     /\ history'[d] = history[d],
             NEW h, history'[c] = h, NEW m, current'[c] = m, Asks(h, m)
      PROVE  LastIsAsked'
  BY <1>2 DEF LastIsAsked, Asks
<1>3. ASSUME NEW c \in Conns, Open(c) \/ Connect(c) \/ Close(c) \/ Refused(c) \/ Regenerate(c)
      PROVE  LastIsAsked'
  <2>1. /\ \A d \in Conns \ {c} : /\ pc'[d] = pc[d] /\ current'[d] = current[d]
                                  /\ history'[d] = history[d]
        /\ pc'[c] \notin InTurn
    BY <1>0, <1>3 DEF Open, Connect, Close, Refused, Regenerate
  <2> QED
    BY <1>1, <2>1
<1>4. ASSUME NEW c \in Conns, NEW m \in Messages, Send(c, m) PROVE LastIsAsked'
  BY <1>0, <1>1, <1>4 DEF Send
<1>5. ASSUME NEW c \in Conns, NEW m \in Messages, FirstMessage(c, m) PROVE LastIsAsked'
  <2>1. /\ history'[c] = Asked(history[c], m) /\ current'[c] = m
        /\ \A d \in Conns \ {c} : /\ pc'[d] = pc[d] /\ current'[d] = current[d]
                                  /\ history'[d] = history[d]
    BY <1>0, <1>5 DEF FirstMessage, BeginTurn
  <2> QED
    BY <1>0, <1>2, <2>1, AskedIs
<1>6. ASSUME NEW c \in Conns, Acquire(c) \/ Rerun(c) PROVE LastIsAsked'
  <2>1. /\ history'[c] = Asked(history[c], current[c]) /\ current'[c] = current[c]
        /\ \A d \in Conns \ {c} : /\ pc'[d] = pc[d] /\ current'[d] = current[d]
                                  /\ history'[d] = history[d]
        /\ current[c] \in Texts
    BY <1>0, <1>6 DEF Acquire, Rerun, BeginTurn, Working
  <2> QED
    BY <1>0, <1>2, <2>1, AskedIs
<1>7. ASSUME NEW c \in Conns, ToolRound(c) PROVE LastIsAsked'
  <2> DEFINE e == [role |-> "tool", text |-> Results]
  <2>1. e \in Entry /\ e.role # "user"
    BY DEF Entry, Texts
  <2> HIDE DEF e
  <2>2. /\ history'[c] = Append(history[c], e) /\ current'[c] = current[c]
        /\ \A d \in Conns \ {c} : /\ pc'[d] = pc[d] /\ current'[d] = current[d]
                                  /\ history'[d] = history[d]
        /\ Asks(history[c], current[c])
    BY <1>0, <1>7 DEF ToolRound, LastIsAsked, e
  <2> QED
    BY <1>0, <1>2, <2>1, <2>2, AsksStill
<1>8. ASSUME NEW c \in Conns, FinishOk(c) PROVE LastIsAsked'
  <2> DEFINE e == [role |-> "assistant", text |-> current[c]]
  <2>1. e \in Entry /\ e.role # "user"
    BY <1>0, <1>8 DEF Entry, FinishOk, Working
  <2> HIDE DEF e
  <2>2. /\ history'[c] = Append(history[c], e) /\ current'[c] = current[c]
        /\ \A d \in Conns \ {c} : /\ pc'[d] = pc[d] /\ current'[d] = current[d]
                                  /\ history'[d] = history[d]
        /\ Asks(history[c], current[c])
    BY <1>0, <1>8 DEF FinishOk, LastIsAsked, e
  <2> QED
    BY <1>0, <1>2, <2>1, <2>2, AsksStill
<1>9. ASSUME NEW c \in Conns, Enrich(c) \/ FinishCancelled(c) \/ FinishError(c) PROVE LastIsAsked'
  <2>1. /\ \A d \in Conns \ {c} : /\ pc'[d] = pc[d] /\ current'[d] = current[d]
                                  /\ history'[d] = history[d]
        /\ pc'[c] \notin InTurn
    BY <1>0, <1>9 DEF Enrich, FinishCancelled, FinishError, EndTurn
  <2> QED
    BY <1>1, <2>1
<1>10. CASE Crash
  BY <1>10 DEF Crash, LastIsAsked
<1>11. CASE UNCHANGED <<pc, current, history>>
  BY <1>11 DEF LastIsAsked
<1>12. ASSUME NEW m \in Messages, Webhook(m) PROVE UNCHANGED <<pc, current, history>>
  BY <1>12 DEF Webhook
<1>13. ASSUME WebhookAnswers \/ Delete \/ UNCHANGED vars PROVE UNCHANGED <<pc, current, history>>
  BY <1>13 DEF WebhookAnswers, Delete
<1>14. ASSUME NEW c \in Conns, SavePartial(c) PROVE UNCHANGED <<pc, current, history>>
  BY <1>14 DEF SavePartial
<1> QED
  BY <1>3, <1>4, <1>5, <1>6, <1>7, <1>8, <1>9, <1>10, <1>11, <1>12, <1>13, <1>14 DEF Next

-----------------------------------------------------------------------------
(* More messages were sent: what was told well still is. *)
LEMMA MoreSent ==
    ASSUME NEW table, NEW S, NEW R, S \subseteq R, WellTold(table, S) PROVE WellTold(table, R)
BY DEF WellTold

(* A writer's answer, or as much of it as there is, goes where it belongs. *)
LEMMA AnswerKept ==
    ASSUME TalkTyped, OwnMessages, Told, LastIsWritten, NEW c \in Conns, pc[c] = "running",
           NEW stage \in Answered, Answer(c, stage)
    PROVE  /\ WellTold(rows', sent) /\ AtAnswer(rows', current[c], {stage})
           /\ \A d \in done : Keeps(rows', d)
<1>1. /\ rows \in Seq(TableRow) /\ current[c] \in Texts /\ partial \in [Conns -> BOOLEAN]
      /\ current[c] \notin done /\ WellTold(rows, sent) /\ \A d \in done : Keeps(rows, d)
  BY DEF TalkTyped, TypeOK, TableRow, Working, InTurn, OwnMessages, Told
<1>2. CASE partial[c]
  <2>1. AtAnswer(rows, current[c], Answered) /\ rows' = UpdateLast(rows, current[c], stage)
    BY <1>2 DEF LastIsWritten, Answer
  <2> QED
    BY <1>1, <2>1, AnswerRetold
<1>3. CASE ~partial[c]
  <2>1. AtQuestion(rows, current[c]) /\ rows' = AppendRow(rows, "assistant", current[c], stage)
    BY <1>3 DEF LastIsWritten, Answer
  <2> QED
    BY <1>1, <2>1, AnswerTold
<1> QED
  BY <1>2, <1>3

(* Every step keeps the table well told, and the writer where it writes. *)
LEMMA TableKept ==
    ASSUME CarefulClients, TalkInv, [Next]_vars PROVE Told' /\ LastIsWritten'
<1> USE DEF vars, conns
<1>0. /\ pc \in [Conns -> {"closed", "handshake", "idle", "waiting", "rewinding"} \cup InTurn]
      /\ current \in [Conns -> Texts \cup {NoMessage}] /\ partial \in [Conns -> BOOLEAN]
      /\ rows \in Seq(TableRow) /\ history \in [Conns -> Seq(Entry)]
      /\ \A d \in Conns : partial[d] => pc[d] \in InTurn
      /\ \A d \in Conns : pc[d] \in Working => current[d] \in Texts /\ current[d] \in sent
      /\ WellTold(rows, sent) /\ \A d \in done : Keeps(rows, d)
      /\ \A m \in Messages : m \in Texts /\ m # NoMessage
  BY ConversationAssumption
     DEF TalkInv, TalkTyped, TypeOK, TableRow, OwnMessages, Told, Texts
(* The only writer moves on. *)
<1>1. ASSUME NEW c \in Conns, hook' = NoMessage, \A d \in Conns \ {c} : ~Writing(d)',
             \/ ~Writing(c)'
             \/ (pc'[c] \in {"running", "rewinding"} /\ ~partial'[c]) /\ AtQuestion(rows', current'[c])
             \/ pc'[c] = "running" /\ partial'[c] /\ AtAnswer(rows', current'[c], Answered)
             \/ pc'[c] = "stored" /\ AtAnswer(rows', current'[c], {"final"})
      PROVE  LastIsWritten'
  <2>1. ASSUME NEW d \in Conns, d # c
        PROVE  pc'[d] \notin {"rewinding", "running", "stored"}
    BY <1>1, <2>1 DEF Writing, InTurn
  <2> QED
    BY <1>1, <2>1 DEF LastIsWritten, Writing, InTurn
(* Nobody writes. *)
<1>2. ASSUME hook' = NoMessage, \A d \in Conns : ~Writing(d)' PROVE LastIsWritten'
  BY <1>2 DEF LastIsWritten, Writing, InTurn
(* Who writes stays where it was. *)
<1>3. ASSUME rows' = rows, hook' \in {hook, NoMessage},
             \A d \in Conns : Writing(d)' => /\ pc'[d] = pc[d] /\ current'[d] = current[d]
                                             /\ partial'[d] = partial[d]
      PROVE  LastIsWritten'
  <2>1. /\ hook # NoMessage => AtQuestion(rows, hook)
        /\ \A d \in Conns :
              /\ pc[d] = "rewinding" \/ (pc[d] = "running" /\ ~partial[d]) => AtQuestion(rows, current[d])
              /\ pc[d] = "running" /\ partial[d] => AtAnswer(rows, current[d], Answered)
              /\ pc[d] = "stored" => AtAnswer(rows, current[d], {"final"})
    BY DEF TalkInv, LastIsWritten
  <2> QED
    BY <1>3, <2>1 DEF LastIsWritten, Writing, InTurn
(* The table stays as it was. *)
<1>4. ASSUME rows' = rows, done' \subseteq done, sent \subseteq sent' PROVE Told'
  <2>1. WellTold(rows, sent')
    BY <1>0, <1>4, MoreSent
  <2> QED
    BY <1>0, <1>4, <2>1 DEF Told
<1>5. ASSUME WellTold(rows', sent'), \A d \in done' : Keeps(rows', d) PROVE Told'
  BY <1>5 DEF Told
<1>6. ASSUME NEW c \in Conns, Writing(c)
      PROVE  hook = NoMessage /\ \A d \in Conns \ {c} : ~Writing(d)
  BY <1>6 DEF TalkInv, OneWriter
<1>7. ASSUME Quiet PROVE hook = NoMessage /\ \A d \in Conns : ~Writing(d)
  BY <1>7 DEF Quiet, Writing, InTurn
(* The connections come, go and wait. *)
<1>8. ASSUME NEW c \in Conns, Open(c) \/ Connect(c) \/ Close(c) \/ Refused(c)
      PROVE  Told' /\ LastIsWritten'
  <2>1. /\ UNCHANGED <<rows, hook, done, sent>> /\ pc'[c] \in {"handshake", "idle", "closed"}
        /\ \A d \in Conns \ {c} : pc'[d] = pc[d] /\ current'[d] = current[d] /\ partial'[d] = partial[d]
    BY <1>0, <1>8 DEF Open, Connect, Close, Refused
  <2>2. \A d \in Conns : Writing(d)' => d # c
    BY <2>1 DEF Writing, InTurn
  <2> QED
    BY <1>3, <1>4, <2>1, <2>2
<1>9. ASSUME NEW c \in Conns, NEW m \in Messages, Send(c, m) PROVE Told' /\ LastIsWritten'
  <2>1. /\ UNCHANGED <<rows, hook, done>> /\ sent \subseteq sent' /\ pc'[c] = "waiting"
        /\ \A d \in Conns \ {c} : pc'[d] = pc[d] /\ current'[d] = current[d] /\ partial'[d] = partial[d]
    BY <1>0, <1>9 DEF Send
  <2>2. \A d \in Conns : Writing(d)' => d # c
    BY <2>1 DEF Writing, InTurn
  <2> QED
    BY <1>3, <1>4, <2>1, <2>2
(* A question joins the table. *)
<1>10. ASSUME NEW c \in Conns, NEW m \in Messages, FirstMessage(c, m) PROVE Told' /\ LastIsWritten'
  <2>1. /\ Quiet /\ rows' = AppendRow(rows, "user", m, "raw") /\ sent' = sent \cup {m}
        /\ pc[c] = "handshake" /\ pc'[c] = "running" /\ current'[c] = m
        /\ \A d \in Conns \ {c} : pc'[d] = pc[d]
        /\ UNCHANGED <<hook, done, partial>>
    BY <1>0, <1>10 DEF FirstMessage, Careful, BeginTurn
  <2>2. WellTold(rows, sent')
    BY <1>0, <2>1, MoreSent
  <2>3. /\ WellTold(rows', sent') /\ AtQuestion(rows', m)
        /\ \A d \in done : Keeps(rows', d)
    BY <1>0, <2>1, <2>2, QuestionTold
  <2>4. hook' = NoMessage /\ (\A d \in Conns \ {c} : ~Writing(d)') /\ ~partial'[c]
    BY <1>0, <1>7, <2>1 DEF Writing, InTurn
  <2> QED
    BY <1>1, <1>5, <2>1, <2>3, <2>4
<1>11. ASSUME NEW c \in Conns, Acquire(c) PROVE Told' /\ LastIsWritten'
  <2>1. /\ pc[c] = "waiting" /\ lock = NoConn
        /\ rows' = AppendRow(rows, "user", current[c], "raw")
        /\ pc'[c] = "running" /\ current'[c] = current[c]
        /\ \A d \in Conns \ {c} : pc'[d] = pc[d]
        /\ UNCHANGED <<hook, done, sent, partial>>
    BY <1>0, <1>11 DEF Acquire, BeginTurn
  <2>2. hook = NoMessage /\ \A d \in Conns : ~Writing(d)
    <3>1. \A d \in Conns : lock # d
      BY <2>1, ConversationAssumption
    <3> QED
      BY <2>1, <3>1 DEF TalkInv, OneWriter, Bypassing, Writing, InTurn
  <2>3. current[c] \in Texts /\ current[c] \in sent /\ ~partial'[c]
    BY <1>0, <2>1 DEF Working, InTurn
  <2>4. /\ WellTold(rows', sent') /\ AtQuestion(rows', current[c])
        /\ \A d \in done : Keeps(rows', d)
    BY <1>0, <2>1, <2>3, QuestionTold
  <2>5. hook' = NoMessage /\ \A d \in Conns \ {c} : ~Writing(d)'
    BY <2>1, <2>2 DEF Writing
  <2> QED
    BY <1>1, <1>5, <2>1, <2>3, <2>4, <2>5
<1>12. ASSUME NEW m \in Messages, Webhook(m) PROVE Told' /\ LastIsWritten'
  <2>1. /\ Quiet /\ rows' = AppendRow(rows, "user", m, "raw") /\ sent' = sent \cup {m}
        /\ hook' = m /\ UNCHANGED <<pc, current, partial, done>>
    BY <1>12 DEF Webhook, Careful
  <2>2. WellTold(rows, sent')
    BY <1>0, <2>1, MoreSent
  <2>3. /\ WellTold(rows', sent') /\ AtQuestion(rows', m)
        /\ \A d \in done : Keeps(rows', d)
    BY <1>0, <2>1, <2>2, QuestionTold
  <2>4. LastIsWritten'
    BY <1>7, <2>1, <2>3 DEF LastIsWritten, Writing, InTurn
  <2> QED
    BY <1>5, <2>1, <2>3, <2>4
(* Regeneration. *)
<1>13. ASSUME NEW c \in Conns, Regenerate(c) PROVE Told' /\ LastIsWritten'
  <2> DEFINE u == LastUser(history[c])
             t == LastUser(rows)
             m == rows[t].owner
  <2>1. /\ Quiet /\ t # 0 /\ history[c][u].text = rows[t].text
        /\ pc[c] = "idle" /\ pc'[c] = "rewinding" /\ current'[c] = history[c][u].text
        /\ \A d \in Conns \ {c} : pc'[d] = pc[d]
        /\ rows' = RemoveLastAssistantTurn(rows) /\ done' = done \ {m}
        /\ UNCHANGED <<hook, sent, partial>>
    BY <1>0, <1>13 DEF Regenerate, Careful, UpToDate
  <2>2. /\ WellTold(rows', sent) /\ AtQuestion(rows', m) /\ rows[t].text = m
        /\ \A d : d # m /\ Keeps(rows, d) => Keeps(rows', d)
    BY <1>0, <2>1, TurnUntold
  <2> HIDE DEF u, t, m
  <2>3. hook' = NoMessage /\ (\A d \in Conns \ {c} : ~Writing(d)') /\ ~partial'[c]
    BY <1>0, <1>7, <2>1 DEF Writing, InTurn
  <2>4. Told'
    BY <1>0, <1>5, <2>1, <2>2
  <2> QED
    BY <1>1, <2>1, <2>2, <2>3, <2>4
<1>14. ASSUME NEW c \in Conns, Rerun(c) PROVE Told' /\ LastIsWritten'
  <2>1. /\ pc[c] = "rewinding" /\ pc'[c] = "running" /\ current'[c] = current[c]
        /\ \A d \in Conns \ {c} : pc'[d] = pc[d]
        /\ UNCHANGED <<rows, hook, done, sent, partial>>
    BY <1>0, <1>14 DEF Rerun, BeginTurn
  <2>2. /\ hook' = NoMessage /\ \A d \in Conns \ {c} : ~Writing(d)'
    BY <1>6, <2>1 DEF Writing, InTurn
  <2>3. ~partial'[c] /\ AtQuestion(rows', current'[c])
    BY <1>0, <2>1 DEF TalkInv, LastIsWritten, InTurn
  <2> QED
    BY <1>1, <1>4, <2>1, <2>2, <2>3
(* The answer. *)
<1>15. ASSUME NEW c \in Conns, pc[c] = "running", NEW stage \in Answered, Answer(c, stage)
       PROVE  /\ WellTold(rows', sent) /\ AtAnswer(rows', current[c], {stage})
              /\ \A d \in done : Keeps(rows', d)
              /\ hook = NoMessage /\ \A d \in Conns \ {c} : ~Writing(d)
  <2>1. hook = NoMessage /\ \A d \in Conns \ {c} : ~Writing(d)
    BY <1>6, <1>15 DEF Writing, InTurn
  <2> QED
    BY <1>15, <2>1, AnswerKept DEF TalkInv
<1>16. ASSUME NEW c \in Conns, SavePartial(c) PROVE Told' /\ LastIsWritten'
  <2>1. /\ pc[c] = "running" /\ Answer(c, "partial") /\ partial'[c]
        /\ UNCHANGED <<pc, current, hook, done, sent>>
    BY <1>0, <1>16 DEF SavePartial
  <2>2. /\ WellTold(rows', sent) /\ AtAnswer(rows', current[c], {"partial"})
        /\ \A d \in done : Keeps(rows', d)
        /\ hook = NoMessage /\ \A d \in Conns \ {c} : ~Writing(d)
    BY <1>15, <2>1 DEF Answered
  <2>3. AtAnswer(rows', current'[c], Answered)
    BY <2>1, <2>2 DEF AtAnswer, Answered
  <2>4. \A d \in Conns \ {c} : ~Writing(d)'
    BY <2>1, <2>2 DEF Writing
  <2> QED
    BY <1>1, <1>5, <2>1, <2>2, <2>3, <2>4
<1>17. ASSUME NEW c \in Conns, FinishOk(c) PROVE Told' /\ LastIsWritten'
  <2>1. /\ pc[c] = "running" /\ Answer(c, "final") /\ pc'[c] = "stored"
        /\ \A d \in Conns \ {c} : pc'[d] = pc[d]
        /\ UNCHANGED <<current, hook, done, sent>>
    BY <1>0, <1>17 DEF FinishOk
  <2>2. /\ WellTold(rows', sent) /\ AtAnswer(rows', current[c], {"final"})
        /\ \A d \in done : Keeps(rows', d)
        /\ hook = NoMessage /\ \A d \in Conns \ {c} : ~Writing(d)
    BY <1>15, <2>1 DEF Answered
  <2>3. \A d \in Conns \ {c} : ~Writing(d)'
    BY <2>1, <2>2 DEF Writing
  <2> QED
    BY <1>1, <1>5, <2>1, <2>2, <2>3
<1>18. ASSUME NEW c \in Conns, FinishCancelled(c) PROVE Told' /\ LastIsWritten'
  <2>1. /\ pc[c] = "running" /\ Answer(c, "interrupted") /\ pc'[c] = "idle"
        /\ \A d \in Conns \ {c} : pc'[d] = pc[d]
        /\ UNCHANGED <<hook, done, sent>>
    BY <1>0, <1>18 DEF FinishCancelled, EndTurn
  <2>2. /\ WellTold(rows', sent)
        /\ \A d \in done : Keeps(rows', d)
        /\ hook = NoMessage /\ \A d \in Conns \ {c} : ~Writing(d)
    BY <1>15, <2>1 DEF Answered
  <2>3. \A d \in Conns : ~Writing(d)'
    BY <2>1, <2>2 DEF Writing, InTurn
  <2> QED
    BY <1>2, <1>5, <2>1, <2>2, <2>3
<1>19. ASSUME NEW c \in Conns, FinishError(c) PROVE Told' /\ LastIsWritten'
  <2>1. /\ UNCHANGED <<rows, hook, done, sent>> /\ pc'[c] = "idle"
        /\ \A d \in Conns \ {c} : pc'[d] = pc[d] /\ current'[d] = current[d] /\ partial'[d] = partial[d]
    BY <1>0, <1>19 DEF FinishError, EndTurn
  <2>2. \A d \in Conns : Writing(d)' => d # c
    BY <2>1 DEF Writing, InTurn
  <2> QED
    BY <1>3, <1>4, <2>1, <2>2
(* The question is written again, and the client told. *)
<1>20. ASSUME NEW c \in Conns, Enrich(c) PROVE Told' /\ LastIsWritten'
  <2> DEFINE u == LastUser(history[c])
             m == current[c]
  <2>1. /\ pc[c] = "stored" /\ done' = done \cup {m} /\ pc'[c] = "idle"
        /\ rows' = IF u = 0 THEN rows ELSE UpdateLastUser(rows, history[c][u].text)
        /\ \A d \in Conns \ {c} : pc'[d] = pc[d]
        /\ UNCHANGED <<hook, sent>>
    BY <1>0, <1>20 DEF Enrich, EndTurn
  <2>2. m \in Texts /\ history[c] \in Seq(Entry) /\ Asks(history[c], m)
    BY <1>0, <2>1 DEF TalkInv, LastIsAsked, Working, InTurn
  <2>3. u # 0 /\ history[c][u].text = m
    BY <2>2, AskedLast
  <2>4. AtAnswer(rows, m, {"final"})
    BY <2>1 DEF TalkInv, LastIsWritten
  <2> HIDE DEF u, m
  <2>5. /\ WellTold(rows', sent) /\ Keeps(rows', m)
        /\ \A d : Keeps(rows, d) => Keeps(rows', d)
    BY <1>0, <2>1, <2>2, <2>3, <2>4, QuestionRetold
  <2>6. hook' = NoMessage /\ \A d \in Conns : ~Writing(d)'
    BY <1>6, <2>1 DEF Writing, InTurn
  <2> QED
    BY <1>0, <1>2, <1>5, <2>1, <2>5, <2>6
<1>21. ASSUME NEW c \in Conns, ToolRound(c) PROVE Told' /\ LastIsWritten'
  <2>1. UNCHANGED <<rows, pc, current, partial, hook, sent, done>>
    BY <1>21 DEF ToolRound
  <2> QED
    BY <1>3, <1>4, <2>1
(* The other writers, and the process. *)
<1>22. CASE WebhookAnswers
  <2>1. /\ hook # NoMessage /\ hook \in Texts /\ AtQuestion(rows, hook)
        /\ \A d \in Conns : ~Writing(d)
    BY <1>0, <1>22 DEF WebhookAnswers, TalkInv, TalkTyped, TypeOK, OneWriter, LastIsWritten
  <2>2. /\ hook' = NoMessage /\ UNCHANGED <<pc, current, partial, sent, done>>
        /\ rows' = AppendRow(rows, "assistant", hook, "final") \/ rows' = rows
    BY <1>22 DEF WebhookAnswers
  <2>3. LastIsWritten'
    BY <1>2, <2>1, <2>2 DEF Writing
  <2>4. CASE rows' = AppendRow(rows, "assistant", hook, "final")
    <3>1. WellTold(rows', sent) /\ \A d \in done : Keeps(rows', d)
      BY <1>0, <2>1, <2>4, AnswerTold DEF Answered
    <3> QED
      BY <1>5, <2>2, <2>3, <3>1
  <2>5. CASE rows' = rows
    BY <1>4, <2>2, <2>3, <2>5
  <2> QED
    BY <2>2, <2>4, <2>5
<1>23. CASE Delete
  <2>1. /\ Quiet /\ rows' = <<>> /\ done' = {} /\ UNCHANGED <<pc, hook>>
    BY <1>23 DEF Delete, Careful
  <2>2. Len(rows') = 0
    BY <2>1
  <2>3. Told'
    BY <2>1, <2>2 DEF Told, WellTold
  <2>4. hook' = NoMessage /\ \A d \in Conns : ~Writing(d)'
    BY <1>7, <2>1 DEF Writing
  <2> QED
    BY <1>2, <2>3, <2>4
<1>24. CASE Crash
  <2>1. /\ hook' = NoMessage /\ UNCHANGED <<rows, sent, done>>
        /\ \A d \in Conns : ~Writing(d)'
    BY <1>24 DEF Crash, Writing, InTurn
  <2> QED
    BY <1>2, <1>4, <2>1
<1>25. CASE UNCHANGED vars
  BY <1>3, <1>4, <1>25
<1> QED
  BY <1>8, <1>9, <1>10, <1>11, <1>12, <1>13, <1>14, <1>16, <1>17, <1>18, <1>19, <1>20, <1>21,
     <1>22, <1>23, <1>24, <1>25 DEF Next

(* Every step keeps the invariant. *)
LEMMA TalkInvHolds == ASSUME CarefulClients, NativeTools PROVE Spec => []TalkInv
<1>1. TalkInv /\ [Next]_vars => TalkInv'
  BY TalkTypedKept, OneWriterKept, OwnKept, TableKept, AskedKept DEF TalkInv
<1> QED
  BY <1>1, TalkInit, PTL DEF Spec

-----------------------------------------------------------------------------
(* Type correctness, whatever the clients do and the provider supports. *)
THEOREM TalkTypeCorrect == Spec => []TypeOK
<1>1. Init => TalkTyped
  BY TalkInit DEF TalkInv
<1>2. TalkTyped => TypeOK
  BY DEF TalkTyped
<1> QED
  BY <1>1, <1>2, TalkTypedKept, PTL DEF Spec

(* A table of the invariant is what its three readers expect. *)
LEMMA TalkInvShows == TalkInv => QuestionsKept /\ AnswersInPlace /\ AnswersKept
<1> SUFFICES ASSUME TalkInv PROVE QuestionsKept /\ AnswersInPlace /\ AnswersKept
  OBVIOUS
<1>1. /\ rows \in Seq(TableRow) /\ DOMAIN rows = 1 .. Len(rows)
      /\ WellTold(rows, sent) /\ \A m \in done : Keeps(rows, m)
  BY DEF TalkInv, TalkTyped, TypeOK, TableRow, Told
<1>2. QuestionsKept
  BY <1>1 DEF QuestionsKept, WellTold
<1>3. AnswersInPlace
  BY <1>1 DEF AnswersInPlace, WellTold, IsUser, IsAssistant
<1>4. AnswersKept
  BY <1>1 DEF AnswersKept, Keeps
<1> QED
  BY <1>2, <1>3, <1>4

(* With careful clients and native tool messages no turn's end overwrites  *)
(* another turn's question: update_last_user finds the right row.          *)
THEOREM QuestionsStay == ASSUME CarefulClients, NativeTools PROVE Spec => []QuestionsKept
BY TalkInvHolds, TalkInvShows, PTL

(* So does update_last_message: an answer stands under its question.       *)
THEOREM AnswersFollow == ASSUME CarefulClients, NativeTools PROVE Spec => []AnswersInPlace
BY TalkInvHolds, TalkInvShows, PTL

(* What a client was told is done stays in the table, with the question as *)
(* the model saw it, across every later turn, regeneration and crash.      *)
THEOREM AnswersStay == ASSUME CarefulClients, NativeTools PROVE Spec => []AnswersKept
BY TalkInvHolds, TalkInvShows, PTL

=============================================================================
