--------------------------- MODULE ClientsProofs ----------------------------
(***************************************************************************)
(* What clients do, for any clients and sessions: answer a turn's question *)
(* (AskUser), and call the webhook (Webhook).  The two share no name and   *)
(* no state; each has its invariant and theorems in a section of its own.  *)
(***************************************************************************)
EXTENDS AskUser, Webhook, FiniteSetTheorems, SequenceLemmas, TLAPS

-----------------------------------------------------------------------------
(***************************************************************************)
(* Questions to the user, for any connections, sessions, questions and     *)
(* turns.  The invariant says what the manager and the oneshot channel     *)
(* hold of a question in each stage of its tool call (Life), that a call   *)
(* under way belongs to a turn that runs (Live), and which connections     *)
(* know of it (Known).                                                     *)
(***************************************************************************)

Untouched(q) == oneshot[q] = "empty" /\ accepts[q] = 0
Answered(q) == oneshot[q] = "answer" /\ accepts[q] = 1
Dropped(q) == oneshot[q] = "cancelled" /\ accepts[q] = 0

Life ==
    \A q \in Questions :
        /\ ask[q] \in {"fresh", "called"} =>
              q \notin pending /\ Untouched(q) /\ result[q] = "none"
        /\ ask[q] = "waiting" =>
              /\ result[q] = "none"
              /\ \/ q \in pending /\ Untouched(q)
                 \/ q \notin pending /\ (Answered(q) \/ Dropped(q))
        /\ ask[q] = "expired" =>
              /\ result[q] = "none"
              /\ \/ q \in pending /\ Untouched(q)
                 \/ q \notin pending /\ ((Answered(q) /\ q \in late) \/ Dropped(q))
        /\ ask[q] = "returned" =>
              /\ q \notin pending
              /\ \/ result[q] = oneshot[q] /\ (Answered(q) \/ Dropped(q))
                 \/ /\ result[q] = "expired"
                    /\ Untouched(q) \/ Dropped(q) \/ (Answered(q) /\ q \in late)

Live ==
    /\ \A c \in Conns : phase[c] \in {"registering", "running", "ending"} <=> turn[c] # NoTurn
    /\ \A q \in Questions : ask[q] \in {"called", "waiting", "expired"} =>
          /\ asker[q] \in Conns \X Turns
          /\ phase[asker[q][1]] = "running" /\ turn[asker[q][1]] = asker[q][2]

Known ==
    \A c \in Conns, q \in pending :
        (/\ conn[c] \in {"handshake", "open"} /\ SessionOfQ(q) = SessionOf[c]
         /\ <<c, q>> \notin missed)
            => q \in seen[c] \cup feed[c]

IInv == TypeOK /\ Life /\ Live /\ Known

-----------------------------------------------------------------------------
USE AskUserAssumption DEF NoTurn, Turns, NoOne

(* Nobody has asked anything yet.                                          *)
LEMMA InvInit == Init => IInv
<1> SUFFICES ASSUME Init PROVE IInv
  OBVIOUS
<1>1. TypeOK
  BY DEF Init, TypeOK
<1>2. Life /\ Live /\ Known
  BY DEF Init, Life, Live, Known, Untouched
<1> QED
  BY <1>1, <1>2 DEF IInv

-----------------------------------------------------------------------------
(* A step keeps the variables in their types.                              *)
LEMMA TypeStep == TypeOK /\ Live /\ [Next]_vars => TypeOK'
<1> SUFFICES ASSUME TypeOK, Live, [Next]_vars PROVE TypeOK'
  OBVIOUS
<1>0. \A c \in Conns : phase[c] = "running" => turn[c] \in Turns
  BY DEF TypeOK, Live
<1> USE DEF TypeOK, connVars, toolVars, managerVars, shownVars, abortVars
<1>1. ASSUME NEW c \in Conns, SendPending(c) PROVE TypeOK'
  BY <1>1 DEF SendPending
<1>2. ASSUME NEW c \in Conns, Subscribe(c) PROVE TypeOK'
  BY <1>2 DEF Subscribe
<1>3. ASSUME NEW c \in Conns, Close(c) PROVE TypeOK'
  BY <1>0, <1>3 DEF Close
<1>4. ASSUME NEW c \in Conns, Message(c) PROVE TypeOK'
  BY <1>4 DEF Message
<1>5. ASSUME NEW c \in Conns, BeginTurn(c) PROVE TypeOK'
  BY <1>5 DEF BeginTurn
<1>6. ASSUME NEW c \in Conns, Refused(c) PROVE TypeOK'
  BY <1>6 DEF Refused
<1>7. ASSUME NEW c \in Conns, RegisterToken(c) PROVE TypeOK'
  BY <1>7 DEF RegisterToken
<1>8. ASSUME NEW c \in Conns, CallTools(c) PROVE TypeOK'
  BY <1>0, <1>8 DEF CallTools
<1>9. ASSUME NEW c \in Conns, EndTurn(c) PROVE TypeOK'
  BY <1>9 DEF EndTurn
<1>10. ASSUME NEW c \in Conns, Unregister(c) PROVE TypeOK'
  BY <1>10 DEF Unregister
<1>11. ASSUME NEW c \in Conns, AbortFrame(c) PROVE TypeOK'
  BY <1>0, <1>11 DEF AbortFrame, CancelTurn
<1>12. ASSUME NEW c \in Conns, NEW q \in Questions, ShowEvent(c, q) PROVE TypeOK'
  BY <1>12 DEF ShowEvent
<1>13. ASSUME NEW c \in Conns, NEW q \in Questions, Answer(c, q) PROVE TypeOK'
  BY <1>13 DEF Answer, Accept
<1>14. ASSUME NEW q \in Questions, Ask(q) PROVE TypeOK'
  BY <1>14 DEF Ask
<1>15. ASSUME NEW q \in Questions, Receive(q) PROVE TypeOK'
  BY <1>15 DEF Receive, Returns
<1>16. ASSUME NEW q \in Questions, Fire(q) PROVE TypeOK'
  BY <1>16 DEF Fire
<1>17. ASSUME NEW q \in Questions, Expire(q) PROVE TypeOK'
  BY <1>17 DEF Expire, Returns
<1>18. ASSUME NEW s \in Sessions, AbortToken(s) PROVE TypeOK'
  <2>1. tokens[s] \in Turns
    BY <1>18 DEF AbortToken
  <2> QED
    BY <1>18, <2>1 DEF AbortToken
<1>19. ASSUME NEW s \in Sessions, AbortQuestions(s) PROVE TypeOK'
  BY <1>19 DEF AbortQuestions, CancelTurn
<1>20. CASE UNCHANGED vars
  BY <1>20 DEF vars
<1> QED
  BY <1>1, <1>2, <1>3, <1>4, <1>5, <1>6, <1>7, <1>8, <1>9, <1>10, <1>11, <1>12, <1>13,
     <1>14, <1>15, <1>16, <1>17, <1>18, <1>19, <1>20 DEF Next

-----------------------------------------------------------------------------
(* What a cancelled turn does to its questions, and to no others. *)
LEMMA CancelLife ==
    ASSUME TypeOK, Life, NEW s, NEW t, CancelTurn(s, t),
           UNCHANGED <<ask, result, accepts, late>>
    PROVE  Life'
<1> DEFINE hit == {q \in pending : SessionOfQ(q) = s /\ TurnOf(q) = t}
<1>1. /\ pending' = pending \ hit /\ hit \subseteq pending
      /\ oneshot' = [q \in Questions |-> IF q \in hit THEN "cancelled" ELSE oneshot[q]]
  BY DEF CancelTurn
<1> HIDE DEF hit
<1> QED
  BY <1>1 DEF TypeOK, Life, Untouched, Answered, Dropped

(* A question is waited for, answered or dropped, and then returned.       *)
LEMMA LifeStep == TypeOK /\ Life /\ [Next]_vars => Life'
<1> SUFFICES ASSUME TypeOK, Life, [Next]_vars PROVE Life'
  OBVIOUS
<1> USE DEF toolVars, managerVars
<1>1. ASSUME UNCHANGED <<ask, result, oneshot, accepts, pending, late>> PROVE Life'
  BY <1>1 DEF Life, Untouched, Answered, Dropped
<1>2. ASSUME NEW c \in Conns,
             \/ SendPending(c) \/ Subscribe(c) \/ Close(c) \/ Message(c) \/ BeginTurn(c)
             \/ Refused(c) \/ RegisterToken(c) \/ EndTurn(c) \/ Unregister(c)
      PROVE  Life'
  BY <1>1, <1>2 DEF SendPending, Subscribe, Close, Message, BeginTurn, Refused, RegisterToken,
     EndTurn, Unregister
<1>3. ASSUME NEW c \in Conns, NEW q \in Questions, ShowEvent(c, q) PROVE Life'
  BY <1>1, <1>3 DEF ShowEvent
<1>4. ASSUME NEW c \in Conns, CallTools(c) PROVE Life'
  <2>1. /\ \A q \in Questions : ask'[q] = ask[q] \/ (ask[q] = "fresh" /\ ask'[q] = "called")
        /\ UNCHANGED <<result, oneshot, accepts, pending, late>>
    BY <1>4 DEF CallTools
  <2> QED
    BY <2>1 DEF Life, Untouched, Answered, Dropped
<1>5. ASSUME NEW c \in Conns, AbortFrame(c) PROVE Life'
  BY <1>5, CancelLife DEF AbortFrame
<1>6. ASSUME NEW s \in Sessions, AbortQuestions(s) PROVE Life'
  BY <1>1, <1>6, CancelLife DEF AbortQuestions
<1>7. ASSUME NEW s \in Sessions, AbortToken(s) PROVE Life'
  BY <1>1, <1>7 DEF AbortToken
<1> USE DEF TypeOK, Life, Untouched, Answered, Dropped
<1>8. ASSUME NEW c \in Conns, NEW q \in Questions, Answer(c, q) PROVE Life'
  BY <1>8 DEF Answer, Accept
<1>9. ASSUME NEW q \in Questions, Ask(q) PROVE Life'
  BY <1>9 DEF Ask
<1>10. ASSUME NEW q \in Questions, Receive(q) PROVE Life'
  BY <1>10 DEF Receive, Returns
<1>11. ASSUME NEW q \in Questions, Fire(q) PROVE Life'
  BY <1>11 DEF Fire
<1>12. ASSUME NEW q \in Questions, Expire(q) PROVE Life'
  <2>1. /\ ask[q] = "expired" /\ pending' = pending \ {q}
        /\ ask' = [ask EXCEPT ![q] = "returned"] /\ result' = [result EXCEPT ![q] = "expired"]
        /\ UNCHANGED <<oneshot, accepts, late>>
    BY <1>12 DEF Expire, Returns
  <2>2. /\ \A r \in Questions \ {q} : ask'[r] = ask[r] /\ result'[r] = result[r]
        /\ \A r \in Questions \ {q} : r \in pending' <=> r \in pending
    <3>1. \A r \in Questions \ {q} : ask'[r] = ask[r] /\ result'[r] = result[r]
      BY <2>1 DEF TypeOK
    <3>2. \A r \in Questions \ {q} : r \in pending' <=> r \in pending
      BY <2>1
    <3> QED
      BY <3>1, <3>2
  <2>3. ask'[q] = "returned" /\ result'[q] = "expired" /\ q \notin pending'
    BY <2>1
  <2>4. Untouched(q) \/ Dropped(q) \/ (Answered(q) /\ q \in late)
    BY <2>1
  <2>5. (Untouched(q) \/ Dropped(q) \/ (Answered(q) /\ q \in late))'
    BY <2>1, <2>4
  <2> HIDE DEF Untouched, Answered, Dropped
  <2>6. \A r \in Questions : /\ Untouched(r)' <=> Untouched(r)
                             /\ Answered(r)' <=> Answered(r)
                             /\ Dropped(r)' <=> Dropped(r)
    BY <2>1 DEF Untouched, Answered, Dropped
  <2>7. late' = late /\ oneshot' = oneshot
    BY <2>1
  <2> HIDE DEF TypeOK
  <2> QED
    BY <2>2, <2>3, <2>5, <2>6, <2>7
<1>13. CASE UNCHANGED vars
  BY <1>1, <1>13 DEF vars
<1> QED
  BY <1>2, <1>3, <1>4, <1>5, <1>6, <1>7, <1>8, <1>9, <1>10, <1>11, <1>12, <1>13 DEF Next

-----------------------------------------------------------------------------
(* Who waits for a question is in the middle of its own turn.              *)
LEMMA LiveStep == TypeOK /\ Live /\ [Next]_vars => Live'
<1> SUFFICES ASSUME TypeOK, Live, [Next]_vars PROVE Live'
  OBVIOUS
<1> USE DEF Live, TypeOK, connVars, toolVars
<1>1. ASSUME UNCHANGED <<phase, turn, asker>>,
             \A q \in Questions : \/ ask'[q] = ask[q]
                                  \/ ask'[q] = "returned"
                                  \/ ask[q] \in {"called", "waiting", "expired"}
      PROVE  Live'
  BY <1>1
<1>2. ASSUME NEW c \in Conns, SendPending(c) \/ Subscribe(c) \/ Close(c) \/ AbortFrame(c)
      PROVE  Live'
  BY <1>1, <1>2 DEF SendPending, Subscribe, Close, AbortFrame
<1>3. ASSUME NEW c \in Conns, NEW q \in Questions, ShowEvent(c, q) \/ Answer(c, q) PROVE Live'
  BY <1>1, <1>3 DEF ShowEvent, Answer
<1>4. ASSUME NEW s \in Sessions, AbortToken(s) \/ AbortQuestions(s) PROVE Live'
  BY <1>1, <1>4 DEF AbortToken, AbortQuestions
<1>5. ASSUME NEW q \in Questions, Ask(q) \/ Receive(q) \/ Fire(q) \/ Expire(q) PROVE Live'
  BY <1>1, <1>5 DEF Ask, Receive, Fire, Expire, Returns
<1>6. ASSUME NEW c \in Conns, Message(c) \/ Refused(c) PROVE Live'
  <2>1. /\ phase[c] \in {"loop", "queued"} /\ UNCHANGED <<turn, ask, asker>>
        /\ \E p \in {"loop", "queued"} : phase' = [phase EXCEPT ![c] = p]
    BY <1>6 DEF Message, Refused
  <2> QED
    BY <2>1
<1>7. ASSUME NEW c \in Conns, BeginTurn(c) PROVE Live'
  BY <1>7 DEF BeginTurn
<1>8. ASSUME NEW c \in Conns, RegisterToken(c) PROVE Live'
  BY <1>8 DEF RegisterToken
<1>9. ASSUME NEW c \in Conns, CallTools(c) PROVE Live'
  <2>1. phase[c] = "running" /\ turn[c] \in Turns /\ UNCHANGED <<phase, turn>>
    BY <1>9 DEF CallTools
  <2>2. \A q \in Questions : \/ ask'[q] = ask[q] /\ asker'[q] = asker[q]
                             \/ asker'[q] = <<c, turn[c]>>
    BY <1>9 DEF CallTools
  <2>3. ASSUME NEW q \in Questions, ask'[q] \in {"called", "waiting", "expired"}
        PROVE  /\ asker'[q] \in Conns \X Turns
               /\ phase[asker'[q][1]] = "running" /\ turn[asker'[q][1]] = asker'[q][2]
    <3>1. CASE asker'[q] = <<c, turn[c]>>
      BY <2>1, <3>1
    <3>2. CASE ask'[q] = ask[q] /\ asker'[q] = asker[q]
      BY <2>3, <3>2
    <3> QED
      BY <2>2, <3>1, <3>2
  <2> QED
    BY <2>1, <2>3
<1>10. ASSUME NEW c \in Conns, EndTurn(c) PROVE Live'
  <2>1. /\ phase[c] = "running" /\ phase' = [phase EXCEPT ![c] = "ending"]
        /\ UNCHANGED <<turn, ask, asker>>
    BY <1>10 DEF EndTurn
  <2>2. ASSUME NEW q \in Questions, ask[q] \in {"called", "waiting", "expired"}
        PROVE  asker[q][1] # c
    <3>1. asker[q] \in Conns \X Turns /\ turn[asker[q][1]] = asker[q][2]
      BY <2>2
    <3>2. asker[q] # <<c, turn[c]>>
      BY <1>10, <2>2 DEF EndTurn, Unanswered, QuestionsOf
    <3> QED
      BY <3>1, <3>2
  <2>3. ASSUME NEW q \in Questions, ask[q] \in {"called", "waiting", "expired"}
        PROVE  phase'[asker[q][1]] = "running"
    <3> DEFINE d == asker[q][1]
    <3>1. d \in Conns /\ d # c /\ phase[d] = "running"
      BY <2>2, <2>3
    <3> HIDE DEF d
    <3>2. phase'[d] = "running"
      BY <2>1, <3>1
    <3> QED
      BY <3>2 DEF d
  <2>4. \A d \in Conns : phase'[d] \in {"registering", "running", "ending"} <=> turn[d] # 0
    BY <2>1
  <2> QED
    BY <2>1, <2>3, <2>4
<1>11. ASSUME NEW c \in Conns, Unregister(c) PROVE Live'
  BY <1>11 DEF Unregister
<1>12. CASE UNCHANGED vars
  BY <1>1, <1>12 DEF vars
<1> QED
  BY <1>2, <1>3, <1>4, <1>5, <1>6, <1>7, <1>8, <1>9, <1>10, <1>11, <1>12 DEF Next

-----------------------------------------------------------------------------
(* Questions that stay as they were, for a connection that knew of them.   *)
LEMMA KnownStep == TypeOK /\ Life /\ Live /\ Known /\ [Next]_vars => Known'
<1> SUFFICES ASSUME TypeOK, Life, Live, Known, [Next]_vars PROVE Known'
  OBVIOUS
<1> USE DEF Known, TypeOK, SessionOfQ, connVars, toolVars, managerVars, shownVars
<1>1. ASSUME UNCHANGED <<conn, asker, missed, seen, feed>>, pending' \subseteq pending
      PROVE  Known'
  BY <1>1
<1>2. ASSUME NEW c \in Conns,
             \/ Message(c) \/ BeginTurn(c) \/ Refused(c) \/ RegisterToken(c) \/ EndTurn(c)
             \/ Unregister(c)
      PROVE  Known'
  BY <1>1, <1>2 DEF Message, BeginTurn, Refused, RegisterToken, EndTurn, Unregister
<1>3. ASSUME NEW c \in Conns, AbortFrame(c) PROVE Known'
  BY <1>1, <1>3 DEF AbortFrame, CancelTurn
<1>4. ASSUME NEW s \in Sessions, AbortToken(s) \/ AbortQuestions(s) PROVE Known'
  BY <1>1, <1>4 DEF AbortToken, AbortQuestions, CancelTurn
<1>5. ASSUME NEW q \in Questions, Receive(q) \/ Fire(q) \/ Expire(q) PROVE Known'
  BY <1>1, <1>5 DEF Receive, Fire, Expire, Returns
<1>6. ASSUME NEW c \in Conns, NEW q \in Questions, Answer(c, q) PROVE Known'
  BY <1>1, <1>6 DEF Answer, Accept
<1>7. ASSUME NEW c \in Conns, SendPending(c) PROVE Known'
  BY <1>7 DEF SendPending
<1>8. ASSUME NEW c \in Conns, Subscribe(c) PROVE Known'
  BY <1>8 DEF Subscribe
<1>9. ASSUME NEW c \in Conns, Close(c) PROVE Known'
  BY <1>9 DEF Close
<1>10. ASSUME NEW c \in Conns, NEW q \in Questions, ShowEvent(c, q) PROVE Known'
  BY <1>10 DEF ShowEvent
<1>11. ASSUME NEW c \in Conns, CallTools(c) PROVE Known'
  <2>1. \A q \in pending : asker'[q] = asker[q]
    BY <1>11 DEF CallTools, Life
  <2>2. UNCHANGED <<conn, missed, seen, feed, pending>>
    BY <1>11 DEF CallTools
  <2> QED
    BY <2>1, <2>2
<1>12. ASSUME NEW q \in Questions, Ask(q) PROVE Known'
  BY <1>12 DEF Ask
<1>13. CASE UNCHANGED vars
  BY <1>1, <1>13 DEF vars
<1> QED
  BY <1>2, <1>3, <1>4, <1>5, <1>6, <1>7, <1>8, <1>9, <1>10, <1>11, <1>12, <1>13 DEF Next

(* The invariant holds of every state, for any connections, calls and turns. *)
THEOREM InvKept == Spec => []IInv
<1>1. IInv /\ [Next]_vars => IInv'
  BY TypeStep, LifeStep, LiveStep, KnownStep DEF IInv
<1> QED
  BY <1>1, InvInit, PTL DEF Spec

(* Every request, oneshot and turn id stays in its type. *)
THEOREM AskTypeCorrect == Spec => []TypeOK
<1>1. IInv => TypeOK
  BY DEF IInv
<1> QED
  BY <1>1, InvKept, PTL

(* One response at most is accepted, and what is accepted is what the tool *)
(* returns unless the timer fired before it.                               *)
THEOREM AnswerIsReturned == Spec => []AcceptedIsReturned
<1>1. IInv => AcceptedIsReturned
  <2> SUFFICES ASSUME IInv, NEW q \in Questions
               PROVE  /\ accepts[q] <= 1
                      /\ result[q] = "answer" => accepts[q] = 1
                      /\ accepts[q] = 1 => \/ result[q] \in {"none", "answer"}
                                           \/ result[q] = "expired" /\ q \in late
    BY DEF AcceptedIsReturned
  <2> QED
    BY DEF IInv, TypeOK, Life, Untouched, Answered, Dropped
<1> QED
  BY <1>1, InvKept, PTL

(* The map holds no request of a call that is over, or of another turn     *)
(* than the one its connection runs.                                       *)
THEOREM QuestionsEndWithTurn == Spec => []NoQuestionOutlivesTurn
<1>1. IInv => NoQuestionOutlivesTurn
  BY DEF IInv, TypeOK, Life, Live, NoQuestionOutlivesTurn, TurnOf
<1> QED
  BY <1>1, InvKept, PTL

(* A connection that was not in its handshake when a question was asked    *)
(* knows of it, or will when it reads on.                                  *)
THEOREM EveryQuestionShown == Spec => []QuestionShown
<1>1. IInv => QuestionShown
  BY DEF IInv, Known, QuestionShown
<1> QED
  BY <1>1, InvKept, PTL

-----------------------------------------------------------------------------
(***************************************************************************)
(* The webhook's limiter and its idempotency store, for any clients, keys  *)
(* and sizes.  The invariant says that each map holds at most max_keys     *)
(* entries, each from a request that passed (Windows, Keys), and that what *)
(* passed and is not out of date is still counted, or that max_keys others *)
(* came after it (StillCounted, StillKnown): an entry is evicted only when *)
(* every other one was used after it.                                      *)
(***************************************************************************)

(* The times of a client are in order; the last of them is that of a       *)
(* request that passed.                                                    *)
InOrder(times) == \A i, k \in 1 .. Len(times) : i <= k => times[i] <= times[k]

Windows ==
    /\ window \in [Clients -> Seq(0 .. HookTime)]
    /\ \A c \in Clients : /\ InOrder(window[c])
                          /\ \A i \in 1 .. Len(window[c]) : window[c][i] <= clock
                          /\ window[c] # <<>> => \E m \in 1 .. Len(allowed) :
                                                    allowed[m] = <<c, Last(window[c])>>
    /\ IsFiniteSet(Entries(window)) /\ Cardinality(Entries(window)) <= MaxClients

Logged ==
    /\ clock \in 0 .. HookTime /\ arrived \in 0 .. MaxRequests
    /\ between \subseteq (1 .. MaxRequests) \X IdemKeys
    /\ allowed \in Seq(Clients \X (0 .. HookTime))
    /\ recorded \in Seq(IdemKeys \X (0 .. HookTime))
    /\ \A i \in 1 .. Len(allowed) : allowed[i][2] <= clock
    /\ \A i \in 1 .. Len(recorded) : recorded[i][2] <= clock

(* As many others came since entry i of a log as push its own out. *)
ManyCame(log, i, many) == Cardinality(OthersBetween(log, log[i][1], i, Len(log))) >= many

Passed(log, c, i, j) == {m \in i .. j : log[m][1] = c}

(* The last n times of a client are from t on. *)
Counted(times, n, t) == n <= Len(times) /\ times[Len(times) - n + 1] >= t

(* Who passed from request i on is still counted in the client's window.   *)
StillCounted ==
    \A i \in 1 .. Len(allowed) :
        LET w == window[allowed[i][1]]
            n == Cardinality(Passed(allowed, allowed[i][1], i, Len(allowed)))
        IN clock < allowed[i][2] + Window =>
             \/ ManyCame(allowed, i, MaxClients)
             \/ Counted(w, n, allowed[i][2])

(* A key that was worked on is still known. *)
StillKnown ==
    \A i \in 1 .. Len(recorded) :
        LET k == recorded[i][1]
        IN clock < recorded[i][2] + Ttl =>
             \/ ManyCame(recorded, i, MaxKeys)
             \/ keys[k] # Never /\ keys[k] >= recorded[i][2]

Keys ==
    /\ keys \in [IdemKeys -> 0 .. Never]
    /\ \A k \in IdemKeys : keys[k] # Never =>
          keys[k] <= clock /\ \E m \in 1 .. Len(recorded) : recorded[m] = <<k, keys[k]>>
    /\ IsFiniteSet(Recorded(keys)) /\ Cardinality(Recorded(keys)) <= MaxKeys

HookInv == Logged /\ Windows /\ Keys /\ StillCounted /\ StillKnown /\ RateHolds /\ WorkedOnOnce

-----------------------------------------------------------------------------
(* Logs. *)

(* What came between two entries of a log is a finite set. *)
LEMMA OthersFinite ==
    ASSUME NEW log, NEW x, NEW i, NEW j \in Nat
    PROVE  IsFiniteSet(OthersBetween(log, x, i, j))
<1> DEFINE N == {n \in 1 .. j : log[n][2] >= log[i][2]}
           T == {log[m][1] : m \in N}
           f == [m \in N |-> log[m][1]]
<1>1. IsFiniteSet(N)
  <2>1. IsFiniteSet(1 .. j)
    BY FS_Interval
  <2> QED
    BY <2>1, FS_Subset
<1>2. f \in Surjection(N, T)
  BY DEF Surjection
<1>3. IsFiniteSet(T)
  BY <1>1, <1>2, FS_Surjection
<1>4. IsFiniteSet(T \ {x})
  BY <1>3, FS_RemoveElement
<1> QED
  BY <1>4 DEF OthersBetween

(* It grows with the log. *)
LEMMA MoreCame ==
    ASSUME NEW S, NEW T, NEW log \in Seq(S \X T), NEW e \in S \X T, NEW x,
           NEW i \in 1 .. Len(log), NEW j \in 0 .. Len(log), NEW k \in j .. Len(log) + 1
    PROVE  /\ OthersBetween(log, x, i, j) \subseteq OthersBetween(Append(log, e), x, i, k)
           /\ \A many \in Nat : Cardinality(OthersBetween(log, x, i, j)) >= many
                 => Cardinality(OthersBetween(Append(log, e), x, i, k)) >= many
<1> DEFINE l == Append(log, e)
<1>1. Len(log) \in Nat /\ Len(l) = Len(log) + 1 /\ \A m \in 1 .. Len(log) : l[m] = log[m]
  BY AppendProperties, LenProperties
<1> HIDE DEF l
<1>2. j \in Nat /\ k \in Nat /\ \A m \in 1 .. j : m \in 1 .. Len(log) /\ m \in 1 .. k
  BY <1>1
<1>3. OthersBetween(log, x, i, j) \subseteq OthersBetween(l, x, i, k)
  <2> SUFFICES ASSUME NEW y \in OthersBetween(log, x, i, j) PROVE y \in OthersBetween(l, x, i, k)
    OBVIOUS
  <2>1. PICK m \in 1 .. j : log[m][2] >= log[i][2] /\ y = log[m][1] /\ y # x
    BY DEF OthersBetween
  <2>2. m \in 1 .. k /\ l[m] = log[m] /\ l[i] = log[i]
    BY <1>1, <1>2
  <2> QED
    BY <2>1, <2>2 DEF OthersBetween
<1>4. IsFiniteSet(OthersBetween(l, x, i, k))
  BY <1>2, OthersFinite
<1>5. /\ Cardinality(OthersBetween(log, x, i, j)) <= Cardinality(OthersBetween(l, x, i, k))
      /\ Cardinality(OthersBetween(log, x, i, j)) \in Nat
      /\ Cardinality(OthersBetween(l, x, i, k)) \in Nat
  BY <1>2, <1>3, <1>4, OthersFinite, FS_Subset, FS_CardinalityType
<1> QED
  BY <1>3, <1>5 DEF l

(* The others of a set came, if each of its members did. *)
LEMMA TheyCame ==
    ASSUME NEW log, NEW i, NEW j \in Nat, NEW x, NEW X, NEW many \in Nat,
           IsFiniteSet(X), Cardinality(X) >= many, x \notin X,
           \A y \in X : \E m \in 1 .. j : log[m][1] = y /\ log[m][2] >= log[i][2]
    PROVE  Cardinality(OthersBetween(log, x, i, j)) >= many
<1>1. X \subseteq OthersBetween(log, x, i, j)
  BY DEF OthersBetween
<1>2. IsFiniteSet(OthersBetween(log, x, i, j))
  BY OthersFinite
<1>3. /\ Cardinality(X) <= Cardinality(OthersBetween(log, x, i, j))
      /\ Cardinality(X) \in Nat /\ Cardinality(OthersBetween(log, x, i, j)) \in Nat
  BY <1>1, <1>2, FS_Subset, FS_CardinalityType
<1> QED
  BY <1>3

(* An entry takes another's place: there are as many as before. *)
LEMMA TakesPlace ==
    ASSUME NEW X, IsFiniteSet(X), NEW x \in X, NEW y, y \notin X
    PROVE  /\ IsFiniteSet((X \ {x}) \cup {y})
           /\ Cardinality((X \ {x}) \cup {y}) = Cardinality(X)
<1>1. IsFiniteSet(X \ {x}) /\ Cardinality(X \ {x}) = Cardinality(X) - 1 /\ Cardinality(X) \in Nat
  BY FS_RemoveElement, FS_CardinalityType
<1>2. /\ IsFiniteSet((X \ {x}) \cup {y})
      /\ Cardinality((X \ {x}) \cup {y}) = Cardinality(X \ {x}) + 1
  BY <1>1, FS_AddElement
<1> QED
  BY <1>1, <1>2

-----------------------------------------------------------------------------
(* retain: times that are in order lose a beginning, out of date as a whole. *)
LEMMA RecentIs ==
    ASSUME NEW s \in Seq(0 .. HookTime), InOrder(s), clock \in 0 .. HookTime
    PROVE  \E k \in 0 .. Len(s) :
              /\ Recent(s) \in Seq(0 .. HookTime) /\ Len(Recent(s)) = Len(s) - k
              /\ \A i \in 1 .. Len(s) - k : Recent(s)[i] = s[k + i]
              /\ \A i \in 1 .. Len(s) : clock < s[i] + Window <=> i > k
<1> DEFINE old == {i \in 1 .. Len(s) : clock >= s[i] + Window}
           k == Cardinality(old)
<1>1. /\ Len(s) \in Nat /\ DOMAIN s = 1 .. Len(s) /\ old \in SUBSET (1 .. Len(s))
      /\ \A i \in 1 .. Len(s) : s[i] \in 0 .. HookTime
      /\ Window \in Nat /\ HookTime \in Nat
  BY LenProperties, ElementOfSeq, WebhookAssumption
<1>2. \E m \in 0 .. Len(s) : old = 1 .. m
  <2>1. CASE old = {}
    <3>1. old = 1 .. 0
      BY <2>1
    <3> QED
      BY <1>1, <3>1
  <2>2. CASE old # {}
    <3>1. Max(old) \in old /\ \A i \in old : Max(old) >= i
      BY <1>1, <2>2, MaxOf
    <3>2. \A i \in 1 .. Max(old) : i \in old
      <4> SUFFICES ASSUME NEW i \in 1 .. Max(old) PROVE i \in old
        OBVIOUS
      <4>1. i \in 1 .. Len(s) /\ s[i] <= s[Max(old)]
        BY <1>1, <3>1 DEF InOrder
      <4> QED
        BY <1>1, <3>1, <4>1
    <3>3. old = 1 .. Max(old)
      BY <1>1, <3>1, <3>2
    <3>4. Max(old) \in 0 .. Len(s)
      BY <1>1, <3>1
    <3> QED
      BY <3>3, <3>4
  <2> QED
    BY <2>1, <2>2
<1>3. k \in 0 .. Len(s) /\ old = 1 .. k
  <2>1. PICK m \in 0 .. Len(s) : old = 1 .. m
    BY <1>2
  <2>2. Cardinality(1 .. m) = m
    BY <1>1, FS_Interval
  <2> QED
    BY <2>1, <2>2
<1>4. Recent(s) = SubSeq(s, k + 1, Len(s))
  BY <1>1 DEF Recent
<1>5. \A i \in 1 .. Len(s) : clock < s[i] + Window <=> i > k
  <2> SUFFICES ASSUME NEW i \in 1 .. Len(s) PROVE clock < s[i] + Window <=> i > k
    OBVIOUS
  <2>1. i \in old <=> i <= k
    BY <1>1, <1>3
  <2>2. i \in old <=> clock >= s[i] + Window
    OBVIOUS
  <2> QED
    BY <1>1, <1>3, <2>1, <2>2
<1> HIDE DEF k
<1>6. /\ SubSeq(s, k + 1, Len(s)) \in Seq(0 .. HookTime)
      /\ Len(SubSeq(s, k + 1, Len(s))) = Len(s) - k
      /\ \A i \in 1 .. Len(s) - k : SubSeq(s, k + 1, Len(s))[i] = s[k + i]
  <2>1. k + 1 \in 1 .. Len(s) + 1 /\ Len(s) - (k + 1) + 1 = Len(s) - k
    BY <1>1, <1>3
  <2>2. \A i \in 1 .. Len(s) - k : (k + 1) + i - 1 = k + i
    BY <1>1, <1>3
  <2>3. /\ SubSeq(s, k + 1, Len(s)) \in Seq(0 .. HookTime)
        /\ Len(SubSeq(s, k + 1, Len(s))) = Len(s) - (k + 1) + 1
        /\ \A i \in 1 .. Len(s) - (k + 1) + 1 : SubSeq(s, k + 1, Len(s))[i] = s[(k + 1) + i - 1]
    BY <2>1, BackOf
  <2> HIDE DEF old
  <2> QED
    BY <2>1, <2>2, <2>3
<1> QED
  BY <1>3, <1>4, <1>5, <1>6
-----------------------------------------------------------------------------
(* Initially nobody has called. *)
LEMMA HookInitially == HookInit => HookInv
<1> SUFFICES ASSUME HookInit PROVE HookInv
  OBVIOUS
<1> USE WebhookAssumption
<1>1. Len(allowed) = 0 /\ Len(recorded) = 0 /\ \A c \in Clients : Len(window[c]) = 0
  BY DEF HookInit
<1>2. Logged
  BY <1>1 DEF HookInit, Logged
<1>3. Windows
  <2>1. Entries(window) = {}
    BY DEF HookInit, Entries
  <2>2. IsFiniteSet(Entries(window)) /\ Cardinality(Entries(window)) <= MaxClients
    BY <2>1, FS_EmptySet
  <2>3. \A c \in Clients : /\ InOrder(window[c]) /\ window[c] = <<>>
                           /\ \A i \in 1 .. Len(window[c]) : window[c][i] <= clock
    BY <1>1 DEF HookInit, InOrder
  <2>4. window \in [Clients -> Seq(0 .. HookTime)]
    BY EmptySeq DEF HookInit
  <2> QED
    BY <2>2, <2>3, <2>4 DEF Windows
<1>4. Keys
  <2>1. Recorded(keys) = {}
    BY DEF HookInit, Recorded
  <2>2. IsFiniteSet(Recorded(keys)) /\ Cardinality(Recorded(keys)) <= MaxKeys
    BY <2>1, FS_EmptySet
  <2>3. keys \in [IdemKeys -> 0 .. Never] /\ \A k \in IdemKeys : keys[k] = Never
    BY DEF HookInit, Never
  <2> QED
    BY <2>2, <2>3 DEF Keys
<1>5. StillCounted /\ StillKnown
  BY <1>1 DEF StillCounted, StillKnown
<1>6. RateHolds /\ WorkedOnOnce
  BY <1>1 DEF HookInit, RateHolds, WorkedOnOnce
<1> QED
  BY <1>2, <1>3, <1>4, <1>5, <1>6 DEF HookInv

-----------------------------------------------------------------------------
(* The idempotency store. *)

(* What the ttl leaves of it. *)
LEMMA FreshIs ==
    ASSUME Keys, Logged
    PROVE  /\ Fresh \in [IdemKeys -> 0 .. Never]
           /\ \A k \in IdemKeys : Fresh[k] # Never => Fresh[k] = keys[k]
           /\ \A k \in IdemKeys : keys[k] # Never /\ clock < keys[k] + Ttl => Fresh[k] = keys[k]
           /\ IsFiniteSet(Recorded(Fresh)) /\ Cardinality(Recorded(Fresh)) <= MaxKeys
           /\ Cardinality(Recorded(Fresh)) \in Nat
<1>1. /\ Fresh \in [IdemKeys -> 0 .. Never]
      /\ \A k \in IdemKeys : Fresh[k] # Never => Fresh[k] = keys[k] /\ keys[k] # Never
      /\ \A k \in IdemKeys : keys[k] # Never /\ clock < keys[k] + Ttl => Fresh[k] = keys[k]
  BY WebhookAssumption DEF Keys, Fresh, Never
<1>2. Recorded(Fresh) \subseteq Recorded(keys)
  BY <1>1 DEF Recorded
<1>3. /\ IsFiniteSet(Recorded(keys)) /\ Cardinality(Recorded(keys)) <= MaxKeys
      /\ Cardinality(Recorded(keys)) \in Nat
  BY FS_CardinalityType DEF Keys
<1>4. /\ IsFiniteSet(Recorded(Fresh)) /\ Cardinality(Recorded(Fresh)) \in Nat
      /\ Cardinality(Recorded(Fresh)) <= Cardinality(Recorded(keys))
  BY <1>2, <1>3, FS_Subset, FS_CardinalityType
<1> QED
  BY <1>1, <1>3, <1>4, WebhookAssumption

(* A key is recorded: there is room, or an oldest key makes it. *)
LEMMA RecordStep ==
    ASSUME Keys, Logged, StillKnown, WorkedOnOnce, NEW k \in IdemKeys, Fresh[k] = Never,
           NEW s \in RoomMade, keys' = [s EXCEPT ![k] = clock],
           recorded' = Append(recorded, <<k, clock>>), UNCHANGED clock
    PROVE  Keys' /\ StillKnown' /\ WorkedOnOnce'
<1> DEFINE e == <<k, clock>>
           n == Len(recorded)
           X == Recorded(Fresh)
<1> USE WebhookAssumption
<1>0. /\ clock \in 0 .. HookTime /\ clock # Never /\ clock \in 0 .. Never
      /\ recorded \in Seq(IdemKeys \X (0 .. HookTime)) /\ e \in IdemKeys \X (0 .. HookTime)
      /\ e[1] = k /\ e[2] = clock
  BY DEF Logged, Never
<1>1. /\ n \in Nat /\ recorded' \in Seq(IdemKeys \X (0 .. HookTime))
      /\ Len(recorded') = n + 1 /\ (\A i \in 1 .. n : recorded'[i] = recorded[i])
      /\ recorded'[n + 1] = e /\ DOMAIN recorded' = 1 .. n + 1
      /\ \A i \in 1 .. n : recorded[i][1] \in IdemKeys /\ recorded[i][2] \in 0 .. HookTime
  BY <1>0, AppendProperties, LenProperties, ElementOfSeq
<1>2. /\ Fresh \in [IdemKeys -> 0 .. Never] /\ keys \in [IdemKeys -> 0 .. Never]
      /\ \A l \in IdemKeys : Fresh[l] # Never => Fresh[l] = keys[l]
      /\ \A l \in IdemKeys : keys[l] # Never /\ clock < keys[l] + Ttl => Fresh[l] = keys[l]
      /\ IsFiniteSet(X) /\ Cardinality(X) <= MaxKeys /\ Cardinality(X) \in Nat /\ k \notin X
  BY FreshIs DEF Keys, Recorded
<1>3. \/ s = Fresh /\ Cardinality(X) < MaxKeys
      \/ /\ Cardinality(X) >= MaxKeys
         /\ \E l \in X : s = [Fresh EXCEPT ![l] = Never] /\ \A m \in X : Fresh[l] <= Fresh[m]
  <2>1. CASE Cardinality(X) < MaxKeys
    BY <2>1 DEF RoomMade
  <2>2. CASE ~(Cardinality(X) < MaxKeys)
    <3>1. s \in WithoutOldest(Fresh)
      BY <2>2 DEF RoomMade
    <3>2. Cardinality(X) >= MaxKeys
      BY <1>2, <2>2
    <3> QED
      BY <3>1, <3>2 DEF WithoutOldest
  <2> QED
    BY <2>1, <2>2
<1>4. s \in [IdemKeys -> 0 .. Never] /\ \A l \in IdemKeys : s[l] # Never => s[l] = Fresh[l]
  BY <1>2, <1>3 DEF Recorded, Never
<1>5. /\ keys' \in [IdemKeys -> 0 .. Never] /\ keys'[k] = clock
      /\ \A l \in IdemKeys \ {k} : keys'[l] = s[l]
  BY <1>0, <1>4
<1> HIDE DEF e, n, X
<1>6. Keys'
  <2>1. \A l \in IdemKeys : keys'[l] # Never =>
           keys'[l] <= clock /\ \E m \in 1 .. Len(recorded') : recorded'[m] = <<l, keys'[l]>>
    <3> SUFFICES ASSUME NEW l \in IdemKeys, keys'[l] # Never
                 PROVE  /\ keys'[l] <= clock
                        /\ \E m \in 1 .. Len(recorded') : recorded'[m] = <<l, keys'[l]>>
      OBVIOUS
    <3>1. CASE l = k
      BY <1>0, <1>1, <1>5, <3>1 DEF e
    <3>2. CASE l # k
      <4>1. keys'[l] = keys[l] /\ keys[l] # Never
        BY <1>2, <1>4, <1>5, <3>2
      <4>2. PICK m \in 1 .. n : recorded[m] = <<l, keys[l]>>
        BY <4>1 DEF Keys, n
      <4>3. m \in 1 .. Len(recorded') /\ recorded'[m] = <<l, keys'[l]>>
        BY <1>1, <4>1, <4>2
      <4> QED
        BY <4>1, <4>3 DEF Keys
    <3> QED
      BY <3>1, <3>2
  <2>2. IsFiniteSet(Recorded(keys)') /\ Cardinality(Recorded(keys)') <= MaxKeys
    <3>1. CASE s = Fresh /\ Cardinality(X) < MaxKeys
      <4>1. Recorded(keys)' = X \cup {k}
        BY <1>0, <1>5, <3>1 DEF Recorded, X
      <4>2. IsFiniteSet(X \cup {k}) /\ Cardinality(X \cup {k}) = Cardinality(X) + 1
        BY <1>2, FS_AddElement
      <4>3. Cardinality(X \cup {k}) <= MaxKeys
        BY <1>2, <3>1, <4>2
      <4> QED
        BY <4>1, <4>2, <4>3
    <3>2. ASSUME NEW l \in X, s = [Fresh EXCEPT ![l] = Never]
          PROVE  IsFiniteSet(Recorded(keys)') /\ Cardinality(Recorded(keys)') <= MaxKeys
      <4>1. Recorded(keys)' = (X \ {l}) \cup {k}
        BY <1>0, <1>2, <1>5, <3>2 DEF Recorded, X
      <4>2. /\ IsFiniteSet((X \ {l}) \cup {k})
            /\ Cardinality((X \ {l}) \cup {k}) = Cardinality(X)
        BY <1>2, TakesPlace
      <4> QED
        BY <1>2, <4>1, <4>2
    <3> QED
      BY <1>3, <3>1, <3>2
  <2> QED
    BY <1>5, <2>1, <2>2 DEF Keys, Recorded, Never
<1>7. ASSUME NEW i \in 1 .. n, ManyCame(recorded, i, MaxKeys) PROVE ManyCame(recorded, i, MaxKeys)'
  <2>1. n \in 0 .. n /\ n + 1 \in n .. n + 1 /\ i \in 1 .. Len(recorded)
    BY <1>1 DEF n
  <2>2. recorded'[i][1] = recorded[i][1]
    BY <1>1
  <2>3. Cardinality(OthersBetween(recorded', recorded[i][1], i, n + 1)) >= MaxKeys
    BY <1>0, <1>7, <2>1, MoreCame DEF ManyCame, n, e
  <2> QED
    BY <1>1, <2>2, <2>3 DEF ManyCame
<1>8. ASSUME NEW i \in 1 .. n, clock < recorded[i][2] + Ttl, ~ManyCame(recorded, i, MaxKeys)
      PROVE  /\ keys[recorded[i][1]] # Never /\ keys[recorded[i][1]] >= recorded[i][2]
             /\ Fresh[recorded[i][1]] = keys[recorded[i][1]] /\ recorded[i][1] # k
  <2> DEFINE l == recorded[i][1]
             t == recorded[i][2]
  <2>0. l \in IdemKeys /\ t \in 0 .. HookTime
    BY <1>1
  <2>1. keys[l] # Never /\ keys[l] >= t
    BY <1>8 DEF StillKnown, n
  <2>2. clock < t + Ttl
    BY <1>8
  <2> HIDE DEF l, t
  <2>3. keys[l] \in 0 .. Never
    BY <1>2, <2>0
  <2>4. clock < keys[l] + Ttl
    BY <1>0, <2>0, <2>1, <2>2, <2>3 DEF Never
  <2>5. Fresh[l] = keys[l] /\ l # k
    BY <1>2, <2>0, <2>1, <2>4
  <2> QED
    BY <2>1, <2>5 DEF l, t
(* Whoever is pushed out was not used for longer than MaxKeys others. *)
<1>9. ASSUME NEW i \in 1 .. n, NEW l \in X, Cardinality(X) >= MaxKeys,
             \A m \in X : Fresh[l] <= Fresh[m], recorded[i][1] = l, Fresh[l] >= recorded[i][2]
      PROVE  ManyCame(recorded, i, MaxKeys)'
  <2> DEFINE Y == (X \ {l}) \cup {k}
  <2>1. IsFiniteSet(Y) /\ Cardinality(Y) >= MaxKeys /\ l \notin Y
    BY <1>2, <1>9, TakesPlace
  <2>2. ASSUME NEW y \in Y
        PROVE  \E m \in 1 .. n + 1 : recorded'[m][1] = y /\ recorded'[m][2] >= recorded'[i][2]
    <3>0. recorded'[i] = recorded[i] /\ recorded[i][2] \in 0 .. HookTime /\ recorded[i][2] <= clock
      BY <1>1 DEF Logged, n
    <3>1. CASE y = k
      BY <1>0, <1>1, <3>0, <3>1
    <3>2. CASE y \in X
      <4>1. y \in IdemKeys /\ Fresh[y] # Never /\ keys[y] = Fresh[y] /\ keys[y] >= recorded[i][2]
        <5>1. y \in IdemKeys /\ l \in IdemKeys /\ Fresh[y] # Never /\ Fresh[l] <= Fresh[y]
          BY <1>9, <3>2 DEF X, Recorded
        <5>2. Fresh[l] \in 0 .. Never /\ Fresh[y] \in 0 .. Never
          BY <1>2, <5>1
        <5>3. Fresh[y] >= recorded[i][2]
          BY <1>9, <3>0, <5>1, <5>2 DEF Never
        <5> QED
          BY <1>2, <5>1, <5>3
      <4>2. PICK m \in 1 .. n : recorded[m] = <<y, keys[y]>>
        BY <4>1 DEF Keys, n
      <4>3. m \in 1 .. n + 1 /\ recorded'[m][1] = y /\ recorded'[m][2] = keys[y]
        BY <1>1, <4>2
      <4> QED
        BY <3>0, <4>1, <4>3
    <3> QED
      BY <3>1, <3>2
  <2> HIDE DEF Y
  <2>3. Cardinality(OthersBetween(recorded', l, i, n + 1)) >= MaxKeys
    <3>1. \A y \in Y : \E m \in 1 .. n + 1 : /\ recorded'[m][1] = y
                                           /\ recorded'[m][2] >= recorded'[i][2]
      BY <2>2
    <3>2. n + 1 \in Nat /\ MaxKeys \in Nat
      BY <1>1
    <3> QED
      BY <2>1, <3>1, <3>2, TheyCame
  <2> QED
    BY <1>1, <1>9, <2>3 DEF ManyCame
<1>10. StillKnown'
  <2> SUFFICES ASSUME NEW i \in 1 .. n + 1, clock < recorded'[i][2] + Ttl,
                      ~ManyCame(recorded, i, MaxKeys)'
               PROVE  /\ keys'[recorded'[i][1]] # Never
                      /\ keys'[recorded'[i][1]] >= recorded'[i][2]
    BY <1>1 DEF StillKnown, Never
  <2>1. CASE i = n + 1
    BY <1>0, <1>1, <1>5, <2>1
  <2>2. CASE i \in 1 .. n
    <3> DEFINE l == recorded[i][1]
    <3>1. /\ keys[l] # Never /\ keys[l] >= recorded[i][2] /\ Fresh[l] = keys[l] /\ l # k
          /\ l \in IdemKeys
      BY <1>1, <1>7, <1>8, <2>2
    <3> HIDE DEF l
    <3>2. s[l] = Fresh[l]
      <4>1. CASE s = Fresh
        BY <4>1
      <4>2. ASSUME NEW m \in X, s = [Fresh EXCEPT ![m] = Never], \A o \in X : Fresh[m] <= Fresh[o],
                   Cardinality(X) >= MaxKeys
            PROVE  s[l] = Fresh[l]
        <5>1. l # m
          BY <1>9, <2>2, <3>1, <4>2 DEF l
        <5> QED
          BY <1>2, <3>1, <4>2, <5>1
      <4> QED
        BY <1>3, <4>1, <4>2
    <3>3. keys'[l] = keys[l]
      BY <1>5, <3>1, <3>2
    <3> QED
      BY <1>1, <2>2, <3>1, <3>3 DEF l
  <2> QED
    BY <1>1, <2>1, <2>2
<1>11. WorkedOnOnce'
  <2> SUFFICES ASSUME NEW i \in 1 .. n + 1, NEW j \in 1 .. n + 1, i < j,
                      recorded'[i][1] = recorded'[j][1], recorded'[j][2] < recorded'[i][2] + Ttl
               PROVE  Cardinality(OthersBetween(recorded', recorded'[i][1], i, j)) >= MaxKeys
    BY <1>1 DEF WorkedOnOnce
  <2>0. i \in 1 .. n /\ recorded'[i] = recorded[i]
    BY <1>1
  <2>1. CASE j = n + 1
    <3>1. recorded[i][1] = k /\ clock < recorded[i][2] + Ttl
      BY <1>0, <1>1, <2>0, <2>1
    <3>2. ManyCame(recorded, i, MaxKeys)
      BY <1>8, <2>0, <3>1
    <3> QED
      BY <1>1, <1>7, <2>0, <2>1, <3>2 DEF ManyCame
  <2>2. CASE j \in 1 .. n
    <3>1. recorded'[j] = recorded[j] /\ j \in 0 .. n /\ j \in j .. n + 1 /\ i \in 1 .. Len(recorded)
      BY <1>1, <2>0, <2>2 DEF n
    <3>2. Cardinality(OthersBetween(recorded, recorded[i][1], i, j)) >= MaxKeys
      BY <2>0, <2>2, <3>1 DEF WorkedOnOnce, n
    <3>3. Cardinality(OthersBetween(recorded', recorded[i][1], i, j)) >= MaxKeys
      BY <1>0, <3>1, <3>2, MoreCame DEF n, e
    <3> QED
      BY <2>0, <3>3
  <2> QED
    BY <1>1, <2>1, <2>2
<1> QED
  BY <1>6, <1>10, <1>11

-----------------------------------------------------------------------------
(* The limiter. *)

(* What counts a time keeps counting it when the window moves on. *)
LEMMA RecentCounts ==
    ASSUME NEW s \in Seq(0 .. HookTime), InOrder(s), clock \in 0 .. HookTime,
           NEW n \in Nat \ {0}, NEW t \in 0 .. HookTime, clock < t + Window, Counted(s, n, t)
    PROVE  Counted(Recent(s), n, t)
<1>1. PICK k \in 0 .. Len(s) :
         /\ Recent(s) \in Seq(0 .. HookTime) /\ Len(Recent(s)) = Len(s) - k
         /\ \A i \in 1 .. Len(s) - k : Recent(s)[i] = s[k + i]
         /\ \A i \in 1 .. Len(s) : clock < s[i] + Window <=> i > k
  BY RecentIs
<1>2. Len(s) \in Nat /\ n <= Len(s) /\ Window \in Nat
  BY LenProperties, WebhookAssumption DEF Counted
<1> DEFINE i == Len(s) - n + 1
<1>3. i \in 1 .. Len(s) /\ s[i] >= t /\ s[i] \in 0 .. HookTime
  <2>1. i \in 1 .. Len(s)
    BY <1>2
  <2>2. s[i] >= t
    BY DEF Counted
  <2>3. s[i] \in 0 .. HookTime
    BY <2>1, ElementOfSeq
  <2> QED
    BY <2>1, <2>2, <2>3
<1>4. i > k
  <2>1. clock < s[i] + Window
    BY <1>2, <1>3
  <2> QED
    BY <1>1, <1>3, <2>1
<1>5. n <= Len(s) - k /\ (Len(s) - k) - n + 1 \in 1 .. Len(s) - k
      /\ k + ((Len(s) - k) - n + 1) = i
  BY <1>2, <1>4
<1> HIDE DEF i
<1>6. Recent(s)[(Len(s) - k) - n + 1] = s[i]
  BY <1>1, <1>5
<1>7. n <= Len(Recent(s)) /\ Recent(s)[Len(Recent(s)) - n + 1] >= t
  BY <1>1, <1>3, <1>5, <1>6
<1> QED
  BY <1>7 DEF Counted

(* One more came. *)
LEMMA AppendCounts ==
    ASSUME NEW s \in Seq(0 .. HookTime), NEW n \in Nat \ {0}, NEW t, Counted(s, n, t),
           NEW x \in 0 .. HookTime
    PROVE  Counted(Append(s, x), n + 1, t)
<1>1. /\ Len(s) \in Nat /\ Len(Append(s, x)) = Len(s) + 1
      /\ \A i \in 1 .. Len(s) : Append(s, x)[i] = s[i]
  BY AppendProperties, LenProperties
<1>2. n <= Len(s) /\ Len(s) - n + 1 \in 1 .. Len(s) /\ (Len(s) + 1) - (n + 1) + 1 = Len(s) - n + 1
  BY <1>1 DEF Counted
<1> QED
  BY <1>1, <1>2 DEF Counted

(* The last of a client's times stays the last. *)
LEMMA RecentLast ==
    ASSUME NEW s \in Seq(0 .. HookTime), InOrder(s), clock \in 0 .. HookTime
    PROVE  /\ Recent(s) \in Seq(0 .. HookTime) /\ InOrder(Recent(s))
           /\ \A i \in 1 .. Len(Recent(s)) : \E j \in 1 .. Len(s) : Recent(s)[i] = s[j]
           /\ Recent(s) # <<>> => s # <<>> /\ Last(Recent(s)) = Last(s)
           /\ s = <<>> => Recent(s) = <<>>
<1>1. PICK k \in 0 .. Len(s) :
         /\ Recent(s) \in Seq(0 .. HookTime) /\ Len(Recent(s)) = Len(s) - k
         /\ \A i \in 1 .. Len(s) - k : Recent(s)[i] = s[k + i]
  BY RecentIs
<1>2. Len(s) \in Nat /\ \A i \in 1 .. Len(s) : s[i] \in 0 .. HookTime
  BY LenProperties, ElementOfSeq
<1>3. \A i \in 1 .. Len(Recent(s)) : k + i \in 1 .. Len(s) /\ Recent(s)[i] = s[k + i]
  BY <1>1, <1>2
<1>4. InOrder(Recent(s))
  <2> SUFFICES ASSUME NEW i \in 1 .. Len(Recent(s)), NEW j \in 1 .. Len(Recent(s)), i <= j
               PROVE  Recent(s)[i] <= Recent(s)[j]
    BY DEF InOrder
  <2>1. k + i <= k + j /\ k + i \in 1 .. Len(s) /\ k + j \in 1 .. Len(s)
    BY <1>1, <1>2, <1>3
  <2> QED
    BY <1>3, <2>1 DEF InOrder
<1>5. ASSUME Recent(s) # <<>> PROVE s # <<>> /\ Last(Recent(s)) = Last(s)
  <2>1. Len(Recent(s)) \in Nat \ {0}
    BY <1>1, <1>5, EmptySeq, LenProperties
  <2>2. Len(s) # 0 /\ k + Len(Recent(s)) = Len(s) /\ Len(Recent(s)) \in 1 .. Len(Recent(s))
    BY <1>1, <1>2, <2>1
  <2>3. s # <<>>
    BY <2>2
  <2>4. Recent(s)[Len(Recent(s))] = s[Len(s)]
    BY <1>3, <2>2
  <2> QED
    BY <2>3, <2>4 DEF Last
<1>6. s = <<>> => Recent(s) = <<>>
  <2> SUFFICES ASSUME s = <<>> PROVE Recent(s) = <<>>
    OBVIOUS
  <2>1. Len(Recent(s)) = 0
    BY <1>1
  <2> QED
    BY <1>1, <2>1, EmptySeq
<1> QED
  BY <1>1, <1>3, <1>4, <1>5, <1>6

(* One client's times as a map of the limiter may hold them. *)
TimesOf(times, c) ==
    /\ times \in Seq(0 .. HookTime) /\ InOrder(times)
    /\ \A i \in 1 .. Len(times) : times[i] <= clock
    /\ times # <<>> => \E m \in 1 .. Len(allowed) : allowed[m] = <<c, Last(times)>>

(* Client d was evicted to make room for c. *)
Pushed(c, d) ==
    /\ window[c] = <<>> /\ Recent(window[c]) = <<>> /\ d \in Entries(Pruned)
    /\ Cardinality(Entries(Pruned)) >= MaxClients
    /\ \A e \in Entries(Pruned) : Last(Pruned[d]) <= Last(Pruned[e])

(* Moving a window on leaves such times. *)
LEMMA RecentTimes ==
    ASSUME NEW s, NEW c \in Clients, TimesOf(s, c), clock \in 0 .. HookTime
    PROVE  TimesOf(Recent(s), c)
<1>1. /\ s \in Seq(0 .. HookTime) /\ InOrder(s) /\ \A i \in 1 .. Len(s) : s[i] <= clock
      /\ s # <<>> => \E m \in 1 .. Len(allowed) : allowed[m] = <<c, Last(s)>>
  BY DEF TimesOf
<1>2. /\ Recent(s) \in Seq(0 .. HookTime) /\ InOrder(Recent(s))
      /\ \A i \in 1 .. Len(Recent(s)) : \E j \in 1 .. Len(s) : Recent(s)[i] = s[j]
      /\ Recent(s) # <<>> => s # <<>> /\ Last(Recent(s)) = Last(s)
  BY <1>1, RecentLast
<1>3. \A i \in 1 .. Len(Recent(s)) : Recent(s)[i] <= clock
  BY <1>1, <1>2
<1> QED
  BY <1>1, <1>2, <1>3 DEF TimesOf

(* The map in which a client's entry is looked up: it has room for it, and *)
(* lost at most what is out of date and one entry.                         *)
LEMMA RoomIs ==
    ASSUME Logged, Windows, NEW c \in Clients, NEW w \in WithRoom(c)
    PROVE  /\ w \in [Clients -> Seq(0 .. HookTime)]
           /\ \A d \in Clients : TimesOf(w[d], d)
           /\ IsFiniteSet(Entries(w) \cup {c}) /\ Cardinality(Entries(w) \cup {c}) <= MaxClients
           /\ \A d \in Clients : \/ w[d] = window[d] \/ w[d] = Recent(window[d])
                                 \/ w[d] = <<>> /\ d # c /\ Pushed(c, d)
<1> USE WebhookAssumption
<1>1. /\ clock \in 0 .. HookTime /\ window \in [Clients -> Seq(0 .. HookTime)]
      /\ \A d \in Clients : TimesOf(window[d], d)
  BY DEF Logged, Windows, TimesOf
<1>2. /\ IsFiniteSet(Entries(window)) /\ Cardinality(Entries(window)) <= MaxClients
      /\ Cardinality(Entries(window)) \in Nat
  BY FS_CardinalityType DEF Windows
<1>3. \A d \in Clients : TimesOf(Recent(window[d]), d) /\ (window[d] = <<>> => Recent(window[d]) = <<>>)
  BY <1>1, RecentTimes, RecentLast DEF TimesOf
<1>4. /\ Pruned \in [Clients -> Seq(0 .. HookTime)]
      /\ \A d \in Clients : Pruned[d] = Recent(window[d])
  BY <1>1, <1>3 DEF Pruned, TimesOf
<1>5. Entries(Pruned) \subseteq Entries(window)
  BY <1>3, <1>4 DEF Entries
<1>6. /\ IsFiniteSet(Entries(Pruned)) /\ Cardinality(Entries(Pruned)) \in Nat
      /\ Cardinality(Entries(Pruned)) <= MaxClients
  <2>1. /\ IsFiniteSet(Entries(Pruned)) /\ Cardinality(Entries(Pruned)) \in Nat
        /\ Cardinality(Entries(Pruned)) <= Cardinality(Entries(window))
    BY <1>2, <1>5, FS_Subset, FS_CardinalityType
  <2> QED
    BY <1>2, <2>1
<1>7. CASE window[c] # <<>> \/ Cardinality(Entries(window)) < MaxClients
  <2>1. w = window
    BY <1>7 DEF WithRoom
  <2>2. IsFiniteSet(Entries(w) \cup {c}) /\ Cardinality(Entries(w) \cup {c}) <= MaxClients
    <3>1. CASE c \in Entries(window)
      <4>1. Entries(w) \cup {c} = Entries(window)
        BY <2>1, <3>1
      <4> QED
        BY <1>2, <4>1
    <3>2. CASE c \notin Entries(window)
      <4>1. Cardinality(Entries(window)) < MaxClients
        BY <1>7, <3>2 DEF Entries
      <4>2. /\ IsFiniteSet(Entries(window) \cup {c})
            /\ Cardinality(Entries(window) \cup {c}) = Cardinality(Entries(window)) + 1
        BY <1>2, <3>2, FS_AddElement
      <4>3. Cardinality(Entries(window) \cup {c}) <= MaxClients
        BY <1>2, <4>1, <4>2
      <4> QED
        BY <2>1, <4>2, <4>3
    <3> QED
      BY <3>1, <3>2
  <2> QED
    BY <1>1, <2>1, <2>2
<1>8. CASE /\ window[c] = <<>> /\ ~(Cardinality(Entries(window)) < MaxClients)
           /\ Cardinality(Entries(Pruned)) < MaxClients
  <2>1. w = Pruned
    BY <1>8 DEF WithRoom
  <2>2. c \notin Entries(Pruned)
    BY <1>3, <1>4, <1>8 DEF Entries
  <2>3. /\ IsFiniteSet(Entries(Pruned) \cup {c})
        /\ Cardinality(Entries(Pruned) \cup {c}) = Cardinality(Entries(Pruned)) + 1
    BY <1>6, <2>2, FS_AddElement
  <2>4. Cardinality(Entries(Pruned) \cup {c}) <= MaxClients
    BY <1>6, <1>8, <2>3
  <2> QED
    BY <1>3, <1>4, <2>1, <2>3, <2>4
<1>9. CASE /\ window[c] = <<>> /\ ~(Cardinality(Entries(window)) < MaxClients)
           /\ ~(Cardinality(Entries(Pruned)) < MaxClients)
  <2>1. PICK d \in Entries(Pruned) : /\ w = [Pruned EXCEPT ![d] = <<>>]
                                     /\ \A e \in Entries(Pruned) : Last(Pruned[d]) <= Last(Pruned[e])
    BY <1>9 DEF WithRoom, Evicted
  <2>2. d \in Clients /\ d # c /\ c \notin Entries(Pruned)
    BY <1>3, <1>4, <1>9 DEF Entries
  <2>3. Pushed(c, d)
    <3>1. Cardinality(Entries(Pruned)) >= MaxClients
      BY <1>6, <1>9
    <3> QED
      BY <1>3, <1>9, <2>1, <3>1 DEF Pushed
  <2>4. w[d] = <<>> /\ \A e \in Clients \ {d} : w[e] = Recent(window[e])
    BY <1>4, <2>1, <2>2
  <2>5. TimesOf(<<>>, d)
    BY EmptySeq DEF TimesOf, InOrder
  <2>6. w \in [Clients -> Seq(0 .. HookTime)]
    BY <1>4, <2>1, EmptySeq
  <2>7. Entries(w) = Entries(Pruned) \ {d}
    BY <1>4, <2>2, <2>4 DEF Entries
  <2>8. /\ IsFiniteSet((Entries(Pruned) \ {d}) \cup {c})
        /\ Cardinality((Entries(Pruned) \ {d}) \cup {c}) = Cardinality(Entries(Pruned))
    BY <1>6, <2>1, <2>2, TakesPlace
  <2>9. IsFiniteSet(Entries(w) \cup {c}) /\ Cardinality(Entries(w) \cup {c}) <= MaxClients
    BY <1>6, <2>7, <2>8
  <2>10. \A e \in Clients : TimesOf(w[e], e)
    BY <1>3, <2>4, <2>5
  <2> QED
    BY <2>2, <2>3, <2>4, <2>6, <2>9, <2>10
<1> QED
  BY <1>7, <1>8, <1>9

(* The entries of one client in a log. *)
LEMMA PassedFinite ==
    ASSUME NEW log, NEW c, NEW i \in Nat, NEW j \in Nat
    PROVE  IsFiniteSet(Passed(log, c, i, j)) /\ Cardinality(Passed(log, c, i, j)) \in Nat
<1>1. IsFiniteSet(i .. j) /\ Passed(log, c, i, j) \subseteq i .. j
  BY FS_Interval DEF Passed
<1>2. IsFiniteSet(Passed(log, c, i, j))
  BY <1>1, FS_Subset
<1> QED
  BY <1>2, FS_CardinalityType

(* One more passes: one more of its client's, and of nobody else's. *)
LEMMA PassedGrows ==
    ASSUME NEW log \in Seq(Clients \X (0 .. HookTime)), NEW e \in Clients \X (0 .. HookTime), NEW c,
           NEW i \in 1 .. Len(log)
    PROVE  /\ \A j \in i .. Len(log) : Passed(Append(log, e), c, i, j) = Passed(log, c, i, j)
           /\ c # e[1] => Passed(Append(log, e), c, i, Len(log) + 1) = Passed(log, c, i, Len(log))
           /\ c = e[1] => Cardinality(Passed(Append(log, e), c, i, Len(log) + 1))
                             = Cardinality(Passed(log, c, i, Len(log))) + 1
<1> DEFINE l == Append(log, e)
           n == Len(log)
<1>1. /\ n \in Nat /\ Len(l) = n + 1 /\ (\A m \in 1 .. n : l[m] = log[m]) /\ l[n + 1] = e
  BY AppendProperties, LenProperties
<1> HIDE DEF l, n
<1>2. i \in 1 .. n
  BY DEF n
<1>3. \A j \in i .. n : Passed(l, c, i, j) = Passed(log, c, i, j)
  <2> SUFFICES ASSUME NEW j \in i .. n PROVE Passed(l, c, i, j) = Passed(log, c, i, j)
    OBVIOUS
  <2>1. \A m \in i .. j : l[m] = log[m]
    BY <1>1, <1>2
  <2> QED
    BY <2>1 DEF Passed
<1>4. i .. n + 1 = (i .. n) \cup {n + 1} /\ \A m \in i .. n : l[m] = log[m] /\ m # n + 1
  <2>1. i .. n + 1 = (i .. n) \cup {n + 1}
    BY <1>1, <1>2
  <2>2. \A m \in i .. n : m \in 1 .. n /\ m # n + 1
    BY <1>1, <1>2
  <2> QED
    BY <1>1, <2>1, <2>2
<1>5. c # e[1] => Passed(l, c, i, n + 1) = Passed(log, c, i, n)
  BY <1>1, <1>4 DEF Passed
<1>6. c = e[1] => Cardinality(Passed(l, c, i, n + 1)) = Cardinality(Passed(log, c, i, n)) + 1
  <2>1. c = e[1] => Passed(l, c, i, n + 1) = Passed(log, c, i, n) \cup {n + 1}
    BY <1>1, <1>4 DEF Passed
  <2>2. n + 1 \notin Passed(log, c, i, n)
    BY <1>4 DEF Passed
  <2>3. IsFiniteSet(Passed(log, c, i, n))
    BY <1>1, <1>2, PassedFinite
  <2>4. Cardinality(Passed(log, c, i, n) \cup {n + 1}) = Cardinality(Passed(log, c, i, n)) + 1
    BY <2>2, <2>3, FS_AddElement
  <2> QED
    BY <2>1, <2>4
<1> QED
  BY <1>3, <1>5, <1>6 DEF l, n

(* A request is let through, or it is not. *)
LEMMA AllowStep ==
    ASSUME Logged, Windows, StillCounted, RateHolds, NEW c \in Clients, Allow(c)
    PROVE  Logged' /\ Windows' /\ StillCounted' /\ RateHolds'
<1> USE WebhookAssumption
<1> DEFINE n == Len(allowed)
           e == <<c, clock>>
           LogType == Clients \X (0 .. HookTime)
<1>0. PICK k \in IdemKeys \cup {NoKey}, w \in WithRoom(c) :
        LET times == Recent(w[c])
            pass == Len(times) < Limit
        IN /\ window' = [w EXCEPT ![c] = IF pass THEN Append(times, clock) ELSE times]
           /\ between' = IF pass /\ k # NoKey THEN between \cup {<<arrived', k>>} ELSE between
           /\ allowed' = IF pass THEN Append(allowed, <<c, clock>>) ELSE allowed
  BY DEF Allow
<1> DEFINE times == Recent(w[c])
           pass == Len(times) < Limit
<1>1. /\ clock \in 0 .. HookTime /\ clock' = clock /\ keys' = keys /\ recorded' = recorded
      /\ allowed \in Seq(LogType) /\ e \in LogType /\ e[1] = c /\ e[2] = clock
      /\ arrived \in 0 .. MaxRequests /\ arrived' = arrived + 1 /\ arrived' \in 1 .. MaxRequests
  BY DEF Allow, Logged
<1>2. /\ n \in Nat /\ (\A i \in 1 .. n : allowed[i] \in LogType)
      /\ \A i \in 1 .. n : allowed[i][1] \in Clients /\ allowed[i][2] \in 0 .. HookTime
  BY <1>1, LenProperties, ElementOfSeq
<1>3. \/ /\ pass /\ allowed' = Append(allowed, e) /\ window' = [w EXCEPT ![c] = Append(times, clock)]
         /\ allowed' \in Seq(LogType) /\ Len(allowed') = n + 1 /\ DOMAIN allowed' = 1 .. n + 1
         /\ (\A i \in 1 .. n : allowed'[i] = allowed[i]) /\ allowed'[n + 1] = e
      \/ ~pass /\ allowed' = allowed /\ window' = [w EXCEPT ![c] = times]
  <2>1. CASE pass
    <3>1. allowed' = Append(allowed, e) /\ window' = [w EXCEPT ![c] = Append(times, clock)]
      BY <1>0, <2>1
    <3> HIDE DEF pass, times, e, LogType
    <3>2. /\ allowed' \in Seq(LogType) /\ Len(allowed') = n + 1 /\ DOMAIN allowed' = 1 .. n + 1
          /\ (\A i \in 1 .. n : allowed'[i] = allowed[i]) /\ allowed'[n + 1] = e
      BY <1>1, <3>1, AppendProperties, LenProperties
    <3> QED
      BY <2>1, <3>1, <3>2
  <2>2. CASE ~pass
    BY <1>0, <2>2
  <2> QED
    BY <2>1, <2>2
<1>4. /\ w \in [Clients -> Seq(0 .. HookTime)]
      /\ \A d \in Clients : TimesOf(w[d], d)
      /\ IsFiniteSet(Entries(w) \cup {c}) /\ Cardinality(Entries(w) \cup {c}) <= MaxClients
      /\ \A d \in Clients : \/ w[d] = window[d] \/ w[d] = Recent(window[d])
                            \/ w[d] = <<>> /\ d # c /\ Pushed(c, d)
  BY RoomIs
<1>5. TimesOf(times, c) /\ times \in Seq(0 .. HookTime) /\ Len(times) \in Nat
  BY <1>1, <1>4, RecentTimes, LenProperties DEF TimesOf
<1>6. \A d \in Clients \ {c} : window'[d] = w[d]
  BY <1>3, <1>4
<1>7. \/ pass /\ window'[c] = Append(times, clock)
      \/ ~pass /\ window'[c] = times
  BY <1>3, <1>4
<1> HIDE DEF n, e, times, pass, LogType
<1>8. \A i \in 1 .. n : allowed'[i] = allowed[i] /\ i \in 1 .. Len(allowed')
  BY <1>2, <1>3 DEF n
<1>9. Logged'
  <2>1. between' \subseteq (1 .. MaxRequests) \X IdemKeys
    BY <1>0, <1>1 DEF Logged
  <2>2. allowed' \in Seq(LogType) /\ \A i \in 1 .. Len(allowed') : allowed'[i][2] <= clock
    <3>1. \A i \in 1 .. n : allowed[i][2] <= clock
      BY DEF Logged, n
    <3>2. CASE pass
      <4>1. \A i \in 1 .. n + 1 : i = n + 1 \/ i \in 1 .. n
        BY <1>2
      <4> QED
        BY <1>1, <1>3, <3>1, <3>2, <4>1
    <3>3. CASE ~pass
      BY <1>1, <1>3, <3>1, <3>3 DEF n
    <3> QED
      BY <3>2, <3>3
  <2> QED
    BY <1>1, <2>1, <2>2 DEF Logged, LogType
<1>10. Windows'
  <2>1. \A d \in Clients : TimesOf(window[d], d)'
    <3> SUFFICES ASSUME NEW d \in Clients PROVE TimesOf(window[d], d)'
      OBVIOUS
    <3>1. ASSUME NEW s, TimesOf(s, d), window'[d] = s PROVE TimesOf(window[d], d)'
      BY <1>1, <1>8, <3>1 DEF TimesOf, n
    <3>2. CASE d # c
      BY <1>4, <1>6, <3>1, <3>2
    <3>3. CASE d = c /\ ~pass
      BY <1>5, <1>7, <3>1, <3>3
    <3>4. CASE d = c /\ pass
      <4> DEFINE s == Append(times, clock)
      <4>1. /\ s \in Seq(0 .. HookTime) /\ Len(s) = Len(times) + 1 /\ s[Len(times) + 1] = clock
            /\ \A i \in 1 .. Len(times) : s[i] = times[i]
        BY <1>1, <1>5, AppendProperties
      <4>2. \A i \in 1 .. Len(times) : times[i] <= clock /\ times[i] \in 0 .. HookTime
        BY <1>5, ElementOfSeq DEF TimesOf
      <4>3. InOrder(s) /\ \A i \in 1 .. Len(s) : s[i] <= clock
        <5>1. \A i \in 1 .. Len(s) : i \in 1 .. Len(times) \/ i = Len(times) + 1
          BY <1>5, <4>1
        <5>2. \A i \in 1 .. Len(s) : s[i] <= clock
          BY <1>1, <4>1, <4>2, <5>1
        <5>3. ASSUME NEW i \in 1 .. Len(s), NEW j \in 1 .. Len(s), i <= j PROVE s[i] <= s[j]
          <6>1. CASE j = Len(times) + 1
            BY <4>1, <5>2, <6>1
          <6>2. CASE j # Len(times) + 1
            <7>1. i \in 1 .. Len(times) /\ j \in 1 .. Len(times)
              BY <1>5, <5>1, <5>3, <6>2
            <7> QED
              BY <1>5, <4>1, <5>3, <7>1 DEF TimesOf, InOrder
          <6> QED
            BY <6>1, <6>2
        <5> QED
          BY <5>2, <5>3 DEF InOrder
      <4>4. Last(s) = clock
        BY <4>1 DEF Last
      <4>5. n + 1 \in 1 .. Len(allowed') /\ allowed'[n + 1] = <<c, Last(s)>>
        BY <1>2, <1>3, <3>4, <4>4 DEF e
      <4>6. window'[d] = s
        BY <1>7, <3>4
      <4> HIDE DEF s
      <4> QED
        BY <1>1, <3>4, <4>1, <4>3, <4>5, <4>6 DEF TimesOf
    <3> QED
      BY <3>2, <3>3, <3>4
  <2>2. Entries(window)' \subseteq Entries(w) \cup {c}
    BY <1>6 DEF Entries
  <2>3. /\ IsFiniteSet(Entries(window)') /\ Cardinality(Entries(window)') \in Nat
        /\ Cardinality(Entries(window)') <= Cardinality(Entries(w) \cup {c})
        /\ Cardinality(Entries(w) \cup {c}) \in Nat
    BY <1>4, <2>2, FS_Subset, FS_CardinalityType
  <2>4. Cardinality(Entries(window)') <= MaxClients
    BY <1>4, <2>3
  <2>5. window' \in [Clients -> Seq(0 .. HookTime)]
    <3>1. \A d \in Clients : window'[d] \in Seq(0 .. HookTime)
      BY <2>1 DEF TimesOf
    <3>2. window' = [d \in Clients |-> window'[d]]
      BY <1>3, <1>4
    <3> QED
      BY <3>1, <3>2
  <2> QED
    BY <2>1, <2>3, <2>4, <2>5 DEF Windows, TimesOf
<1>11. ASSUME NEW i \in 1 .. n, ManyCame(allowed, i, MaxClients)
       PROVE  ManyCame(allowed, i, MaxClients)'
  <2>1. CASE ~pass
    BY <1>3, <1>11, <2>1 DEF ManyCame
  <2>2. CASE pass
    <3>1. n \in 0 .. n /\ n + 1 \in n .. n + 1 /\ i \in 1 .. Len(allowed)
      BY <1>2 DEF n
    <3>2. Cardinality(OthersBetween(allowed', allowed[i][1], i, n + 1)) >= MaxClients
      <4>1. allowed' = Append(allowed, e) /\ MaxClients \in Nat
        BY <1>3, <2>2
      <4>2. Cardinality(OthersBetween(allowed, allowed[i][1], i, n)) >= MaxClients
        BY <1>11 DEF ManyCame, n
      <4>3. allowed \in Seq(Clients \X (0 .. HookTime)) /\ e \in Clients \X (0 .. HookTime)
        BY <1>1 DEF LogType
      <4> QED
        BY <3>1, <4>1, <4>2, <4>3, MoreCame DEF n
    <3> QED
      BY <1>3, <1>8, <2>2, <3>2 DEF ManyCame
  <2> QED
    BY <2>1, <2>2
(* An entry that counts in a window, and its client's times after c's look. *)
<1>12. ASSUME NEW i \in 1 .. n, clock < allowed[i][2] + Window, ~ManyCame(allowed, i, MaxClients)'
       PROVE  LET d == allowed[i][1]
                  m == Cardinality(Passed(allowed, d, i, n))
              IN  Counted(w[d], m, allowed[i][2]) /\ m \in Nat \ {0}
  <2> DEFINE d == allowed[i][1]
             t == allowed[i][2]
             m == Cardinality(Passed(allowed, d, i, n))
  <2>1. d \in Clients /\ t \in 0 .. HookTime /\ t <= clock
    BY <1>2 DEF Logged, n
  <2>2. Counted(window[d], m, t)
    BY <1>11, <1>12 DEF StillCounted, n
  <2>3. m \in Nat \ {0}
    <3>1. i \in Passed(allowed, d, i, n)
      BY <1>2 DEF Passed
    <3>2. IsFiniteSet(Passed(allowed, d, i, n)) /\ m \in Nat
      BY <1>2, PassedFinite
    <3> QED
      BY <3>1, <3>2, FS_EmptySet
  <2>4. window[d] \in Seq(0 .. HookTime) /\ InOrder(window[d]) /\ clock < t + Window
    BY <1>12, <2>1 DEF Windows
  <2> HIDE DEF d, t, m
  <2>5. Counted(Recent(window[d]), m, t)
    BY <1>1, <2>1, <2>2, <2>3, <2>4, RecentCounts
  <2>6. ~Pushed(c, d)
    <3> SUFFICES ASSUME Pushed(c, d) PROVE FALSE
      OBVIOUS
    <3> DEFINE X == Entries(Pruned)
               Y == (X \ {d}) \cup {c}
    <3>1. d \in X /\ c \notin X /\ IsFiniteSet(X) /\ Cardinality(X) >= MaxClients
      <4>1. c \notin X
        BY DEF Pushed, Entries, Pruned
      <4>2. X \subseteq Entries(window)
        <5>1. \A f \in Clients : window[f] = <<>> => Recent(window[f]) = <<>>
          BY <1>1, RecentLast DEF Windows
        <5> QED
          BY <5>1 DEF Entries, Pruned
      <4>3. IsFiniteSet(X)
        BY <4>2, FS_Subset DEF Windows
      <4> QED
        BY <4>1, <4>3 DEF Pushed
    <3>2. IsFiniteSet(Y) /\ Cardinality(Y) >= MaxClients /\ d \notin Y
      BY <3>1, TakesPlace
    <3>3. pass
      <4>1. w[c] = <<>>
        BY <1>4 DEF Pushed
      <4>2. Len(times) = 0
        BY <1>1, <4>1, RecentLast, EmptySeq DEF times, Windows, Pushed
      <4> QED
        BY <4>2 DEF pass
    <3>4. \A f \in X : /\ f \in Clients /\ window[f] # <<>> /\ Last(Recent(window[f])) = Last(window[f])
                       /\ Last(window[f]) \in 0 .. HookTime
                       /\ \E o \in 1 .. n : allowed[o] = <<f, Last(window[f])>>
      <4> SUFFICES ASSUME NEW f \in X
                   PROVE  /\ f \in Clients /\ window[f] # <<>>
                          /\ Last(Recent(window[f])) = Last(window[f])
                          /\ Last(window[f]) \in 0 .. HookTime
                          /\ \E o \in 1 .. n : allowed[o] = <<f, Last(window[f])>>
        OBVIOUS
      <4>1. f \in Clients /\ Recent(window[f]) # <<>> /\ window[f] \in Seq(0 .. HookTime)
            /\ InOrder(window[f])
        BY DEF Entries, Pruned, Windows
      <4>2. window[f] # <<>> /\ Last(Recent(window[f])) = Last(window[f])
        BY <1>1, <4>1, RecentLast
      <4>3. Last(window[f]) \in 0 .. HookTime
        <5>1. Len(window[f]) \in 1 .. Len(window[f])
          BY <4>1, <4>2, EmptySeq, LenProperties
        <5> QED
          BY <4>1, <5>1, ElementOfSeq DEF Last
      <4>4. \E o \in 1 .. n : allowed[o] = <<f, Last(window[f])>>
        BY <4>1, <4>2 DEF Windows, n
      <4> QED
        BY <4>1, <4>2, <4>3, <4>4
    <3>5. Last(window[d]) >= t
      <4> DEFINE s == window[d]
      <4>1. Len(s) \in Nat /\ m <= Len(s) /\ s[Len(s) - m + 1] >= t
        BY <2>2, <2>4, LenProperties DEF Counted
      <4>2. Len(s) - m + 1 \in 1 .. Len(s) /\ Len(s) \in 1 .. Len(s) /\ Len(s) - m + 1 <= Len(s)
        BY <2>3, <4>1
      <4>3. s[Len(s) - m + 1] <= s[Len(s)]
        BY <2>4, <4>2 DEF InOrder
      <4>4. s[Len(s) - m + 1] \in 0 .. HookTime /\ s[Len(s)] \in 0 .. HookTime
        BY <2>4, <4>2, ElementOfSeq
      <4> QED
        BY <2>1, <4>1, <4>3, <4>4 DEF Last
    <3>6. \A y \in Y : \E o \in 1 .. n + 1 : allowed'[o][1] = y /\ allowed'[o][2] >= allowed'[i][2]
      <4> SUFFICES ASSUME NEW y \in Y
                   PROVE  \E o \in 1 .. n + 1 : allowed'[o][1] = y /\ allowed'[o][2] >= t
        BY <1>8 DEF t
      <4>1. CASE y = c
        <5>1. n + 1 \in 1 .. n + 1 /\ allowed'[n + 1][1] = c /\ allowed'[n + 1][2] = clock
          BY <1>1, <1>2, <1>3, <3>3
        <5> QED
          BY <1>1, <2>1, <4>1, <5>1
      <4>2. CASE y \in X
        <5>1. PICK o \in 1 .. n : allowed[o] = <<y, Last(window[y])>>
          BY <3>4, <4>2
        <5>2. Last(window[d]) <= Last(window[y])
          <6>1. y \in Clients /\ d \in Clients /\ Last(Pruned[d]) <= Last(Pruned[y])
            BY <3>4, <4>2, <2>1 DEF Pushed
          <6> QED
            BY <3>1, <3>4, <4>2, <6>1 DEF Pruned
        <5>3. Last(window[y]) >= t
          <6>1. Last(window[y]) \in 0 .. HookTime /\ Last(window[d]) \in 0 .. HookTime
            BY <3>1, <3>4, <4>2
          <6> QED
            BY <2>1, <3>5, <5>2, <6>1
        <5>4. o \in 1 .. n + 1 /\ allowed'[o][1] = y /\ allowed'[o][2] >= t
          BY <1>2, <1>8, <5>1, <5>3
        <5> QED
          BY <5>4
      <4> QED
        BY <4>1, <4>2
    <3> HIDE DEF Y
    <3>7. Cardinality(OthersBetween(allowed', d, i, n + 1)) >= MaxClients
      <4>1. n + 1 \in Nat /\ MaxClients \in Nat
        BY <1>2
      <4> QED
        BY <3>2, <3>6, <4>1, TheyCame
    <3>8. ManyCame(allowed, i, MaxClients)'
      BY <1>3, <1>8, <3>3, <3>7 DEF ManyCame, d
    <3> QED
      BY <1>12, <3>8
  <2>7. Counted(w[d], m, t)
    BY <1>4, <2>1, <2>2, <2>5, <2>6
  <2> QED
    BY <2>3, <2>7 DEF d, t, m
(* What passing adds to the entries of a client. *)
<1>20. ASSUME pass, NEW d, NEW i \in 1 .. n
       PROVE  /\ \A j \in i .. n : Passed(allowed', d, i, j) = Passed(allowed, d, i, j)
              /\ d # c => Passed(allowed', d, i, n + 1) = Passed(allowed, d, i, n)
              /\ d = c => Cardinality(Passed(allowed', d, i, n + 1))
                             = Cardinality(Passed(allowed, d, i, n)) + 1
  <2>1. allowed \in Seq(Clients \X (0 .. HookTime)) /\ e \in Clients \X (0 .. HookTime)
    BY <1>1 DEF LogType
  <2>2. i \in 1 .. Len(allowed)
    BY DEF n
  <2>3. /\ \A j \in i .. Len(allowed) : Passed(Append(allowed, e), d, i, j) = Passed(allowed, d, i, j)
        /\ d # e[1] => Passed(Append(allowed, e), d, i, Len(allowed) + 1)
                         = Passed(allowed, d, i, Len(allowed))
        /\ d = e[1] => Cardinality(Passed(Append(allowed, e), d, i, Len(allowed) + 1))
                         = Cardinality(Passed(allowed, d, i, Len(allowed))) + 1
    BY <2>1, <2>2, PassedGrows
  <2>4. allowed' = Append(allowed, e) /\ e[1] = c
    BY <1>1, <1>3, <1>20
  <2> QED
    BY <2>3, <2>4 DEF n
<1>13. StillCounted'
  <2> SUFFICES ASSUME NEW i \in 1 .. Len(allowed'), clock < allowed'[i][2] + Window,
                      ~ManyCame(allowed, i, MaxClients)'
               PROVE  LET d == allowed'[i][1]
                          m == Cardinality(Passed(allowed', d, i, Len(allowed')))
                      IN  Counted(window'[d], m, allowed'[i][2])
    BY <1>1 DEF StillCounted
  <2>1. CASE i \in 1 .. n
    <3> DEFINE d == allowed[i][1]
               t == allowed[i][2]
               m == Cardinality(Passed(allowed, d, i, n))
    <3>1. Counted(w[d], m, t) /\ m \in Nat \ {0} /\ d \in Clients /\ t \in 0 .. HookTime
      BY <1>2, <1>8, <1>12, <2>1
    <3>2. d = c => Counted(times, m, t)
      <4>1. w[d] \in Seq(0 .. HookTime) /\ InOrder(w[d]) /\ clock < t + Window
        BY <1>4, <1>8, <2>1, <3>1 DEF TimesOf
      <4> HIDE DEF d, m, t
      <4>2. Counted(Recent(w[d]), m, t)
        BY <1>1, <3>1, <4>1, RecentCounts
      <4> QED
        BY <4>2 DEF times
    <3>3. allowed'[i][1] = d /\ allowed'[i][2] = t
      BY <1>8, <2>1
    <3>4. CASE ~pass
      <4>1. allowed' = allowed /\ Len(allowed') = n
        BY <1>3, <3>4 DEF n
      <4>2. Counted(window'[d], m, t)
        <5> HIDE DEF d, m, t
        <5> QED
          BY <1>6, <1>7, <3>1, <3>2, <3>4
      <4> QED
        BY <4>1, <4>2
    <3>5. CASE pass
      <4>1. allowed' = Append(allowed, e) /\ Len(allowed') = n + 1 /\ e[1] = c
            /\ allowed \in Seq(Clients \X (0 .. HookTime)) /\ e \in Clients \X (0 .. HookTime)
        BY <1>1, <1>3, <3>5 DEF LogType
      <4>2. /\ d # c => Passed(allowed', d, i, n + 1) = Passed(allowed, d, i, n)
            /\ d = c => Cardinality(Passed(allowed', d, i, n + 1)) = m + 1
        <5> HIDE DEF d, t
        <5> QED
          BY <1>20, <2>1, <3>5
      <4> HIDE DEF m, t, d
      <4>3. CASE d # c
        <5>1. Counted(window'[d], m, t)
          BY <1>6, <3>1, <4>3
        <5> QED
          BY <3>3, <4>1, <4>2, <4>3, <5>1 DEF m
      <4>4. CASE d = c
        <5>1. window'[d] = Append(times, clock)
          BY <1>7, <3>5, <4>4
        <5>2. Counted(Append(times, clock), m + 1, t)
          BY <1>1, <1>5, <3>1, <3>2, <4>4, AppendCounts
        <5> QED
          BY <3>3, <4>1, <4>2, <4>4, <5>1, <5>2
      <4> QED
        BY <4>3, <4>4
    <3> QED
      BY <3>4, <3>5
  <2>2. CASE i \notin 1 .. n
    <3>1. pass /\ i = n + 1 /\ Len(allowed') = n + 1 /\ allowed'[i] = e
      BY <1>2, <1>3, <2>2 DEF n
    <3>2. Passed(allowed', c, i, n + 1) = {n + 1}
      BY <1>1, <1>2, <3>1 DEF Passed
    <3>3. Cardinality({n + 1}) = 1
      BY FS_Singleton
    <3>4. Counted(Append(times, clock), 1, clock)
      <4>1. Len(Append(times, clock)) = Len(times) + 1 /\ Append(times, clock)[Len(times) + 1] = clock
        BY <1>1, <1>5, AppendProperties
      <4>2. 1 <= Len(times) + 1 /\ (Len(times) + 1) - 1 + 1 = Len(times) + 1
        BY <1>5
      <4> QED
        BY <1>1, <4>1, <4>2 DEF Counted
    <3>5. window'[c] = Append(times, clock)
      BY <1>7, <3>1
    <3> QED
      BY <1>1, <3>1, <3>2, <3>3, <3>4, <3>5
  <2> QED
    BY <2>1, <2>2
<1>14. RateHolds'
  <2>1. CASE ~pass
    <3>1. allowed' = allowed
      BY <1>3, <2>1
    <3> QED
      BY <3>1 DEF RateHolds, OthersBetween
  <2>2. CASE pass
    <3> SUFFICES ASSUME NEW d \in Clients, NEW i \in 1 .. n + 1, NEW j \in 1 .. n + 1,
                        i <= j, allowed'[i][1] = d, allowed'[j][1] = d,
                        allowed'[j][2] < allowed'[i][2] + Window,
                        Cardinality(Passed(allowed', d, i, j)) > Limit
                 PROVE  Cardinality(OthersBetween(allowed', d, i, j)) >= MaxClients
      BY <1>3, <2>2 DEF RateHolds, Passed
    <3>0. allowed' = Append(allowed, e) /\ Len(allowed') = n + 1 /\ e[1] = c
          /\ allowed \in Seq(Clients \X (0 .. HookTime)) /\ e \in Clients \X (0 .. HookTime)
      BY <1>1, <1>3, <2>2 DEF LogType
    <3>1. CASE j \in 1 .. n
      <4>1. i \in 1 .. n /\ j \in i .. n /\ j \in 0 .. n /\ j \in j .. n + 1
        BY <1>2, <3>1
      <4>2. Passed(allowed', d, i, j) = Passed(allowed, d, i, j)
        BY <1>20, <2>2, <4>1
      <4>3. allowed'[i] = allowed[i] /\ allowed'[j] = allowed[j] /\ DOMAIN allowed = 1 .. n
        BY <1>1, <1>8, <3>1, <4>1, LenProperties DEF n
      <4>4. Cardinality(OthersBetween(allowed, d, i, j)) >= MaxClients
        <5>1. Cardinality({m \in i .. j : allowed[m][1] = d}) > Limit
          BY <4>2 DEF Passed
        <5> QED
          BY <3>1, <4>1, <4>3, <5>1 DEF RateHolds
      <4> QED
        BY <3>0, <4>1, <4>4, MoreCame DEF n
    <3>2. CASE j = n + 1
      <4>1. d = c /\ allowed'[j][2] = clock
        BY <1>1, <1>3, <2>2, <3>2
      <4>2. CASE i = n + 1
        <5>1. Passed(allowed', d, i, j) = {n + 1}
          BY <1>2, <3>2, <4>2 DEF Passed
        <5>2. Cardinality({n + 1}) = 1
          BY FS_Singleton
        <5> QED
          BY <5>1, <5>2
      <4>3. CASE i \in 1 .. n
        <5> DEFINE t == allowed[i][2]
                   m == Cardinality(Passed(allowed, c, i, n))
        <5>1. allowed[i][1] = c /\ clock < t + Window /\ t \in 0 .. HookTime
          BY <1>2, <1>8, <4>1, <4>3
        <5>2. CASE ManyCame(allowed, i, MaxClients)'
          BY <1>3, <2>2, <3>2, <5>2 DEF ManyCame
        <5>3. CASE ~ManyCame(allowed, i, MaxClients)'
          <6>1. Counted(w[c], m, t) /\ m \in Nat \ {0}
            BY <1>12, <4>3, <5>1, <5>3
          <6>2. w[c] \in Seq(0 .. HookTime) /\ InOrder(w[c])
            BY <1>4 DEF TimesOf
          <6>3. Cardinality(Passed(allowed', c, i, n + 1)) = m + 1
            BY <1>20, <2>2, <4>3
          <6> HIDE DEF t, m
          <6>4. Counted(times, m, t)
            BY <1>1, <5>1, <6>1, <6>2, RecentCounts DEF times
          <6>5. m <= Len(times) /\ Len(times) < Limit
            BY <2>2, <6>4 DEF Counted, pass
          <6>6. ~(m + 1 > Limit)
            BY <1>5, <6>1, <6>5
          <6> QED
            BY <3>2, <4>1, <6>3, <6>6
        <5> QED
          BY <5>2, <5>3
      <4> QED
        BY <1>2, <4>2, <4>3
    <3> QED
      BY <1>2, <3>1, <3>2
  <2> QED
    BY <2>1, <2>2
<1> QED
  BY <1>9, <1>10, <1>13, <1>14

-----------------------------------------------------------------------------
(* Every step keeps the invariant. *)
LEMMA HookStep == HookInv /\ [HookNext]_hookVars => HookInv'
<1> SUFFICES ASSUME HookInv, [HookNext]_hookVars PROVE HookInv'
  OBVIOUS
<1> USE WebhookAssumption DEF HookInv
<1>0. /\ clock \in 0 .. HookTime /\ arrived \in 0 .. MaxRequests
      /\ allowed \in Seq(Clients \X (0 .. HookTime)) /\ recorded \in Seq(IdemKeys \X (0 .. HookTime))
      /\ Len(allowed) \in Nat /\ Len(recorded) \in Nat
      /\ (\A i \in 1 .. Len(allowed) : allowed[i][2] \in 0 .. HookTime)
      /\ (\A i \in 1 .. Len(recorded) : recorded[i][1] \in IdemKeys /\ recorded[i][2] \in 0 .. HookTime)
  BY LenProperties, ElementOfSeq DEF Logged
<1>1. ASSUME NEW c \in Clients, Allow(c) PROVE HookInv'
  <2>1. UNCHANGED <<clock, keys, recorded>>
    BY <1>1 DEF Allow
  <2>2. Keys' /\ WorkedOnOnce'
    <3>1. Keys'
      BY <2>1 DEF Keys, Recorded, Never
    <3>2. WorkedOnOnce'
      BY <2>1 DEF WorkedOnOnce, OthersBetween
    <3> QED
      BY <3>1, <3>2
  <2>3. StillKnown'
    BY <2>1 DEF StillKnown, ManyCame, OthersBetween, Never
  <2> QED
    BY <1>1, <2>2, <2>3, AllowStep
<1>2. ASSUME NEW r, NEW k \in IdemKeys, Record(r, k) PROVE HookInv'
  <2>1. UNCHANGED <<clock, window, arrived, allowed>> /\ between' \subseteq between
    BY <1>2 DEF Record
  <2>2. Windows' /\ StillCounted' /\ RateHolds'
    <3>1. Windows'
      BY <2>1 DEF Windows, Entries
    <3>2. StillCounted'
      BY <2>1 DEF StillCounted, ManyCame, OthersBetween, Passed
    <3>3. RateHolds'
      BY <2>1 DEF RateHolds, OthersBetween
    <3> QED
      BY <3>1, <3>2, <3>3
  <2>3. CASE Fresh[k] # Never /\ keys' = Fresh /\ UNCHANGED recorded
    <3>1. /\ Fresh \in [IdemKeys -> 0 .. Never]
          /\ \A l \in IdemKeys : Fresh[l] # Never => Fresh[l] = keys[l]
          /\ \A l \in IdemKeys : keys[l] # Never /\ clock < keys[l] + Ttl => Fresh[l] = keys[l]
          /\ IsFiniteSet(Recorded(Fresh)) /\ Cardinality(Recorded(Fresh)) <= MaxKeys
      BY FreshIs
    <3>2. Recorded(keys)' = Recorded(Fresh)
      BY <2>3 DEF Recorded, Never
    <3>3. Keys'
      <4>1. \A l \in IdemKeys : keys'[l] # Never =>
               keys'[l] <= clock /\ \E m \in 1 .. Len(recorded) : recorded[m] = <<l, keys'[l]>>
        BY <2>3, <3>1 DEF Keys
      <4>2. IsFiniteSet(Recorded(keys)') /\ Cardinality(Recorded(keys)') <= MaxKeys
        BY <3>1, <3>2
      <4> QED
        BY <2>1, <2>3, <3>1, <4>1, <4>2 DEF Keys, Recorded, Never
    <3>4. StillKnown'
      <4> SUFFICES ASSUME NEW i \in 1 .. Len(recorded), clock < recorded[i][2] + Ttl,
                          ~ManyCame(recorded, i, MaxKeys)
                   PROVE  /\ keys'[recorded[i][1]] # Never
                          /\ keys'[recorded[i][1]] >= recorded[i][2]
        BY <2>1, <2>3 DEF StillKnown, ManyCame, OthersBetween, Never
      <4> DEFINE l == recorded[i][1]
                 t == recorded[i][2]
      <4>1. keys[l] # Never /\ keys[l] >= t /\ l \in IdemKeys /\ t \in 0 .. HookTime /\ clock < t + Ttl
        BY <1>0 DEF StillKnown
      <4> HIDE DEF l, t
      <4>2. keys[l] \in 0 .. Never
        BY <4>1 DEF Keys
      <4>3. clock < keys[l] + Ttl
        BY <1>0, <4>1, <4>2 DEF Never
      <4>4. keys'[l] = keys[l]
        BY <2>3, <3>1, <4>1, <4>3
      <4> QED
        BY <4>1, <4>4 DEF l, t
    <3>5. WorkedOnOnce'
      BY <2>3 DEF WorkedOnOnce, OthersBetween
    <3>6. Logged'
      BY <2>1, <2>3 DEF Logged
    <3> QED
      BY <2>2, <3>3, <3>4, <3>5, <3>6
  <2>4. CASE /\ Fresh[k] = Never
             /\ \E s \in RoomMade : keys' = [s EXCEPT ![k] = clock]
             /\ recorded' = Append(recorded, <<k, clock>>)
    <3>1. Keys' /\ StillKnown' /\ WorkedOnOnce'
      BY <2>1, <2>4, RecordStep
    <3>2. Logged'
      <4>1. <<k, clock>> \in IdemKeys \X (0 .. HookTime)
        BY <1>0
      <4>2. /\ recorded' \in Seq(IdemKeys \X (0 .. HookTime)) /\ Len(recorded') = Len(recorded) + 1
            /\ (\A i \in 1 .. Len(recorded) : recorded'[i] = recorded[i])
            /\ recorded'[Len(recorded) + 1] = <<k, clock>>
        BY <1>0, <2>4, <4>1, AppendProperties
      <4>3. \A i \in 1 .. Len(recorded') : recorded'[i][2] <= clock
        <5>1. \A i \in 1 .. Len(recorded') : i \in 1 .. Len(recorded) \/ i = Len(recorded) + 1
          BY <1>0, <4>2
        <5>2. \A i \in 1 .. Len(recorded) : recorded[i][2] <= clock
          BY DEF Logged
        <5>3. recorded'[Len(recorded) + 1][2] <= clock
          BY <1>0, <4>2
        <5> QED
          BY <4>2, <5>1, <5>2, <5>3
      <4> QED
        BY <2>1, <4>2, <4>3 DEF Logged
    <3> QED
      BY <2>2, <3>1, <3>2
  <2> QED
    BY <1>2, <2>3, <2>4 DEF Record
<1>3. CASE HookTick
  <2>1. clock' = clock + 1 /\ clock' \in 0 .. HookTime
        /\ UNCHANGED <<window, keys, arrived, between, allowed, recorded>>
    BY <1>0, <1>3 DEF HookTick
  <2>2. Logged'
    <3>1. /\ \A i \in 1 .. Len(allowed) : allowed[i][2] <= clock + 1
          /\ \A i \in 1 .. Len(recorded) : recorded[i][2] <= clock + 1
      BY <1>0 DEF Logged
    <3> QED
      BY <2>1, <3>1 DEF Logged
  <2>3. Windows'
    <3>1. \A c \in Clients : \A i \in 1 .. Len(window[c]) : window[c][i] <= clock + 1
      <4> SUFFICES ASSUME NEW c \in Clients, NEW i \in 1 .. Len(window[c])
                   PROVE  window[c][i] <= clock + 1
        OBVIOUS
      <4>1. window[c][i] \in 0 .. HookTime /\ window[c][i] <= clock
        BY ElementOfSeq DEF Windows
      <4> QED
        BY <1>0, <4>1
    <3> QED
      BY <2>1, <3>1 DEF Windows, Entries
  <2>4. Keys'
    <3>1. \A k \in IdemKeys : keys[k] # Never => keys[k] <= clock + 1
      BY <1>0 DEF Keys, Never
    <3> QED
      BY <2>1, <3>1 DEF Keys, Recorded, Never
  <2>5. StillCounted'
    <3>1. \A i \in 1 .. Len(allowed) : clock + 1 < allowed[i][2] + Window => clock < allowed[i][2] + Window
      BY <1>0
    <3> QED
      BY <2>1, <3>1 DEF StillCounted, ManyCame, OthersBetween, Passed
  <2>6. StillKnown'
    <3>1. \A i \in 1 .. Len(recorded) : clock + 1 < recorded[i][2] + Ttl => clock < recorded[i][2] + Ttl
      BY <1>0
    <3> QED
      BY <2>1, <3>1 DEF StillKnown, ManyCame, OthersBetween, Never
  <2>7. RateHolds' /\ WorkedOnOnce'
    BY <2>1 DEF RateHolds, WorkedOnOnce, OthersBetween
  <2> QED
    BY <2>2, <2>3, <2>4, <2>5, <2>6, <2>7
<1>4. CASE UNCHANGED hookVars
  <2>1. UNCHANGED <<clock, window, keys, arrived, between, allowed, recorded>>
    BY <1>4 DEF hookVars
  <2>2. Logged' /\ Windows' /\ Keys'
    BY <2>1 DEF Logged, Windows, Entries, Keys, Recorded, Never
  <2>3. StillCounted' /\ StillKnown' /\ RateHolds' /\ WorkedOnOnce'
    BY <2>1 DEF StillCounted, StillKnown, RateHolds, WorkedOnOnce, ManyCame, OthersBetween, Passed, Never
  <2> QED
    BY <2>2, <2>3
<1> QED
  BY <1>1, <1>2, <1>3, <1>4 DEF HookNext

(* It holds always. *)
LEMMA HookInvHolds == HookSpec => []HookInv
<1> QED
  BY HookInitially, HookStep, PTL DEF HookSpec

(* The limiter and the store never hold more entries than max_keys, and    *)
(* every window holds times that were: evict_oldest and retain in          *)
(* ratelimit.rs, for every limit, window and ttl.                          *)
THEOREM HookTypeCorrect == HookSpec => []HookTypeOK
<1>1. HookInv => HookTypeOK
  BY DEF HookInv, Logged, Windows, Keys, HookTypeOK, Entries, Recorded
<1> QED
  BY <1>1, HookInvHolds, PTL

(* SlidingWindowRateLimiter::allow: nobody passes more than                *)
(* limit_per_window times within a window, unless max_keys others came in  *)
(* between and pushed the client's entry out.                              *)
THEOREM RateLimitHolds == HookSpec => []RateHolds
<1>1. HookInv => RateHolds
  BY DEF HookInv
<1> QED
  BY <1>1, HookInvHolds, PTL

(* IdempotencyStore::record_if_new: a key sent again within the ttl is not *)
(* worked on again, unless max_keys others came in between and pushed it   *)
(* out.                                                                    *)
THEOREM KeysWorkedOnce == HookSpec => []WorkedOnOnce
<1>1. HookInv => WorkedOnOnce
  BY DEF HookInv
<1> QED
  BY <1>1, HookInvHolds, PTL

=============================================================================
