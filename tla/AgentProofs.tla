---------------------------- MODULE AgentProofs -----------------------------
(***************************************************************************)
(* The agent's history, its requests and its tools: what it keeps of its   *)
(* turns (AgentHistory), for any numbers of turns, iterations and kept     *)
(* turns, one request to its model (ReliableProvider), for any chain of    *)
(* models and providers, calls of remote tools (RemoteTools), for any set  *)
(* of calls and any size of the request channel, and the registry that     *)
(* tools are found in (ToolRegistry), for any threads, names, tools,       *)
(* sources and filters.  The four share no name and no state; each has a   *)
(* section of its own.                                                     *)
(***************************************************************************)
EXTENDS RemoteTools, ToolRegistry, AgentHistory, ReliableProvider, SequenceLemmas, TLAPS

-----------------------------------------------------------------------------
(***************************************************************************)
(* The agent's history, for any numbers of turns, iterations and kept      *)
(* turns and with native tool messages: with the XML dispatcher a tool     *)
(* result counts as a user's message, and the compaction may then fold the *)
(* question of the turn under way.  The invariant says that the last       *)
(* question is in the history, near enough to its end that no cut reaches  *)
(* it (AsksLast); that stored rows and history are in step (Matched), so   *)
(* that the count of what was folded never exceeds the rows it stands for; *)
(* and that a stored compaction stands for rows before the last question   *)
(* (RowsAsk, SkipsTold).  SameInv says more of the time in which every     *)
(* turn ended well: the counts are exact.                                  *)
(***************************************************************************)

InTurn == stage \in {"start", "top", "asked"}

HistShape ==
    /\ HistTypeOK
    /\ \A i \in 1 .. Len(rows) : rows[i].role \in {"user", "assistant", "part"}
    /\ IF InTurn THEN number \in 1 .. MaxTurns ELSE number = 0 /\ round = 0 /\ ~partial
    /\ stage = "off" => history = <<>>
    /\ mode = "trim" => saved = NoCompaction

(* The last question of a turn is there, and what came of the turn is less *)
(* than what a trimmed history has room for.                               *)
AsksLast ==
    /\ InTurn => history # <<>>
    /\ history # <<>> => \E i \in 1 .. Len(history) :
          /\ history[i].role = "user"
          /\ \A k \in i + 1 .. Len(history) : history[k].role \notin {"user", "summary"}
          /\ InTurn => history[i].turn = number
          /\ InTurn /\ mode = "trim" => Len(history) - i <= 2 * round

(* The stored rows have a question that no connection skips. *)
RowsAsk ==
    /\ rows # <<>> => \E q \in 1 .. Len(rows) : rows[q].role = "user" /\ saved.count < q
    /\ rows = <<>> => history = <<>> /\ saved.count = 0
    /\ partial => rows # <<>> /\ rows[Len(rows)].role = "part"

(* Message e of a history is row b of a table t and those before it up to  *)
(* a are answers cut short; tool traffic and a summary are no rows.        *)
IsRow(e, a, b, t) ==
    IF Stored(e)
    THEN a < b /\ t[b] = e /\ \A r \in a + 1 .. b - 1 : t[r].role = "part"
    ELSE b = a

(* at[i] rows are accounted for before message i of the history, by the    *)
(* compaction or by the messages before it.                                *)
Accounts(at, h, t, c) ==
    /\ at \in [1 .. Len(h) + 1 -> 0 .. Len(t)]
    /\ c.count <= at[1]
    /\ \A r \in 1 .. at[1] : t[r] \in c.tells \/ t[r].role = "part"
    /\ \A i \in 1 .. Len(h) : at[i] <= at[i + 1] /\ IsRow(h[i], at[i], at[i + 1], t)
    /\ \A r \in at[Len(h) + 1] + 1 .. Len(t) : t[r].role = "part"

Matched == mode = "compact" /\ stage # "off" =>
    \E at : /\ Accounts(at, history, rows, folded)
            /\ partial => at[Len(history) + 1] < Len(rows)

SkipsTold ==
    \A r \in 1 .. Len(rows) : r <= saved.count => rows[r] \in saved.tells \/ rows[r].role = "part"

HistInv == HistShape /\ AsksLast /\ Paired /\ RowsAsk /\ Matched /\ SkipsTold

-----------------------------------------------------------------------------
(* The operators of a history. *)
Item == Entry \cup {Summary}

(* What the roles of messages say of them. *)
LEMMA ItemKinds ==
    ASSUME NativeTools
    PROVE  /\ Summary \notin Entry /\ Summary.role = "summary" /\ ~Stored(Summary)
           /\ \A e \in Entry : e.role # "summary" /\ e # Summary
           /\ \A e \in Item : e.role = "summary" <=> e = Summary
           /\ \A e \in Item : IsQuestion(e) <=> e.role = "user"
           /\ \A e \in Item : Stored(e) <=> e.role \in {"user", "assistant", "part"}
           /\ \A e \in Item : IsUserEntry(e) <=> e.role \in {"user", "summary"}
BY DEF Item, Entry, Summary, Stored, IsQuestion, IsUserEntry

(* The front of a sequence and one more at its end. *)
LEMMA SummaryThen ==
    ASSUME NEW h \in Seq(Item), NEW n \in 1 .. Len(h) + 1
    PROVE  /\ <<Summary>> \o SubSeq(h, n, Len(h)) \in Seq(Item)
           /\ Len(<<Summary>> \o SubSeq(h, n, Len(h))) = Len(h) - n + 2
           /\ (<<Summary>> \o SubSeq(h, n, Len(h)))[1] = Summary
           /\ \A i \in 2 .. Len(h) - n + 2 :
                 (<<Summary>> \o SubSeq(h, n, Len(h)))[i] = h[n + i - 2]
<1> DEFINE s == SubSeq(h, n, Len(h))
           f == <<Summary>>
<1>0. Len(h) \in Nat
  BY LenProperties
<1>1. /\ s \in Seq(Item) /\ Len(s) = Len(h) - n + 1
      /\ \A i \in 1 .. Len(h) - n + 1 : s[i] = h[n + i - 1]
  BY BackOf
<1>2. f \in Seq(Item) /\ Len(f) = 1 /\ f[1] = Summary
  BY DEF Item
<1> HIDE DEF s, f
<1>3. /\ f \o s \in Seq(Item) /\ Len(f \o s) = Len(f) + Len(s)
      /\ \A i \in 1 .. Len(f) + Len(s) : (f \o s)[i] = IF i <= Len(f) THEN f[i] ELSE s[i - Len(f)]
  <2>1. f \in Seq(Item) /\ s \in Seq(Item)
    BY <1>1, <1>2
  <2> QED
    BY <2>1, ConcatProperties
<1>4. Len(f) + Len(s) = Len(h) - n + 2 /\ 1 \in 1 .. Len(f) + Len(s)
  BY <1>0, <1>1, <1>2
<1>5. \A i \in 2 .. Len(h) - n + 2 : (f \o s)[i] = h[n + i - 2]
  <2> SUFFICES ASSUME NEW i \in 2 .. Len(h) - n + 2 PROVE (f \o s)[i] = h[n + i - 2]
    OBVIOUS
  <2>1. /\ i \in 1 .. Len(f) + Len(s) /\ ~(i <= Len(f)) /\ i - Len(f) = i - 1
        /\ i - 1 \in 1 .. Len(h) - n + 1 /\ n + (i - 1) - 1 = n + i - 2
    BY <1>0, <1>2, <1>4
  <2>2. (f \o s)[i] = s[i - 1]
    BY <1>3, <2>1
  <2> QED
    BY <1>1, <2>1, <2>2
<1> QED
  BY <1>2, <1>3, <1>4, <1>5 DEF s, f

(* A batch of calls and results at the end. *)
LEMMA TwoMore ==
    ASSUME NEW h \in Seq(Item), NEW a \in Item, NEW b \in Item
    PROVE  /\ h \o <<a, b>> \in Seq(Item) /\ Len(h \o <<a, b>>) = Len(h) + 2
           /\ \A i \in 1 .. Len(h) : (h \o <<a, b>>)[i] = h[i]
           /\ (h \o <<a, b>>)[Len(h) + 1] = a /\ (h \o <<a, b>>)[Len(h) + 2] = b
<1> DEFINE s == <<a, b>>
<1>1. s \in Seq(Item) /\ Len(s) = 2 /\ s[1] = a /\ s[2] = b /\ Len(h) \in Nat
  BY LenProperties
<1> HIDE DEF s
<1>2. /\ h \o s \in Seq(Item) /\ Len(h \o s) = Len(h) + Len(s)
      /\ \A i \in 1 .. Len(h) + Len(s) : (h \o s)[i] = IF i <= Len(h) THEN h[i] ELSE s[i - Len(h)]
  BY <1>1, ConcatProperties
<1>3. /\ Len(h) + 1 \in 1 .. Len(h) + 2 /\ ~(Len(h) + 1 <= Len(h)) /\ Len(h) + 1 - Len(h) = 1
      /\ Len(h) + 2 \in 1 .. Len(h) + 2 /\ ~(Len(h) + 2 <= Len(h)) /\ Len(h) + 2 - Len(h) = 2
      /\ \A i \in 1 .. Len(h) : i \in 1 .. Len(h) + 2 /\ i <= Len(h)
  BY <1>1
<1>4. Len(h) + Len(s) = Len(h) + 2
  BY <1>1
<1>5. /\ \A i \in 1 .. Len(h) : (h \o s)[i] = h[i]
      /\ (h \o s)[Len(h) + 1] = s[1] /\ (h \o s)[Len(h) + 2] = s[2]
  BY <1>2, <1>3, <1>4
<1> QED
  BY <1>1, <1>2, <1>4, <1>5 DEF s

(* trim_history drops a beginning, and never between calls and results. *)
LEMMA TrimmedIs ==
    ASSUME NEW h \in Seq(Item)
    PROVE  \E c \in 0 .. Len(h) :
              /\ Trimmed(h) = SubSeq(h, c + 1, Len(h))
              /\ c < Len(h) => c = 0 \/ h[c + 1].role # "results"
              /\ mode = "compact" => c = 0
              /\ \A i \in 1 .. Len(h) : i <= c /\ Len(h) - i < Room => h[i].role = "results"
<1>0. Len(h) \in Nat /\ Room \in Nat /\ SubSeq(h, 1, Len(h)) = h
  <2>1. Len(h) \in Nat /\ Len(h) \in 0 .. Len(h)
    BY LenProperties
  <2>2. SubSeq(h, 1, Len(h)) \in Seq(Item) /\ Len(SubSeq(h, 1, Len(h))) = Len(h)
        /\ \A i \in 1 .. Len(h) : SubSeq(h, 1, Len(h))[i] = h[i]
    BY <2>1, FrontOf
  <2>3. SubSeq(h, 1, Len(h)) = h
    BY <2>2, SeqEqual
  <2> QED
    BY <2>1, <2>3, AgentHistoryAssumption DEF Room
<1>1. CASE mode = "compact" \/ Len(h) <= Room
  <2>1. Trimmed(h) = h
    BY <1>1 DEF Trimmed
  <2>2. 0 \in 0 .. Len(h) /\ Trimmed(h) = SubSeq(h, 0 + 1, Len(h))
    BY <1>0, <2>1
  <2>3. \A i \in 1 .. Len(h) : ~(i <= 0)
    BY <1>0
  <2> QED
    BY <2>2, <2>3
<1>2. CASE ~(mode = "compact" \/ Len(h) <= Room)
  <2> DEFINE P(n) == /\ \A m \in Len(h) - Room .. n - 1 : h[m + 1].role = "results"
                     /\ n < Len(h) => h[n + 1].role # "results"
             J == {m \in 1 .. Len(h) + 1 : m > Len(h) - Room /\ (m = Len(h) + 1 \/ h[m].role # "results")}
             cut == CHOOSE n \in Len(h) - Room .. Len(h) : P(n)
  <2>1. Len(h) > Room /\ Len(h) - Room \in 1 .. Len(h)
    BY <1>0, <1>2
  <2>2. \E n \in Len(h) - Room .. Len(h) : P(n)
    <3>1. Len(h) + 1 \in J /\ J \in SUBSET (1 .. Len(h) + 1) /\ Len(h) + 1 \in Nat
      BY <1>0, <2>1
    <3>2. Min(J) \in J /\ \A m \in J : Min(J) <= m
      BY <3>1, MinOf
    <3> DEFINE b == Min(J)
    <3>3. /\ b \in 1 .. Len(h) + 1 /\ b > Len(h) - Room /\ (b = Len(h) + 1 \/ h[b].role # "results")
          /\ \A m \in J : b <= m
      BY <3>2
    <3> HIDE DEF b
    <3>4. b - 1 \in Len(h) - Room .. Len(h) /\ (b - 1) + 1 = b
      BY <1>0, <2>1, <3>3
    <3>5. \A m \in Len(h) - Room .. (b - 1) - 1 : h[m + 1].role = "results"
      <4> SUFFICES ASSUME NEW m \in Len(h) - Room .. (b - 1) - 1, h[m + 1].role # "results"
                   PROVE  FALSE
        OBVIOUS
      <4>1. m + 1 \in 1 .. Len(h) + 1 /\ m + 1 > Len(h) - Room /\ m + 1 < b
        BY <1>0, <2>1, <3>3
      <4> QED
        BY <3>3, <4>1
    <3>6. P(b - 1)
      BY <1>0, <3>3, <3>4, <3>5
    <3> HIDE DEF P
    <3> QED
      BY <3>4, <3>6
  <2>3. cut \in Len(h) - Room .. Len(h) /\ P(cut)
    <3> HIDE DEF P
    <3> QED
      BY <2>2
  <2>4. Trimmed(h) = SubSeq(h, cut + 1, Len(h))
    BY <1>2 DEF Trimmed
  <2> HIDE DEF cut
  <2>5. \A i \in 1 .. Len(h) : i <= cut /\ Len(h) - i < Room => h[i].role = "results"
    <3> SUFFICES ASSUME NEW i \in 1 .. Len(h), i <= cut, Len(h) - i < Room
                 PROVE  h[i].role = "results"
      OBVIOUS
    <3>1. i - 1 \in Len(h) - Room .. cut - 1 /\ (i - 1) + 1 = i
      BY <1>0, <2>1, <2>3
    <3> QED
      BY <2>3, <3>1
  <2>6. cut \in 0 .. Len(h) /\ (cut < Len(h) => h[cut + 1].role # "results")
    BY <1>0, <2>1, <2>3
  <2> HIDE DEF P, J
  <2> QED
    BY <1>2, <2>4, <2>5, <2>6
<1> QED
  BY <1>1, <1>2

(* The tail that a compaction keeps begins with a question. *)
LEMMA BoundaryIs ==
    ASSUME NativeTools, NEW h \in Seq(Item), NEW n \in Boundaries(h)
    PROVE  n \in 1 .. Len(h) /\ h[n].role = "user"
<1> DEFINE I == Items(h)
           Q == Questions(h)
           first == Min(I)
<1>0. Len(h) \in Nat /\ DOMAIN h = 1 .. Len(h) /\ KeepTurns \in Nat \ {0}
  BY LenProperties, AgentHistoryAssumption
<1>1. I \in SUBSET (1 .. Len(h))
  BY <1>0 DEF Items
<1>2. Q \in SUBSET I /\ (\A i \in Q : h[i].role = "user") /\ Q = {i \in I : IsQuestion(h[i])}
  BY DEF Questions, IsQuestion
<1>3. ~(Cardinality(I) <= 1)
  BY DEF Boundaries
<1>4. I # {}
  <2>1. Cardinality({}) = 0
    BY FS_EmptySet
  <2> QED
    BY <1>3, <2>1
<1>5. first \in I /\ \A k \in I : first <= k
  BY <1>0, <1>1, <1>4, MinOf
<1>6. KeptFrom(h) = first \/ KeptFrom(h) \in Q
  <2>1. CASE Cardinality(Q) < KeepTurns
    BY <2>1 DEF KeptFrom
  <2>2. CASE ~(Cardinality(Q) < KeepTurns)
    <3>1. Q \in SUBSET (1 .. Len(h))
      BY <1>1, <1>2
    <3>2. Cardinality(Q) \in Nat
      BY <1>0, <3>1, PlacesFinite
    <3>3. KeepTurns \in 1 .. Cardinality(Q)
      BY <1>0, <2>2, <3>2
    <3>4. \E i \in Q : Cardinality({j \in Q : j >= i}) = KeepTurns
      BY <1>0, <3>1, <3>3, RankFromEnd
    <3>5. KeptFrom(h) = CHOOSE i \in Q : Cardinality({j \in Q : j >= i}) = KeepTurns
      BY <2>2 DEF KeptFrom
    <3> HIDE DEF Q
    <3> QED
      BY <3>4, <3>5
  <2> QED
    BY <2>1, <2>2
<1>7. ASSUME NEW i \in I
      PROVE  /\ TurnStart(h, i) \in I /\ TurnStart(h, i) <= i
             /\ TurnStart(h, i) \in Q \/ TurnStart(h, i) = first
  <2> DEFINE J == {j \in I : j <= i /\ (IsQuestion(h[j]) \/ j = first)}
  <2>1. J \in SUBSET (1 .. Len(h)) /\ first \in J
    BY <1>1, <1>5
  <2>2. Max(J) \in J
    BY <1>0, <2>1, MaxOf
  <2>3. TurnStart(h, i) = Max(J)
    BY DEF TurnStart
  <2> QED
    BY <1>2, <2>2, <2>3
<1> DEFINE K == KeptFrom(h)
           s(i) == TurnStart(h, i)
<1>8. PICK i \in I : i <= K /\ n = (IF s(i) > first THEN s(i) ELSE K) /\ n # first
  <2>1. Boundaries(h) = {IF t > first THEN t ELSE K : t \in {s(i) : i \in {j \in I : j <= K}}} \ {first}
    BY <1>3 DEF Boundaries
  <2> HIDE DEF I, K, s, first
  <2> QED
    BY <2>1
<1> HIDE DEF I, Q, first, K, s
<1>9. n \in Q
  <2>1. s(i) \in I /\ (s(i) \in Q \/ s(i) = first)
    BY <1>7 DEF s
  <2>2. K = first \/ K \in Q
    BY <1>6 DEF K
  <2>3. first \in Nat /\ ~(first > first)
    BY <1>1, <1>5
  <2> QED
    BY <1>8, <2>1, <2>2, <2>3
<1> QED
  BY <1>1, <1>2, <1>9

-----------------------------------------------------------------------------
(* Both sequences by their elements. *)
LEMMA Both ==
    ASSUME HistShape
    PROVE  /\ history \in Seq(Item) /\ Len(history) \in Nat /\ DOMAIN history = 1 .. Len(history)
           /\ rows \in Seq(Entry) /\ Len(rows) \in Nat /\ DOMAIN rows = 1 .. Len(rows)
           /\ \A i \in 1 .. Len(history) : history[i] \in Item
           /\ \A r \in 1 .. Len(rows) : rows[r] \in Entry
           /\ (history = <<>> <=> Len(history) = 0) /\ (rows = <<>> <=> Len(rows) = 0)
<1>1. history \in Seq(Item) /\ rows \in Seq(Entry)
  BY DEF HistShape, HistTypeOK, Item
<1>2. \A i \in 1 .. Len(history) : history[i] \in Item
  BY <1>1, ElementOfSeq
<1>3. \A r \in 1 .. Len(rows) : rows[r] \in Entry
  BY <1>1, ElementOfSeq
<1> QED
  BY <1>1, <1>2, <1>3, LenProperties, EmptySeq

(* Nothing is a number of turns and of rounds. *)
LEMMA Zeros == 0 \in 0 .. MaxTurns /\ 0 \in 0 .. MaxIterations
BY AgentHistoryAssumption

(* Initially there is nothing. *)
LEMMA HistStarts == HistInit => HistInv
<1> SUFFICES ASSUME HistInit PROVE HistInv
  OBVIOUS
<1> USE DEF HistInit
<1>1. /\ <<>> \in Seq(Entry \cup {Summary}) /\ <<>> \in Seq(Entry) /\ Len(<<>>) = 0 /\ DOMAIN <<>> = {}
  OBVIOUS
<1>2. HistShape
  <2>1. HistTypeOK
    <3>1. history \in Seq(Entry \cup {Summary}) /\ rows \in Seq(Entry)
      BY <1>1
    <3>2. partial \in BOOLEAN /\ clean \in BOOLEAN
      OBVIOUS
    <3> QED
      BY <3>1, <3>2, Zeros DEF HistTypeOK, NoCompaction
  <2>2. (stage \notin {"start", "top", "asked"}) /\ (\A i \in 1 .. Len(rows) : FALSE)
    BY <1>1
  <2> QED
    BY <2>1, <2>2 DEF HistShape, InTurn
<1>3. AsksLast /\ Paired /\ RowsAsk /\ Matched /\ SkipsTold
  BY <1>1 DEF AsksLast, Paired, RowsAsk, Matched, SkipsTold, InTurn, NoCompaction
<1> QED
  BY <1>2, <1>3 DEF HistInv

(* Steps that leave both sequences alone. *)
LEMMA LeftAlone ==
    ASSUME HistInv, HistShape', UNCHANGED <<history, rows, folded, saved, mode>>,
           partial' => partial, stage # "off",
           stage' \in {"start", "top", "asked"} => InTurn /\ number' = number /\ round' = round
    PROVE  HistInv'
<1> USE DEF HistInv
<1>1. AsksLast'
  BY DEF AsksLast, InTurn
<1>2. Paired'
  BY DEF Paired
<1>3. RowsAsk'
  BY DEF RowsAsk
<1>4. Matched'
  BY DEF Matched
<1>5. SkipsTold'
  BY DEF SkipsTold
<1> QED
  BY <1>1, <1>2, <1>3, <1>4, <1>5

(* The turn goes on without a compaction ... *)
LEMMA NoCompactStep == HistInv /\ NoCompact => HistInv'
<1> SUFFICES ASSUME HistInv, NoCompact PROVE HistInv'
  OBVIOUS
<1>1. HistShape'
  BY DEF HistInv, NoCompact, HistShape, HistTypeOK, InTurn
<1> QED
  BY <1>1, LeftAlone DEF NoCompact, HistInv, InTurn

(* ... or is over and leaves everything as it was. *)
LEMMA FailedStep == HistInv /\ Failed => HistInv'
<1> SUFFICES ASSUME HistInv, Failed PROVE HistInv'
  OBVIOUS
<1>1. HistShape'
  BY Zeros DEF HistInv, Failed, Over, HistShape, HistTypeOK, InTurn
<1> QED
  BY <1>1, LeftAlone DEF Failed, Over, HistInv, InTurn

(* The connection goes and takes the agent along. *)
LEMMA GoneStep == HistInv /\ Gone => HistInv'
<1> SUFFICES ASSUME HistInv, Gone PROVE HistInv'
  OBVIOUS
<1> USE DEF HistInv, Gone
<1>1. /\ <<>> \in Seq(Entry \cup {Summary}) /\ Len(<<>>) = 0 /\ DOMAIN <<>> = {}
  OBVIOUS
<1>2. HistShape'
  <2>1. clean' \in BOOLEAN /\ partial' \in BOOLEAN
    OBVIOUS
  <2> QED
    BY <1>1, <2>1, Zeros DEF HistShape, HistTypeOK, NoCompaction, InTurn
<1>3. AsksLast' /\ Paired'
  BY <1>1 DEF AsksLast, Paired, InTurn
<1>4. RowsAsk' /\ Matched' /\ SkipsTold'
  BY <1>1 DEF RowsAsk, Matched, SkipsTold
<1> QED
  BY <1>2, <1>3, <1>4

(* What is accounted for grows with the history. *)
LEMMA Grows ==
    ASSUME NEW h \in Seq(Item), NEW t \in Seq(Entry), NEW c, NEW at, Accounts(at, h, t, c)
    PROVE  /\ \A i \in 1 .. Len(h) + 1 : at[i] \in 0 .. Len(t)
           /\ \A i, k \in 1 .. Len(h) + 1 : i <= k => at[i] <= at[k]
<1> DEFINE n == Len(h)
           Bad == {k \in 1 .. n + 1 : \E i \in 1 .. n + 1 : i <= k /\ ~(at[i] <= at[k])}
<1>0. n \in Nat /\ Len(t) \in Nat
  BY LenProperties
<1>1. \A i \in 1 .. n + 1 : at[i] \in 0 .. Len(t) /\ at[i] \in Nat
  BY DEF Accounts
<1>2. \A i \in 1 .. n : at[i] <= at[i + 1]
  BY DEF Accounts
<1>3. Bad = {}
  <2> SUFFICES ASSUME Bad # {} PROVE FALSE
    OBVIOUS
  <2>1. Bad \in SUBSET (1 .. n + 1) /\ n + 1 \in Nat
    BY <1>0
  <2> DEFINE k == Min(Bad)
  <2>2. k \in Bad /\ \A j \in Bad : k <= j
    BY <2>1, MinOf
  <2> HIDE DEF k
  <2>3. PICK i \in 1 .. n + 1 : i <= k /\ ~(at[i] <= at[k])
    BY <2>2
  <2>4. k \in 1 .. n + 1 /\ i # k
    BY <1>1, <2>2, <2>3
  <2>5. k - 1 \in 1 .. n /\ k - 1 \in 1 .. n + 1 /\ i <= k - 1 /\ (k - 1) + 1 = k /\ ~(k <= k - 1)
    BY <1>0, <2>3, <2>4
  <2>6. k - 1 \notin Bad
    BY <2>2, <2>5
  <2>7. at[i] <= at[k - 1] /\ at[k - 1] <= at[k]
    BY <1>2, <2>5, <2>6
  <2>8. at[i] \in Nat /\ at[k - 1] \in Nat /\ at[k] \in Nat
    BY <1>1, <2>3, <2>4, <2>5
  <2>9. at[i] <= at[k]
    BY ONLY <2>7, <2>8
  <2> QED
    BY <2>3, <2>9
<1> QED
  BY <1>1, <1>3

(* A history is as well accounted for by another table that has the rows   *)
(* it needs, and after them only answers cut short.                        *)
LEMMA OtherTable ==
    ASSUME NEW h \in Seq(Item), NEW t \in Seq(Entry), NEW c, NEW at, Accounts(at, h, t, c),
           NEW w \in Seq(Entry), NEW k \in 0 .. Len(t), k <= Len(w), at[Len(h) + 1] <= k,
           \A r \in 1 .. k : w[r] = t[r],
           \A r \in k + 1 .. Len(w) : w[r].role = "part"
    PROVE  Accounts(at, h, w, c)
<1> DEFINE n == Len(h)
<1>0. n \in Nat /\ Len(t) \in Nat /\ Len(w) \in Nat /\ n + 1 \in 1 .. n + 1 /\ 1 \in 1 .. n + 1
  BY LenProperties
<1>1. \A i \in 1 .. n + 1 : at[i] \in 0 .. k
  <2>1. \A i \in 1 .. n + 1 : at[i] \in 0 .. Len(t) /\ i <= n + 1
    BY <1>0, Grows
  <2>2. \A i \in 1 .. n + 1 : at[i] <= at[n + 1]
    BY <1>0, <2>1, Grows
  <2>3. at[n + 1] \in Nat
    BY <1>0, <2>1
  <2> QED
    BY <2>1, <2>2, <2>3
<1>2. at \in [1 .. n + 1 -> 0 .. Len(w)]
  <2>1. \A x \in 0 .. k : x \in 0 .. Len(w)
    BY <1>0
  <2>2. at \in [1 .. n + 1 -> 0 .. Len(t)]
    BY DEF Accounts
  <2> QED
    BY <1>1, <2>1, <2>2
<1>3. c.count <= at[1] /\ \A r \in 1 .. at[1] : w[r] \in c.tells \/ w[r].role = "part"
  <2>1. \A r \in 1 .. at[1] : r \in 1 .. k
    BY <1>0, <1>1
  <2> QED
    BY <2>1 DEF Accounts
<1>4. ASSUME NEW i \in 1 .. n
      PROVE  at[i] <= at[i + 1] /\ IsRow(h[i], at[i], at[i + 1], w)
  <2>1. i \in 1 .. n + 1 /\ i + 1 \in 1 .. n + 1
    BY <1>0
  <2>2. at[i] \in 0 .. k /\ at[i + 1] \in 0 .. k
    BY <1>1, <2>1
  <2>3. at[i] <= at[i + 1] /\ IsRow(h[i], at[i], at[i + 1], t)
    BY DEF Accounts
  <2>4. at[i] < at[i + 1] => at[i + 1] \in 1 .. k
    BY <2>2
  <2>5. \A r \in at[i] + 1 .. at[i + 1] - 1 : r \in 1 .. k
    BY <2>2
  <2> QED
    BY <2>3, <2>4, <2>5 DEF IsRow
<1>5. ASSUME NEW r \in at[n + 1] + 1 .. Len(w) PROVE w[r].role = "part"
  <2>1. at[n + 1] \in 0 .. k
    BY <1>0, <1>1
  <2>2. (r \in at[n + 1] + 1 .. Len(t) /\ r \in 1 .. k) \/ r \in k + 1 .. Len(w)
    BY <1>0, <2>1
  <2>3. \A x \in at[n + 1] + 1 .. Len(t) : t[x].role = "part"
    BY DEF Accounts
  <2> QED
    BY <2>2, <2>3
<1> QED
  BY <1>2, <1>3, <1>4, <1>5 DEF Accounts

(* One message more, a row at the end of the table or none. *)
LEMMA OneMore ==
    ASSUME NEW h \in Seq(Item), NEW t \in Seq(Entry), NEW c, NEW at, Accounts(at, h, t, c),
           NEW e \in Item, NEW w \in Seq(Entry), Len(t) <= Len(w), \A r \in 1 .. Len(t) : w[r] = t[r],
           NEW b \in 0 .. Len(w), at[Len(h) + 1] <= b, IsRow(e, at[Len(h) + 1], b, w),
           \A r \in b + 1 .. Len(w) : w[r].role = "part"
    PROVE  \E at2 : Accounts(at2, Append(h, e), w, c) /\ at2[Len(Append(h, e)) + 1] = b
<1> DEFINE n == Len(h)
           h2 == Append(h, e)
           at2 == [i \in 1 .. n + 2 |-> IF i <= n + 1 THEN at[i] ELSE b]
<1>0. n \in Nat /\ Len(t) \in Nat /\ Len(w) \in Nat /\ n + 1 \in 1 .. n + 1 /\ 1 \in 1 .. n + 1
  BY LenProperties
<1>1. /\ h2 \in Seq(Item) /\ Len(h2) = n + 1 /\ h2[n + 1] = e
      /\ \A i \in 1 .. n : h2[i] = h[i]
  BY AppendProperties
<1>2. \A i \in 1 .. n + 1 : at[i] \in 0 .. Len(t)
  BY Grows
<1>3. /\ \A i \in 1 .. n + 1 : at2[i] = at[i]
      /\ at2[n + 2] = b
  BY <1>0
<1>4. at2 \in [1 .. n + 2 -> 0 .. Len(w)]
  <2>1. \A x \in 0 .. Len(t) : x \in 0 .. Len(w)
    BY <1>0
  <2>2. \A i \in 1 .. n + 2 : i <= n + 1 => i \in 1 .. n + 1
    BY <1>0
  <2> QED
    BY <1>2, <2>1, <2>2
<1> HIDE DEF at2, h2
<1>5. c.count <= at2[1] /\ \A r \in 1 .. at2[1] : w[r] \in c.tells \/ w[r].role = "part"
  <2>1. at2[1] = at[1] /\ \A r \in 1 .. at[1] : r \in 1 .. Len(t)
    BY <1>0, <1>2, <1>3
  <2> QED
    BY <2>1 DEF Accounts
<1>6. ASSUME NEW i \in 1 .. n + 1
      PROVE  at2[i] <= at2[i + 1] /\ IsRow(h2[i], at2[i], at2[i + 1], w)
  <2>1. CASE i \in 1 .. n
    <3>1. i + 1 \in 1 .. n + 1
      BY <1>0, <2>1
    <3>2. at[i] \in 0 .. Len(t) /\ at[i + 1] \in 0 .. Len(t)
      BY <1>2, <3>1
    <3>3. at[i] <= at[i + 1] /\ IsRow(h[i], at[i], at[i + 1], t)
      BY <2>1 DEF Accounts
    <3>4. at[i] < at[i + 1] => at[i + 1] \in 1 .. Len(t)
      BY <3>2
    <3>5. \A r \in at[i] + 1 .. at[i + 1] - 1 : r \in 1 .. Len(t)
      BY <1>0, <3>2
    <3>6. IsRow(h[i], at[i], at[i + 1], w)
      BY <3>3, <3>4, <3>5 DEF IsRow
    <3> QED
      BY <1>1, <1>3, <2>1, <3>1, <3>3, <3>6
  <2>2. CASE i = n + 1
    <3>1. i + 1 = n + 2
      BY <1>0, <2>2
    <3> QED
      BY <1>0, <1>1, <1>3, <2>2, <3>1
  <2> QED
    BY <1>0, <2>1, <2>2
<1>7. (n + 1) + 1 = n + 2
  BY <1>0
<1>8. Accounts(at2, h2, w, c)
  BY <1>1, <1>3, <1>4, <1>5, <1>6, <1>7 DEF Accounts
<1> QED
  BY <1>1, <1>3, <1>7, <1>8 DEF h2

(* The last question of a history is the last of the table ... *)
LEMMA QuestionRow ==
    ASSUME NativeTools,
           NEW h \in Seq(Item), NEW t \in Seq(Entry), NEW c, NEW at, Accounts(at, h, t, c),
           NEW q \in 1 .. Len(h), h[q].role = "user",
           \A k \in q + 1 .. Len(h) : h[k].role # "user"
    PROVE  /\ at[q + 1] \in 1 .. Len(t) /\ at[1] < at[q + 1] /\ t[at[q + 1]] = h[q]
           /\ \A r \in at[q + 1] + 1 .. Len(t) : t[r].role # "user"
<1> DEFINE n == Len(h)
           m == at[q + 1]
<1>0. n \in Nat /\ Len(t) \in Nat /\ n + 1 \in 1 .. n + 1 /\ 1 \in 1 .. n + 1
  BY LenProperties
<1>1. \A i \in 1 .. n + 1 : at[i] \in 0 .. Len(t)
  BY Grows
<1>2. q \in 1 .. n + 1 /\ q + 1 \in 1 .. n + 1 /\ 1 <= q
  BY <1>0
<1>3. m \in 1 .. Len(t) /\ at[1] < m /\ t[m] = h[q]
  <2>1. Stored(h[q])
    BY DEF Stored
  <2>2. at[q] < m /\ t[m] = h[q]
    BY <2>1 DEF Accounts, IsRow
  <2>3. at[1] <= at[q]
    BY <1>0, <1>2, Grows
  <2>4. at[1] \in Nat /\ at[q] \in Nat /\ m \in 0 .. Len(t)
    BY <1>0, <1>1, <1>2
  <2> QED
    BY <2>2, <2>3, <2>4
<1>4. ASSUME NEW r \in m + 1 .. Len(t) PROVE t[r].role # "user"
  <2>1. r \in Nat /\ m < r
    BY <1>3
  <2>2. CASE at[n + 1] < r
    <3>1. at[n + 1] \in 0 .. Len(t)
      BY <1>0, <1>1
    <3>2. r \in at[n + 1] + 1 .. Len(t)
      BY <2>1, <2>2, <3>1
    <3> QED
      BY <3>2 DEF Accounts
  <2>3. CASE ~(at[n + 1] < r)
    <3> DEFINE K == {k \in 1 .. n : k > q /\ r <= at[k + 1]}
    <3>1. at[n + 1] \in Nat /\ r <= at[n + 1]
      BY <1>0, <1>1, <2>1, <2>3
    <3>2. n \in K
      <4>1. n # q
        BY <1>3, <2>1, <3>1
      <4> QED
        BY <1>0, <1>2, <3>1, <4>1
    <3>3. Min(K) \in K /\ \A k \in K : Min(K) <= k
      <4>1. K \in SUBSET (1 .. n) /\ K # {}
        BY <3>2
      <4> QED
        BY <1>0, <4>1, MinOf
    <3> DEFINE k == Min(K)
    <3>4. k \in 1 .. n /\ k > q /\ r <= at[k + 1] /\ \A x \in K : k <= x
      BY <3>3
    <3> HIDE DEF k
    <3>5. at[k] < r /\ at[k] \in Nat
      <4>0. k \in 1 .. n + 1 /\ at[k] \in Nat
        BY <1>0, <1>1, <3>4
      <4>1. CASE k = q + 1
        BY <2>1, <4>0, <4>1
      <4>2. CASE k # q + 1
        <5>1. k - 1 \in 1 .. n /\ k - 1 > q /\ ~(k <= k - 1) /\ (k - 1) + 1 = k
          BY <1>0, <3>4, <4>2
        <5>2. ~(r <= at[k])
          BY <3>4, <5>1
        <5> QED
          BY <2>1, <4>0, <5>2
      <4> QED
        BY <4>1, <4>2
    <3>6. at[k + 1] \in 0 .. Len(t)
      <4>1. k + 1 \in 1 .. n + 1
        BY <1>0, <3>4
      <4> QED
        BY <1>1, <4>1
    <3>7. IsRow(h[k], at[k], at[k + 1], t) /\ at[k + 1] # at[k]
      BY <3>4, <3>5, <3>6, <2>1 DEF Accounts
    <3>8. h[k].role # "user"
      <4>1. k \in q + 1 .. Len(h)
        BY <1>0, <3>4
      <4> QED
        BY <4>1
    <3>9. r = at[k + 1] \/ r \in at[k] + 1 .. at[k + 1] - 1
      BY <2>1, <3>4, <3>5, <3>6
    <3> QED
      BY <3>7, <3>8, <3>9 DEF IsRow
  <2> QED
    BY <2>2, <2>3
<1> QED
  BY <1>3, <1>4

(* ... and what comes up to it is accounted for by what comes up to it.    *)
LEMMA UpToQuestion ==
    ASSUME NativeTools,
           NEW h \in Seq(Item), NEW t \in Seq(Entry), NEW c, NEW at, Accounts(at, h, t, c),
           NEW q \in 1 .. Len(h), h[q].role = "user",
           \A k \in q + 1 .. Len(h) : h[k].role # "user"
    PROVE  \E at2 : Accounts(at2, SubSeq(h, 1, q), SubSeq(t, 1, at[q + 1]), c)
<1> DEFINE n == Len(h)
           m == at[q + 1]
           h2 == SubSeq(h, 1, q)
           w == SubSeq(t, 1, m)
           at2 == [i \in 1 .. q + 1 |-> at[i]]
<1>0. n \in Nat /\ Len(t) \in Nat /\ n + 1 \in 1 .. n + 1 /\ 1 \in 1 .. n + 1
  BY LenProperties
<1>1. \A i \in 1 .. n + 1 : at[i] \in 0 .. Len(t)
  BY Grows
<1>2. q \in 1 .. n + 1 /\ q + 1 \in 1 .. n + 1 /\ 1 <= q
  BY <1>0
<1>3. m \in 1 .. Len(t)
  BY QuestionRow
<1>5. h2 \in Seq(Item) /\ Len(h2) = q /\ \A i \in 1 .. q : h2[i] = h[i]
  <2>1. q \in 0 .. Len(h)
    BY <1>0
  <2> QED
    BY <2>1, FrontOf
<1>6. w \in Seq(Entry) /\ Len(w) = m /\ \A i \in 1 .. m : w[i] = t[i]
  <2> HIDE DEF m
  <2>1. m \in 0 .. Len(t)
    BY <1>0, <1>3
  <2> QED
    BY <2>1, FrontOf
<1>7. \A i \in 1 .. q + 1 : at2[i] = at[i] /\ at[i] \in 0 .. m
  <2>1. \A i \in 1 .. q + 1 : i \in 1 .. n + 1 /\ i <= q + 1
    BY <1>0
  <2>2. \A i \in 1 .. q + 1 : at[i] <= m /\ at[i] \in 0 .. Len(t)
    BY <1>1, <1>2, <2>1, Grows
  <2> QED
    BY <1>3, <2>2
<1>8. at2 \in [1 .. q + 1 -> 0 .. m]
  BY <1>7
<1>9. at2[1] = at[1] /\ \A r \in 1 .. at[1] : r \in 1 .. m
  <2>1. 1 \in 1 .. q + 1
    BY <1>2
  <2>2. at2[1] = at[1] /\ at[1] \in 0 .. m
    BY <1>7, <2>1
  <2> QED
    BY <1>3, <2>2
<1> HIDE DEF at2, h2, w, m
<1>10. c.count <= at2[1] /\ \A r \in 1 .. at2[1] : w[r] \in c.tells \/ w[r].role = "part"
  BY <1>6, <1>9 DEF Accounts
<1>11. ASSUME NEW i \in 1 .. q
       PROVE  at2[i] <= at2[i + 1] /\ IsRow(h2[i], at2[i], at2[i + 1], w)
  <2>1. i \in 1 .. q + 1 /\ i + 1 \in 1 .. q + 1 /\ i \in 1 .. n
    BY <1>0
  <2>2. at[i] \in 0 .. m /\ at[i + 1] \in 0 .. m /\ at2[i] = at[i] /\ at2[i + 1] = at[i + 1]
    BY <1>7, <2>1
  <2>3. at[i] <= at[i + 1] /\ IsRow(h[i], at[i], at[i + 1], t)
    BY <2>1 DEF Accounts
  <2>4. at[i] < at[i + 1] => at[i + 1] \in 1 .. m
    BY <1>3, <2>2
  <2>5. \A r \in at[i] + 1 .. at[i + 1] - 1 : r \in 1 .. m
    BY <1>3, <2>2
  <2>6. IsRow(h[i], at[i], at[i + 1], w)
    BY <1>6, <2>3, <2>4, <2>5 DEF IsRow
  <2> QED
    BY <1>5, <2>2, <2>3, <2>6
<1>12. \A r \in at2[q + 1] + 1 .. m : FALSE
  <2>1. at2[q + 1] = m
    BY <1>2 DEF at2, m
  <2> QED
    BY <1>3, <2>1
<1>13. Accounts(at2, h2, w, c)
  BY <1>5, <1>6, <1>8, <1>10, <1>11, <1>12 DEF Accounts
<1> QED
  BY <1>13 DEF h2, w, m

(* The messages in front of n that are rows are no more than the rows that *)
(* are accounted for in front of it.                                       *)
LEMMA RowsInFront ==
    ASSUME NEW h \in Seq(Item), NEW t \in Seq(Entry), NEW c, NEW at, Accounts(at, h, t, c),
           c.count \in Nat, NEW n \in 1 .. Len(h)
    PROVE  LET K == {i \in Items(h) : i < n /\ Stored(h[i])}
           IN  Cardinality(K) \in Nat /\ c.count + Cardinality(K) <= at[n]
<1> DEFINE K == {i \in Items(h) : i < n /\ Stored(h[i])}
           T == at[1] + 1 .. at[n]
           f == [i \in K |-> at[i + 1]]
<1>0. Len(h) \in Nat /\ DOMAIN h = 1 .. Len(h) /\ 1 \in 1 .. Len(h) + 1 /\ n \in 1 .. Len(h) + 1
  BY LenProperties
<1>1. \A i \in 1 .. Len(h) + 1 : at[i] \in 0 .. Len(t) /\ at[i] \in Nat
  BY Grows
<1>2. at[1] \in Nat /\ at[n] \in Nat /\ at[1] <= at[n] /\ c.count <= at[1]
  <2>1. \A i, k \in 1 .. Len(h) + 1 : i <= k => at[i] <= at[k]
    BY Grows
  <2>2. 1 <= n /\ c.count <= at[1]
    BY DEF Accounts
  <2> QED
    BY <1>0, <1>1, <2>1, <2>2
<1>3. \A i \in K : i \in 1 .. Len(h) /\ i < n /\ Stored(h[i])
  BY <1>0 DEF Items
<1>4. ASSUME NEW i \in K PROVE at[i] < at[i + 1] /\ at[i + 1] \in T
  <2>1. i \in 1 .. Len(h) /\ i < n /\ i \in 1 .. Len(h) + 1 /\ i + 1 \in 1 .. Len(h) + 1 /\ i + 1 <= n /\ 1 <= i
    BY <1>0, <1>3
  <2>2. at[i] < at[i + 1]
    BY <1>3, <2>1 DEF Accounts, IsRow
  <2>3. at[1] <= at[i] /\ at[i + 1] <= at[n]
    BY <1>0, <2>1, Grows
  <2>4. at[i] \in Nat /\ at[i + 1] \in Nat
    BY <1>1, <2>1
  <2> QED
    BY <1>2, <2>2, <2>3, <2>4
<1>5. ASSUME NEW i \in K, NEW j \in K, i < j PROVE at[i + 1] < at[j + 1]
  <2>1. i + 1 \in 1 .. Len(h) + 1 /\ j \in 1 .. Len(h) + 1 /\ j + 1 \in 1 .. Len(h) + 1 /\ i + 1 <= j
    BY <1>0, <1>3, <1>5
  <2>2. at[i + 1] <= at[j] /\ at[j] < at[j + 1]
    BY <1>4, <2>1, Grows
  <2>3. at[i + 1] \in Nat /\ at[j] \in Nat /\ at[j + 1] \in Nat
    BY <1>1, <2>1
  <2> QED
    BY <2>2, <2>3
<1>6. \A i, j \in K : i # j => f[i] # f[j]
  <2> SUFFICES ASSUME NEW i \in K, NEW j \in K, i # j PROVE at[i + 1] # at[j + 1]
    OBVIOUS
  <2>1. i < j \/ j < i
    BY <1>3
  <2>2. at[i + 1] \in T /\ at[j + 1] \in T
    BY <1>4
  <2>3. at[i + 1] < at[j + 1] \/ at[j + 1] < at[i + 1]
    BY <1>5, <2>1
  <2> QED
    BY <1>2, <2>2, <2>3
<1>7. f \in Injection(K, T)
  <2>1. f \in [K -> T]
    BY <1>4
  <2> HIDE DEF f, K, T
  <2> QED
    BY <1>6, <2>1 DEF Injection, IsInjective
<1>8. IsFiniteSet(T) /\ Cardinality(T) = at[n] - at[1]
  <2>1. at[1] + 1 \in Int /\ at[n] \in Int
    BY <1>2
  <2>2. IsFiniteSet(T) /\ Cardinality(T) = IF at[1] + 1 > at[n] THEN 0 ELSE at[n] - (at[1] + 1) + 1
    BY <2>1, FS_Interval
  <2> HIDE DEF T
  <2> QED
    BY <1>2, <2>2
<1> HIDE DEF f, K, T
<1>9. IsFiniteSet(K) /\ Cardinality(K) <= Cardinality(T)
  BY <1>7, <1>8, FS_Injection
<1>10. Cardinality(K) \in Nat
  BY <1>9, FS_CardinalityType
<1>11. c.count + Cardinality(K) <= at[n]
  BY <1>2, <1>8, <1>9, <1>10
<1> QED
  BY <1>10, <1>11 DEF K

(* After a compaction the summary accounts for what was in front. *)
LEMMA Folds ==
    ASSUME NativeTools,
           NEW h \in Seq(Item), NEW t \in Seq(Entry), NEW c, NEW at, Accounts(at, h, t, c),
           NEW n \in 1 .. Len(h), NEW c2, c2.count <= at[n],
           \A e \in c.tells : e \in c2.tells, \A i \in Items(h) : i < n => h[i] \in c2.tells
    PROVE  LET h2 == <<Summary>> \o SubSeq(h, n, Len(h))
           IN  \E at2 : Accounts(at2, h2, t, c2) /\ at2[Len(h2) + 1] = at[Len(h) + 1]
<1> DEFINE l == Len(h)
           h2 == <<Summary>> \o SubSeq(h, n, Len(h))
           at2 == [i \in 1 .. l - n + 3 |-> IF i = 1 THEN at[n] ELSE at[n + i - 2]]
<1>0. l \in Nat /\ Len(t) \in Nat /\ DOMAIN h = 1 .. l /\ n \in 1 .. l + 1 /\ 1 \in 1 .. l + 1
  BY LenProperties
<1>1. \A i \in 1 .. l + 1 : at[i] \in 0 .. Len(t) /\ at[i] \in Nat
  BY Grows
<1>2. h2 \in Seq(Item) /\ Len(h2) = l - n + 2 /\ h2[1] = Summary
      /\ \A i \in 2 .. l - n + 2 : h2[i] = h[n + i - 2]
  BY <1>0, SummaryThen
<1>3. /\ at2[1] = at[n] /\ at2[2] = at[n] /\ at2[l - n + 3] = at[l + 1]
      /\ \A i \in 2 .. l - n + 3 : at2[i] = at[n + i - 2]
  <2>1. /\ 1 \in 1 .. l - n + 3 /\ 2 \in 1 .. l - n + 3 /\ n + 2 - 2 = n
        /\ l - n + 3 \in 1 .. l - n + 3 /\ l - n + 3 # 1 /\ n + (l - n + 3) - 2 = l + 1
        /\ \A i \in 2 .. l - n + 3 : i \in 1 .. l - n + 3 /\ i # 1
    BY <1>0
  <2> QED
    BY <2>1
<1>4. at2 \in [1 .. l - n + 3 -> 0 .. Len(t)]
  <2>1. ASSUME NEW i \in 1 .. l - n + 3, i # 1 PROVE n + i - 2 \in 1 .. l + 1
    BY <1>0, <2>1
  <2> QED
    BY <1>0, <1>1, <2>1
<1>5. ASSUME NEW r \in 1 .. at[n] PROVE t[r] \in c2.tells \/ t[r].role = "part"
  <2>0. at[1] \in Nat /\ at[n] \in Nat
    BY <1>0, <1>1
  <2>1. CASE r <= at[1]
    <3>1. r \in 1 .. at[1]
      BY <2>0, <2>1
    <3> QED
      BY <3>1 DEF Accounts
  <2>2. CASE ~(r <= at[1])
    <3> DEFINE K == {k \in 1 .. l : k < n /\ r <= at[k + 1]}
               k == Min(K)
    <3>1. K \in SUBSET (1 .. l) /\ K # {}
      <4>1. n # 1
        BY <2>0, <2>2
      <4>2. n - 1 \in 1 .. l /\ n - 1 < n /\ (n - 1) + 1 = n /\ r <= at[n]
        BY <1>0, <2>0, <4>1
      <4> QED
        BY <4>2
    <3>2. k \in K /\ \A x \in K : k <= x
      BY <1>0, <3>1, MinOf
    <3> HIDE DEF k
    <3>3. k \in 1 .. l /\ k < n /\ r <= at[k + 1] /\ k \in 1 .. l + 1 /\ k + 1 \in 1 .. l + 1
      BY <1>0, <3>2
    <3>4. at[k] \in Nat /\ at[k + 1] \in Nat
      BY <1>1, <3>3
    <3>5. at[k] < r
      <4>1. CASE k = 1
        BY <2>0, <2>2, <4>1
      <4>2. CASE k # 1
        <5>1. k - 1 \in 1 .. l /\ k - 1 < n /\ ~(k <= k - 1) /\ (k - 1) + 1 = k
          BY <1>0, <3>3, <4>2
        <5>2. ~(r <= at[k])
          BY <3>2, <5>1
        <5> QED
          BY <2>0, <3>4, <5>2
      <4> QED
        BY <4>1, <4>2
    <3>6. IsRow(h[k], at[k], at[k + 1], t) /\ at[k + 1] # at[k]
      BY <3>3, <3>4, <3>5 DEF Accounts
    <3>7. r = at[k + 1] \/ r \in at[k] + 1 .. at[k + 1] - 1
      BY <2>0, <3>3, <3>4, <3>5
    <3>8. h[k] # Summary
      BY <3>6, ItemKinds DEF IsRow
    <3>9. k \in Items(h)
      BY <1>0, <3>3, <3>8 DEF Items
    <3>10. h[k] \in c2.tells
      BY <3>3, <3>9
    <3> QED
      BY <3>6, <3>7, <3>10 DEF IsRow
  <2> QED
    BY <2>1, <2>2
<1> HIDE DEF at2, h2
<1>6. ASSUME NEW i \in 1 .. l - n + 2
      PROVE  at2[i] <= at2[i + 1] /\ IsRow(h2[i], at2[i], at2[i + 1], t)
  <2>1. CASE i = 1
    <3>1. at2[i] = at[n] /\ at2[i + 1] = at[n] /\ h2[i] = Summary /\ at[n] \in Nat
      BY <1>0, <1>1, <1>2, <1>3, <2>1
    <3>2. ~Stored(Summary)
      BY ItemKinds
    <3> QED
      BY <3>1, <3>2 DEF IsRow
  <2>2. CASE i # 1
    <3>1. /\ i \in 2 .. l - n + 2 /\ i \in 2 .. l - n + 3 /\ i + 1 \in 2 .. l - n + 3
          /\ n + i - 2 \in 1 .. l /\ n + (i + 1) - 2 = (n + i - 2) + 1
      <4>1. l \in Nat /\ n \in 1 .. l + 1 /\ i \in 1 .. l - n + 2 /\ i # 1
        BY <1>0, <1>6, <2>2
      <4> QED
        BY ONLY <4>1
    <3>2. h2[i] = h[n + i - 2] /\ at2[i] = at[n + i - 2] /\ at2[i + 1] = at[(n + i - 2) + 1]
      <4>1. h2[i] = h[n + i - 2]
        BY <1>2, <3>1
      <4>2. at2[i] = at[n + i - 2] /\ at2[i + 1] = at[n + (i + 1) - 2]
        BY <1>3, <3>1
      <4> QED
        BY <3>1, <4>1, <4>2
    <3> QED
      BY <3>1, <3>2 DEF Accounts
  <2> QED
    BY <2>1, <2>2
<1>7. (l - n + 2) + 1 = l - n + 3
  BY <1>0
<1>8. \A r \in at2[l - n + 3] + 1 .. Len(t) : t[r].role = "part"
  BY <1>3 DEF Accounts
<1>9. Accounts(at2, h2, t, c2)
  BY <1>2, <1>3, <1>4, <1>5, <1>6, <1>7, <1>8 DEF Accounts
<1>10. at2[Len(h2) + 1] = at[Len(h) + 1]
  BY <1>2, <1>3, <1>7
<1> QED
  BY <1>9, <1>10 DEF h2

(* A history made of the table, all of it or what a compaction leaves. *)
LEMMA FromTable ==
    ASSUME NativeTools, NEW t \in Seq(Entry), NEW c, c.count \in Nat, c.count <= Len(t),
           \A r \in 1 .. Len(t) : t[r].role \in {"user", "assistant", "part"},
           \A r \in 1 .. Len(t) : r <= c.count => t[r] \in c.tells \/ t[r].role = "part"
    PROVE  /\ c.count = 0 => Accounts([i \in 1 .. Len(t) + 1 |-> i - 1], t, t, c)
           /\ LET h == <<Summary>> \o SubSeq(t, c.count + 1, Len(t))
              IN  \E at : Accounts(at, h, t, c)
<1> DEFINE l == Len(t)
           s == c.count
           h == <<Summary>> \o SubSeq(t, s + 1, Len(t))
           whole == [i \in 1 .. l + 1 |-> i - 1]
           at == [i \in 1 .. l - s + 2 |-> IF i = 1 THEN s ELSE s + i - 2]
<1>0. l \in Nat /\ s \in Nat /\ s <= l /\ t \in Seq(Item)
  BY LenProperties DEF Item
<1>1. \A r \in 1 .. l : Stored(t[r])
  BY DEF Stored
<1>2. \A r \in 1 .. l : IsRow(t[r], r - 1, r, t)
  <2> SUFFICES ASSUME NEW r \in 1 .. l PROVE IsRow(t[r], r - 1, r, t)
    OBVIOUS
  <2>1. r - 1 < r /\ \A x \in (r - 1) + 1 .. r - 1 : FALSE
    OBVIOUS
  <2> QED
    BY <1>1, <2>1 DEF IsRow
<1>3. ASSUME s = 0 PROVE Accounts(whole, t, t, c)
  <2>1. whole \in [1 .. l + 1 -> 0 .. l] /\ whole[1] = 0 /\ whole[l + 1] = l
        /\ \A i \in 1 .. l : whole[i] = i - 1 /\ whole[i + 1] = i
    BY <1>0
  <2> HIDE DEF whole
  <2>2. (\A r \in 1 .. whole[1] : FALSE) /\ (\A r \in whole[l + 1] + 1 .. l : FALSE) /\ c.count <= whole[1]
    BY <1>0, <1>3, <2>1
  <2>3. \A i \in 1 .. l : whole[i] <= whole[i + 1] /\ IsRow(t[i], whole[i], whole[i + 1], t)
    BY <1>2, <2>1
  <2> QED
    BY <2>1, <2>2, <2>3 DEF Accounts
<1>4. h \in Seq(Item) /\ Len(h) = l - s + 1 /\ h[1] = Summary
      /\ \A i \in 2 .. l - s + 1 : h[i] = t[s + i - 1]
  <2> HIDE DEF s
  <2>1. s + 1 \in 1 .. Len(t) + 1
    BY <1>0
  <2>2. /\ h \in Seq(Item) /\ Len(h) = Len(t) - (s + 1) + 2 /\ h[1] = Summary
        /\ \A i \in 2 .. Len(t) - (s + 1) + 2 : h[i] = t[(s + 1) + i - 2]
    BY <1>0, <2>1, SummaryThen
  <2>3. Len(t) - (s + 1) + 2 = l - s + 1 /\ \A i \in 2 .. l - s + 1 : (s + 1) + i - 2 = s + i - 1
    BY <1>0
  <2> QED
    BY <2>2, <2>3
<1>5. /\ at \in [1 .. l - s + 2 -> 0 .. l] /\ at[1] = s /\ at[2] = s /\ at[l - s + 2] = l
      /\ \A i \in 2 .. l - s + 1 : at[i] = s + i - 2 /\ at[i + 1] = s + i - 1
  <2>1. ASSUME NEW i \in 1 .. l - s + 2 PROVE (IF i = 1 THEN s ELSE s + i - 2) \in 0 .. l
    BY <1>0
  <2>2. /\ 1 \in 1 .. l - s + 2 /\ 2 \in 1 .. l - s + 2 /\ s + 2 - 2 = s
        /\ l - s + 2 \in 1 .. l - s + 2 /\ l - s + 2 # 1 /\ s + (l - s + 2) - 2 = l
        /\ \A i \in 2 .. l - s + 1 : /\ i \in 1 .. l - s + 2 /\ i # 1
                                     /\ i + 1 \in 1 .. l - s + 2 /\ i + 1 # 1 /\ s + (i + 1) - 2 = s + i - 1
    BY <1>0
  <2> HIDE DEF s, l
  <2> QED
    BY <2>1, <2>2
<1> HIDE DEF at, h
<1>6. ASSUME NEW i \in 1 .. l - s + 1
      PROVE  at[i] <= at[i + 1] /\ IsRow(h[i], at[i], at[i + 1], t)
  <2>1. CASE i = 1
    <3>1. at[i] = s /\ at[i + 1] = s /\ h[i] = Summary
      BY <1>4, <1>5, <2>1
    <3>2. ~Stored(Summary)
      BY ItemKinds
    <3> QED
      BY <1>0, <3>1, <3>2 DEF IsRow
  <2>2. CASE i # 1
    <3>1. i \in 2 .. l - s + 1 /\ s + i - 1 \in 1 .. l /\ (s + i - 1) - 1 = s + i - 2 /\ s + i - 2 <= s + i - 1
      BY <1>0, <2>2
    <3> QED
      BY <1>2, <1>4, <1>5, <3>1
  <2> QED
    BY <2>1, <2>2
<1>7. (l - s + 1) + 1 = l - s + 2
  BY <1>0
<1>8. (\A r \in 1 .. at[1] : t[r] \in c.tells \/ t[r].role = "part") /\ c.count <= at[1]
  BY <1>0, <1>5
<1>9. \A r \in at[l - s + 2] + 1 .. l : FALSE
  BY <1>0, <1>5
<1>10. Accounts(at, h, t, c)
  BY <1>4, <1>5, <1>6, <1>7, <1>8, <1>9 DEF Accounts
<1> QED
  BY <1>3, <1>10 DEF h

(* Paired, of any history. *)
PairedIn(h) ==
    /\ \A i \in 1 .. Len(h) : h[i].role = "results" =>
          i > 1 /\ h[i - 1] = Message("calls", h[i].turn)
    /\ \A i \in 1 .. Len(h) : h[i].role = "calls" =>
          i < Len(h) /\ h[i + 1] = Message("results", h[i].turn)

(* A message that is neither calls nor results may come last ... *)
LEMMA PairedMore ==
    ASSUME NEW h \in Seq(Item), PairedIn(h), NEW e \in Item, e.role \notin {"calls", "results"}
    PROVE  PairedIn(Append(h, e))
<1> DEFINE g == Append(h, e)
<1>1. Len(h) \in Nat /\ Len(g) = Len(h) + 1 /\ g[Len(h) + 1] = e /\ \A i \in 1 .. Len(h) : g[i] = h[i]
  BY AppendProperties, LenProperties
<1> HIDE DEF g
<1>2. ASSUME NEW i \in 1 .. Len(g), g[i].role \in {"calls", "results"}
      PROVE  i \in 1 .. Len(h) /\ g[i] = h[i] /\ (i > 1 => g[i - 1] = h[i - 1]) /\ (i < Len(h) => g[i + 1] = h[i + 1])
  <2>1. i \in 1 .. Len(h)
    BY <1>1, <1>2
  <2>2. (i > 1 => i - 1 \in 1 .. Len(h)) /\ (i < Len(h) => i + 1 \in 1 .. Len(h))
    BY <1>1, <2>1
  <2> QED
    BY <1>1, <2>1, <2>2
<1> QED
  BY <1>1, <1>2 DEF PairedIn, g

(* ... and calls with their results. *)
LEMMA PairedBatch ==
    ASSUME NEW h \in Seq(Item), PairedIn(h), NEW t,
           Message("calls", t) \in Item, Message("results", t) \in Item
    PROVE  PairedIn(h \o <<Message("calls", t), Message("results", t)>>)
<1> DEFINE a == Message("calls", t)
           b == Message("results", t)
           g == h \o <<a, b>>
           n == Len(h)
<1>0. a.role = "calls" /\ b.role = "results" /\ a.turn = t /\ b.turn = t
  BY DEF Message
<1>00. a = Message("calls", b.turn) /\ b = Message("results", a.turn)
  BY <1>0
<1> HIDE DEF a, b
<1>1. n \in Nat /\ Len(g) = n + 2 /\ g[n + 1] = a /\ g[n + 2] = b /\ \A i \in 1 .. n : g[i] = h[i]
  BY TwoMore, LenProperties DEF a, b
<1> HIDE DEF g
<1>2. ASSUME NEW i \in 1 .. n
      PROVE  /\ g[i] = h[i] /\ (i > 1 => g[i - 1] = h[i - 1]) /\ (i < n => i < Len(g) /\ g[i + 1] = h[i + 1])
  <2>2. (i > 1 => i - 1 \in 1 .. n) /\ (i < n => i + 1 \in 1 .. n)
    BY <1>1
  <2> QED
    BY <1>1, <2>2
<1>3. \A i \in 1 .. Len(g) : i \in 1 .. n \/ i = n + 1 \/ i = n + 2
  BY <1>1
<1>4. ASSUME NEW i \in 1 .. Len(g), g[i].role = "results"
      PROVE  i > 1 /\ g[i - 1] = Message("calls", g[i].turn)
  <2>1. CASE i \in 1 .. n
    BY <1>2, <1>4, <2>1 DEF PairedIn
  <2>2. CASE i = n + 2
    <3>1. i > 1 /\ i - 1 = n + 1
      BY <1>1, <2>2
    <3> QED
      BY <1>00, <1>1, <2>2, <3>1
  <2> QED
    BY <1>0, <1>1, <1>3, <1>4, <2>1, <2>2
<1>5. ASSUME NEW i \in 1 .. Len(g), g[i].role = "calls"
      PROVE  i < Len(g) /\ g[i + 1] = Message("results", g[i].turn)
  <2>1. CASE i \in 1 .. n
    BY <1>2, <1>5, <2>1 DEF PairedIn
  <2>2. CASE i = n + 1
    <3>1. i < Len(g) /\ i + 1 = n + 2
      BY <1>1, <2>2
    <3> QED
      BY <1>00, <1>1, <2>2, <3>1
  <2> QED
    BY <1>0, <1>1, <1>3, <1>5, <2>1, <2>2
<1>6. PairedIn(g)
  BY <1>4, <1>5 DEF PairedIn
<1> QED
  BY <1>6 DEF g, a, b

(* A cut behind a question separates no pair, nor does one in front of     *)
(* anything but results, with a summary in its place or without.           *)
LEMMA PairedCuts ==
    ASSUME NativeTools, NEW h \in Seq(Item), PairedIn(h)
    PROVE  /\ \A q \in 1 .. Len(h) : h[q].role = "user" => PairedIn(SubSeq(h, 1, q))
           /\ \A c \in 0 .. Len(h) :
                 (c < Len(h) => c = 0 \/ h[c + 1].role # "results") => PairedIn(SubSeq(h, c + 1, Len(h)))
           /\ \A n \in 1 .. Len(h) :
                 h[n].role = "user" => PairedIn(<<Summary>> \o SubSeq(h, n, Len(h)))
<1>0. Len(h) \in Nat
  BY LenProperties
<1>1. ASSUME NEW q \in 1 .. Len(h), h[q].role = "user" PROVE PairedIn(SubSeq(h, 1, q))
  <2> DEFINE g == SubSeq(h, 1, q)
  <2>1. Len(g) = q /\ \A i \in 1 .. q : g[i] = h[i]
    <3>1. q \in 0 .. Len(h)
      BY <1>0
    <3> QED
      BY <3>1, FrontOf
  <2> HIDE DEF g
  <2>2. ASSUME NEW i \in 1 .. q
        PROVE  i \in 1 .. Len(h) /\ g[i] = h[i] /\ (i > 1 => g[i - 1] = h[i - 1])
               /\ (i # q => i < q /\ g[i + 1] = h[i + 1])
    <3>1. i \in 1 .. Len(h) /\ (i > 1 => i - 1 \in 1 .. q) /\ (i # q => i < q /\ i + 1 \in 1 .. q)
      BY <1>0
    <3> QED
      BY <2>1, <3>1
  <2> QED
    BY <1>1, <2>1, <2>2 DEF PairedIn, g
<1>2. ASSUME NEW c \in 0 .. Len(h), c < Len(h) => c = 0 \/ h[c + 1].role # "results"
      PROVE  PairedIn(SubSeq(h, c + 1, Len(h)))
  <2> DEFINE g == SubSeq(h, c + 1, Len(h))
  <2>1. Len(g) = Len(h) - c /\ \A i \in 1 .. Len(h) - c : g[i] = h[c + i]
    <3>1. c + 1 \in 1 .. Len(h) + 1
      BY <1>0
    <3>2. Len(g) = Len(h) - (c + 1) + 1 /\ \A i \in 1 .. Len(h) - (c + 1) + 1 : g[i] = h[(c + 1) + i - 1]
      BY <3>1, BackOf
    <3>3. Len(h) - (c + 1) + 1 = Len(h) - c /\ \A i \in 1 .. Len(h) - c : (c + 1) + i - 1 = c + i
      BY <1>0
    <3> QED
      BY <3>2, <3>3
  <2> HIDE DEF g
  <2>2. ASSUME NEW i \in 1 .. Len(g)
        PROVE  /\ c + i \in 1 .. Len(h) /\ g[i] = h[c + i]
               /\ i > 1 => g[i - 1] = h[(c + i) - 1]
               /\ c + i < Len(h) => i < Len(g) /\ g[i + 1] = h[(c + i) + 1]
               /\ i = 1 => c + i = c + 1 /\ c < Len(h)
    <3>0. Len(g) = Len(h) - c /\ i \in 1 .. Len(h) - c
      BY <2>1
    <3>1. /\ i \in 1 .. Len(h) - c /\ c + i \in 1 .. Len(h)
          /\ i > 1 => i - 1 \in 1 .. Len(h) - c /\ c + (i - 1) = (c + i) - 1
          /\ c + i < Len(h) => i < Len(g) /\ i + 1 \in 1 .. Len(h) - c /\ c + (i + 1) = (c + i) + 1
          /\ i = 1 => c < Len(h)
      <4>1. /\ i \in 1 .. Len(h) - c /\ c + i \in 1 .. Len(h)
            /\ i > 1 => i - 1 \in 1 .. Len(h) - c /\ c + (i - 1) = (c + i) - 1
        BY <1>0, <3>0
      <4>2. c + i < Len(h) => i < Len(g) /\ i + 1 \in 1 .. Len(h) - c /\ c + (i + 1) = (c + i) + 1
        BY <1>0, <3>0
      <4>3. i = 1 => c < Len(h)
        BY <1>0, <3>0
      <4> QED
        BY <4>1, <4>2, <4>3
    <3>2. g[i] = h[c + i] /\ (i = 1 => c + i = c + 1)
      BY <2>1, <3>1
    <3>3. i > 1 => g[i - 1] = h[c + (i - 1)]
      BY <2>1, <3>1
    <3>4. c + i < Len(h) => g[i + 1] = h[c + (i + 1)]
      BY <2>1, <3>1
    <3> QED
      BY <3>1, <3>2, <3>3, <3>4
  <2>3. ASSUME NEW i \in 1 .. Len(g), g[i].role = "results" PROVE i > 1 /\ g[i - 1] = Message("calls", g[i].turn)
    <3>1. h[c + i].role = "results" /\ c + i > 1 /\ h[(c + i) - 1] = Message("calls", h[c + i].turn)
      BY <2>2, <2>3 DEF PairedIn
    <3>2. i # 1
      <4>1. i # 1 \/ c = 0
        BY <1>2, <2>2, <3>1
      <4> QED
        BY <1>0, <3>1, <4>1
    <3>3. i > 1
      BY <2>1, <3>2
    <3> QED
      BY <2>2, <3>1, <3>3
  <2>4. ASSUME NEW i \in 1 .. Len(g), g[i].role = "calls" PROVE i < Len(g) /\ g[i + 1] = Message("results", g[i].turn)
    <3>1. c + i \in 1 .. Len(h) /\ g[i] = h[c + i]
      BY <2>2
    <3>2. c + i < Len(h) /\ h[(c + i) + 1] = Message("results", h[c + i].turn)
      BY <2>4, <3>1 DEF PairedIn
    <3>3. i < Len(g) /\ g[i + 1] = h[(c + i) + 1]
      BY <2>2, <3>2
    <3> QED
      BY <3>1, <3>2, <3>3
  <2>5. PairedIn(g)
    BY <2>3, <2>4 DEF PairedIn
  <2> QED
    BY <2>5 DEF g
<1>3. ASSUME NEW n \in 1 .. Len(h), h[n].role = "user" PROVE PairedIn(<<Summary>> \o SubSeq(h, n, Len(h)))
  <2> DEFINE g == <<Summary>> \o SubSeq(h, n, Len(h))
             l == Len(h) - n + 2
  <2>1. Len(g) = l /\ g[1] = Summary /\ \A i \in 2 .. l : g[i] = h[n + i - 2]
    <3>1. n \in 1 .. Len(h) + 1
      BY <1>0
    <3> QED
      BY <3>1, SummaryThen
  <2>2. Summary.role = "summary"
    BY DEF Summary
  <2> HIDE DEF g
  <2>3. ASSUME NEW i \in 1 .. Len(g), g[i].role \in {"calls", "results"}
        PROVE  /\ n + i - 2 \in 1 .. Len(h) /\ g[i] = h[n + i - 2] /\ i > 2 /\ g[i - 1] = h[(n + i - 2) - 1]
               /\ n + i - 2 < Len(h) => i < Len(g) /\ g[i + 1] = h[(n + i - 2) + 1]
    <3>1. i # 1
      BY <2>1, <2>2, <2>3
    <3>2. i \in 2 .. l
      BY <1>0, <2>1, <3>1
    <3>3. i # 2
      <4>1. n + 2 - 2 = n
        BY <1>0
      <4> QED
        BY <1>3, <2>1, <2>3, <3>2, <4>1
    <3>4. /\ n + i - 2 \in 1 .. Len(h) /\ i > 2 /\ i - 1 \in 2 .. l /\ n + (i - 1) - 2 = (n + i - 2) - 1
          /\ n + i - 2 < Len(h) => i < l /\ i + 1 \in 2 .. l /\ n + (i + 1) - 2 = (n + i - 2) + 1
      BY <1>0, <3>2, <3>3
    <3> QED
      BY <2>1, <3>2, <3>4
  <2>4. ASSUME NEW i \in 1 .. Len(g), g[i].role = "results" PROVE i > 1 /\ g[i - 1] = Message("calls", g[i].turn)
    <3>1. i > 2 => i > 1
      BY <2>1
    <3> QED
      BY <2>3, <2>4, <3>1 DEF PairedIn
  <2>5. ASSUME NEW i \in 1 .. Len(g), g[i].role = "calls" PROVE i < Len(g) /\ g[i + 1] = Message("results", g[i].turn)
    BY <2>3, <2>5 DEF PairedIn
  <2>6. PairedIn(g)
    BY <2>4, <2>5 DEF PairedIn
  <2> QED
    BY <2>6 DEF g
<1> QED
  BY <1>1, <1>2, <1>3

(* After a cut that leaves room for what came of the turn its question is  *)
(* still there.                                                            *)
LEMMA TrimKeeps ==
    ASSUME NativeTools, mode \in {"compact", "trim"}, NEW h \in Seq(Item), PairedIn(h),
           NEW q \in 1 .. Len(h), h[q].role = "user",
           \A k \in q + 1 .. Len(h) : h[k].role \notin {"user", "summary"},
           mode = "trim" => Len(h) - q < Room
    PROVE  /\ Trimmed(h) \in Seq(Item) /\ PairedIn(Trimmed(h))
           /\ mode = "compact" => Trimmed(h) = h
           /\ \E p \in 1 .. Len(Trimmed(h)) :
                 /\ Trimmed(h)[p] = h[q] /\ Len(Trimmed(h)) - p = Len(h) - q
                 /\ \A k \in p + 1 .. Len(Trimmed(h)) : Trimmed(h)[k].role \notin {"user", "summary"}
<1>0. Len(h) \in Nat
  BY LenProperties
<1>1. PICK c \in 0 .. Len(h) :
         /\ Trimmed(h) = SubSeq(h, c + 1, Len(h))
         /\ c < Len(h) => c = 0 \/ h[c + 1].role # "results"
         /\ mode = "compact" => c = 0
         /\ \A i \in 1 .. Len(h) : i <= c /\ Len(h) - i < Room => h[i].role = "results"
  BY TrimmedIs
<1> DEFINE g == Trimmed(h)
<1>2. g \in Seq(Item) /\ Len(g) = Len(h) - c /\ \A i \in 1 .. Len(h) - c : g[i] = h[c + i]
  <2>1. c + 1 \in 1 .. Len(h) + 1
    BY <1>0
  <2>2. g \in Seq(Item) /\ Len(g) = Len(h) - (c + 1) + 1 /\ \A i \in 1 .. Len(h) - (c + 1) + 1 : g[i] = h[(c + 1) + i - 1]
    BY <1>1, <2>1, BackOf
  <2>3. Len(h) - (c + 1) + 1 = Len(h) - c /\ \A i \in 1 .. Len(h) - c : (c + 1) + i - 1 = c + i
    BY <1>0
  <2> QED
    BY <2>2, <2>3
<1>3. PairedIn(g)
  BY <1>1, PairedCuts
<1> HIDE DEF g
<1>4. c < q
  <2>1. CASE mode = "compact"
    BY <1>1, <2>1
  <2>2. CASE mode = "trim"
    <3>1. ~(q <= c)
      BY <1>1, <2>2
    <3> QED
      BY <1>0, <3>1
  <2> QED
    BY <2>1, <2>2
<1>5. mode = "compact" => g = h
  <2> SUFFICES ASSUME mode = "compact" PROVE g = h
    OBVIOUS
  <2>1. c = 0
    BY <1>1
  <2>2. Len(g) = Len(h) /\ \A i \in 1 .. Len(h) : g[i] = h[i]
    BY <1>0, <1>2, <2>1
  <2> QED
    BY <1>2, <2>2, SeqEqual
<1>6. /\ q - c \in 1 .. Len(g) /\ g[q - c] = h[q] /\ Len(g) - (q - c) = Len(h) - q
      /\ \A k \in (q - c) + 1 .. Len(g) : g[k].role \notin {"user", "summary"}
  <2>1. /\ q - c \in 1 .. Len(h) - c /\ c + (q - c) = q /\ (Len(h) - c) - (q - c) = Len(h) - q
        /\ \A k \in (q - c) + 1 .. Len(h) - c : k \in 1 .. Len(h) - c /\ c + k \in q + 1 .. Len(h)
    BY <1>0, <1>4
  <2> QED
    BY <1>2, <2>1
<1> QED
  BY <1>2, <1>3, <1>5, <1>6 DEF g

-----------------------------------------------------------------------------
(* A row more, of an answer that is not over. *)
LEMMA SavePartialStep == HistInv /\ SavePartial => HistInv'
<1> SUFFICES ASSUME HistInv, SavePartial PROVE HistInv'
  OBVIOUS
<1> DEFINE p == Message("part", number)
           L == Len(rows)
<1>0. HistShape /\ InTurn /\ number \in 1 .. MaxTurns /\ ~partial
  BY DEF HistInv, HistShape, SavePartial, InTurn
<1>1. /\ rows \in Seq(Entry) /\ history \in Seq(Item) /\ L \in Nat /\ Len(history) \in Nat
      /\ p \in Entry /\ p.role = "part" /\ history # <<>> /\ rows # <<>> /\ L > 0
  BY <1>0, Both DEF HistInv, AsksLast, RowsAsk, Entry, Message
<1>2. /\ rows' \in Seq(Entry) /\ Len(rows') = L + 1 /\ rows'[L + 1] = p
      /\ \A r \in 1 .. L : rows'[r] = rows[r]
  BY <1>1, AppendProperties DEF SavePartial
<1> HIDE DEF p
<1>3. \A r \in 1 .. L + 1 : r \in 1 .. L \/ r = L + 1
  BY <1>1
<1>4. HistShape'
  BY <1>0, <1>1, <1>2, <1>3 DEF SavePartial, HistShape, HistTypeOK, InTurn
<1>5. AsksLast' /\ Paired'
  BY <1>0 DEF HistInv, SavePartial, AsksLast, Paired, InTurn
<1>6. RowsAsk'
  <2>1. PICK q \in 1 .. L : rows[q].role = "user" /\ saved.count < q
    BY <1>1 DEF HistInv, RowsAsk
  <2>2. q \in 1 .. L + 1 /\ rows'[q] = rows[q]
    BY <1>1, <1>2
  <2>3. rows' # <<>>
    BY <1>1, <1>2, EmptySeq
  <2>4. L + 1 \in 1 .. L + 1 /\ saved' = saved
    BY <1>1 DEF SavePartial
  <2> QED
    BY <1>1, <1>2, <2>1, <2>2, <2>3, <2>4 DEF RowsAsk
<1>7. Matched'
  <2> SUFFICES ASSUME mode = "compact"
               PROVE  \E at : Accounts(at, history, rows', folded) /\ at[Len(history) + 1] < L + 1
    BY <1>2 DEF Matched, SavePartial
  <2>1. PICK at : Accounts(at, history, rows, folded)
    BY <1>0 DEF HistInv, Matched, InTurn
  <2>2. at[Len(history) + 1] \in 0 .. L
    <3>1. Len(history) + 1 \in 1 .. Len(history) + 1
      BY <1>1
    <3> QED
      BY <1>1, <2>1, <3>1, Grows
  <2>3. L \in 0 .. Len(rows) /\ L <= Len(rows') /\ at[Len(history) + 1] <= L /\ at[Len(history) + 1] < L + 1
    BY <1>1, <1>2, <2>2
  <2>4. \A r \in L + 1 .. Len(rows') : rows'[r].role = "part"
    BY <1>1, <1>2
  <2> HIDE DEF L
  <2>5. Accounts(at, history, rows', folded)
    BY <1>1, <1>2, <2>1, <2>3, <2>4, OtherTable
  <2> QED
    BY <2>3, <2>5
<1>8. SkipsTold'
  BY <1>1, <1>2, <1>3 DEF HistInv, SkipsTold, SavePartial
<1> QED
  BY <1>4, <1>5, <1>6, <1>7, <1>8 DEF HistInv

(* The row that the end of a turn writes comes after k others: all there   *)
(* are, or all but the partial answer that it replaces.                    *)
LEMMA AnswerRow ==
    ASSUME HistInv, InTurn, NEW role \in {"assistant", "part"}
    PROVE  LET w == WithAnswer(role)
           IN  \E k \in 0 .. Len(rows) :
                  /\ w \in Seq(Entry) /\ Len(w) = k + 1 /\ w[k + 1] = Message(role, number)
                  /\ \A r \in 1 .. k : w[r] = rows[r]
                  /\ \A r \in k + 1 .. Len(rows) : rows[r].role = "part"
                  /\ \E q \in 1 .. k : rows[q].role = "user" /\ saved.count < q
                  /\ \A at : /\ Accounts(at, history, rows, folded)
                             /\ partial => at[Len(history) + 1] < Len(rows)
                             => at[Len(history) + 1] <= k
<1> DEFINE w == WithAnswer(role)
           L == Len(rows)
           a == Message(role, number)
           k == IF partial THEN L - 1 ELSE L
           g == IF partial THEN Front(rows) ELSE rows
<1>0. HistShape /\ number \in 1 .. MaxTurns /\ partial \in BOOLEAN
  BY DEF HistInv, HistShape, HistTypeOK
<1>1. /\ rows \in Seq(Entry) /\ history \in Seq(Item) /\ L \in Nat /\ Len(history) \in Nat
      /\ a \in Entry /\ rows # <<>> /\ L > 0
  BY <1>0, Both DEF HistInv, AsksLast, RowsAsk, Entry, Message
<1>2. k \in 0 .. L /\ (partial => k = L - 1 /\ rows[L].role = "part") /\ (~partial => k = L)
  BY <1>1 DEF HistInv, RowsAsk
<1>3. g \in Seq(Entry) /\ Len(g) = k /\ \A r \in 1 .. k : g[r] = rows[r]
  <2>1. CASE partial
    <3>1. L - 1 \in 0 .. Len(rows)
      BY <1>1
    <3>2. g = SubSeq(rows, 1, L - 1) /\ k = L - 1
      BY <2>1 DEF Front
    <3> QED
      BY <1>1, <3>1, <3>2, FrontOf
  <2>2. CASE ~partial
    BY <1>1, <2>2
  <2> QED
    BY <2>1, <2>2
<1>4. w = Append(g, a)
  BY DEF WithAnswer
<1> HIDE DEF w, g, a, k
<1>5. w \in Seq(Entry) /\ Len(w) = k + 1 /\ w[k + 1] = a /\ \A r \in 1 .. k : w[r] = rows[r]
  <2>1. /\ w \in Seq(Entry) /\ Len(w) = Len(g) + 1 /\ w[Len(g) + 1] = a
        /\ \A r \in 1 .. Len(g) : w[r] = g[r]
    BY <1>1, <1>3, <1>4, AppendProperties
  <2> QED
    BY <1>3, <2>1
<1>6. \A r \in k + 1 .. L : rows[r].role = "part"
  <2>1. ASSUME NEW r \in k + 1 .. L PROVE partial /\ r = L
    BY <1>1, <1>2
  <2> QED
    BY <1>2, <2>1
<1>7. \E q \in 1 .. k : rows[q].role = "user" /\ saved.count < q
  <2>1. PICK q \in 1 .. L : rows[q].role = "user" /\ saved.count < q
    BY <1>1 DEF HistInv, RowsAsk
  <2>2. q \in 1 .. k
    <3>1. q \notin k + 1 .. L
      BY <1>6, <2>1
    <3> QED
      BY <1>1, <1>2, <3>1
  <2> QED
    BY <2>1, <2>2
<1>8. ASSUME NEW at, Accounts(at, history, rows, folded), partial => at[Len(history) + 1] < Len(rows)
      PROVE  at[Len(history) + 1] <= k
  <2>1. Len(history) + 1 \in 1 .. Len(history) + 1
    BY <1>1
  <2>2. at[Len(history) + 1] \in 0 .. L
    BY <1>1, <1>8, <2>1, Grows
  <2> QED
    BY <1>1, <1>2, <1>8, <2>2
<1> QED
  BY <1>2, <1>5, <1>6, <1>7, <1>8 DEF w, a

(* The client cancels. *)
LEMMA CancelledStep == HistInv /\ Cancelled => HistInv'
<1> SUFFICES ASSUME HistInv, Cancelled PROVE HistInv'
  OBVIOUS
<1>0. HistShape /\ InTurn /\ number \in 1 .. MaxTurns /\ rows' = WithAnswer("part")
  BY DEF HistInv, HistShape, Cancelled, InTurn
<1>1. rows \in Seq(Entry) /\ history \in Seq(Item) /\ Len(rows) \in Nat /\ Len(history) \in Nat
  BY <1>0, Both
<1>2. PICK k \in 0 .. Len(rows) :
         /\ rows' \in Seq(Entry) /\ Len(rows') = k + 1 /\ rows'[k + 1] = Message("part", number)
         /\ \A r \in 1 .. k : rows'[r] = rows[r]
         /\ \A r \in k + 1 .. Len(rows) : rows[r].role = "part"
         /\ \E q \in 1 .. k : rows[q].role = "user" /\ saved.count < q
         /\ \A at : /\ Accounts(at, history, rows, folded)
                    /\ partial => at[Len(history) + 1] < Len(rows)
                    => at[Len(history) + 1] <= k
  BY <1>0, AnswerRow
<1>3. /\ k \in Nat /\ rows'[k + 1].role = "part" /\ rows' # <<>>
      /\ \A r \in 1 .. k + 1 : r \in 1 .. k \/ r = k + 1
      /\ \A r \in 1 .. k : r \in 1 .. Len(rows) /\ r \in 1 .. k + 1
  BY <1>1, <1>2, EmptySeq DEF Message
<1>4. HistShape'
  <2>1. \A r \in 1 .. Len(rows') : rows'[r].role \in {"user", "assistant", "part"}
    BY <1>0, <1>2, <1>3 DEF HistShape
  <2> QED
    BY <1>0, <1>2, <2>1, Zeros DEF Cancelled, Over, HistShape, HistTypeOK, InTurn
<1>5. AsksLast' /\ Paired'
  BY <1>0 DEF HistInv, Cancelled, Over, AsksLast, Paired, InTurn
<1>6. RowsAsk'
  BY <1>2, <1>3 DEF RowsAsk, Cancelled, Over
<1>7. Matched'
  <2> SUFFICES ASSUME mode = "compact" PROVE \E at : Accounts(at, history, rows', folded)
    BY DEF Matched, Cancelled, Over
  <2>1. PICK at : /\ Accounts(at, history, rows, folded)
                  /\ partial => at[Len(history) + 1] < Len(rows)
    BY <1>0 DEF HistInv, Matched, InTurn
  <2>2. at[Len(history) + 1] <= k /\ k <= Len(rows')
    BY <1>2, <1>3, <2>1
  <2>3. \A r \in k + 1 .. Len(rows') : rows'[r].role = "part"
    BY <1>2, <1>3
  <2>4. Accounts(at, history, rows', folded)
    BY <1>1, <1>2, <2>1, <2>2, <2>3, OtherTable
  <2> QED
    BY <2>4
<1>8. SkipsTold'
  BY <1>2, <1>3 DEF HistInv, SkipsTold, Cancelled
<1> QED
  BY <1>4, <1>5, <1>6, <1>7, <1>8 DEF HistInv

(* What the invariant says of the history alone. *)
LEMMA InvSays ==
    ASSUME HistInv
    PROVE  /\ HistShape /\ PairedIn(history) /\ mode \in {"compact", "trim"} /\ partial \in BOOLEAN
           /\ folded.count \in Nat /\ saved.count \in Nat /\ round \in Nat /\ turns \in Nat
           /\ InTurn => number \in 1 .. MaxTurns /\ history # <<>> /\ rows # <<>>
           /\ ~InTurn => ~partial /\ round = 0 /\ number = 0
           /\ MaxTurns \in Nat /\ MaxIterations \in Nat \ {0} /\ Room = 4 * MaxIterations
<1>1. HistShape /\ mode \in {"compact", "trim"} /\ partial \in BOOLEAN /\ folded.count \in Nat /\ saved.count \in Nat
      /\ (InTurn => number \in 1 .. MaxTurns) /\ (~InTurn => ~partial /\ round = 0 /\ number = 0)
  BY DEF HistInv, HistShape, HistTypeOK
<1>2. round \in Nat /\ turns \in Nat /\ MaxTurns \in Nat /\ MaxIterations \in Nat \ {0} /\ Room = 4 * MaxIterations
  BY AgentHistoryAssumption DEF HistInv, HistShape, HistTypeOK, Room
<1>3. InTurn => history # <<>> /\ rows # <<>>
  BY DEF HistInv, AsksLast, RowsAsk
<1>4. PairedIn(history)
  <2>1. DOMAIN history = 1 .. Len(history)
    BY <1>1, Both
  <2> QED
    BY <2>1 DEF PairedIn, HistInv, Paired
<1> QED
  BY <1>1, <1>2, <1>3, <1>4

(* The other way round, for the next state. *)
LEMMA PairedNext ==
    ASSUME history' \in Seq(Item), PairedIn(history')
    PROVE  Paired'
<1>1. DOMAIN history' = 1 .. Len(history')
  BY LenProperties
<1> QED
  BY <1>1 DEF PairedIn, Paired

(* The answer. *)
LEMMA AnswerStep == ASSUME NativeTools, HistInv, Answer PROVE HistInv'
<1> DEFINE a == Message("assistant", number)
           h == history
           g == Append(h, a)
           n == Len(h)
<1>0. InTurn /\ rows' = WithAnswer("assistant") /\ history' = Trimmed(g) /\ stage' = "idle"
  BY DEF Answer, Over, InTurn
<1>1. /\ HistShape /\ PairedIn(h) /\ mode \in {"compact", "trim"} /\ partial \in BOOLEAN
      /\ folded.count \in Nat /\ saved.count \in Nat /\ number \in 1 .. MaxTurns /\ h # <<>>
      /\ round \in Nat /\ MaxIterations \in Nat \ {0} /\ Room = 4 * MaxIterations
  BY <1>0, InvSays
<1>2. rows \in Seq(Entry) /\ h \in Seq(Item) /\ Len(rows) \in Nat /\ n \in Nat
  BY <1>1, Both
<1>3. a \in Entry /\ a \in Item /\ a.role = "assistant" /\ Stored(a)
  BY <1>1 DEF Entry, Item, Message, Stored
<1> HIDE DEF a
<1>4. g \in Seq(Item) /\ Len(g) = n + 1 /\ g[n + 1] = a /\ \A i \in 1 .. n : g[i] = h[i]
  BY <1>2, <1>3, AppendProperties
<1>5. PICK q \in 1 .. n :
         /\ h[q].role = "user"
         /\ \A x \in q + 1 .. n : h[x].role \notin {"user", "summary"}
         /\ mode = "trim" => n - q <= 2 * round
  BY <1>0, <1>1 DEF HistInv, AsksLast
<1> HIDE DEF g, h, n
<1>6. /\ q \in 1 .. Len(g) /\ g[q] = h[q] /\ g[q].role = "user"
      /\ \A x \in q + 1 .. Len(g) : g[x].role \notin {"user", "summary"}
      /\ mode = "trim" => Len(g) - q < Room
  <2>1. \A x \in q + 1 .. n + 1 : (x \in 1 .. n /\ x \in q + 1 .. n) \/ x = n + 1
    BY <1>2
  <2>2. round < MaxIterations
    BY DEF Answer
  <2>3. mode = "trim" => (n + 1) - q < Room
    BY <1>1, <1>2, <1>5, <2>2
  <2>4. q \in 1 .. n + 1 /\ g[q] = h[q]
    BY <1>2, <1>4, <1>5
  <2>5. \A x \in q + 1 .. n + 1 : g[x].role \notin {"user", "summary"}
    <3>1. a.role \notin {"user", "summary"}
      BY <1>3
    <3> QED
      BY <1>4, <1>5, <2>1, <3>1
  <2> QED
    BY <1>4, <1>5, <2>3, <2>4, <2>5
<1>7. PairedIn(g)
  BY <1>1, <1>2, <1>3, PairedMore DEF g
<1>8. /\ history' \in Seq(Item) /\ PairedIn(history') /\ (mode = "compact" => history' = g)
      /\ \E p \in 1 .. Len(history') :
            /\ history'[p] = g[q]
            /\ \A x \in p + 1 .. Len(history') : history'[x].role \notin {"user", "summary"}
  <2>1. /\ Trimmed(g) \in Seq(Item) /\ PairedIn(Trimmed(g)) /\ (mode = "compact" => Trimmed(g) = g)
        /\ \E p \in 1 .. Len(Trimmed(g)) :
              /\ Trimmed(g)[p] = g[q] /\ Len(Trimmed(g)) - p = Len(g) - q
              /\ \A x \in p + 1 .. Len(Trimmed(g)) : Trimmed(g)[x].role \notin {"user", "summary"}
    BY <1>1, <1>4, <1>6, <1>7, TrimKeeps
  <2> QED
    BY <1>0, <2>1
<1>9. PICK k \in 0 .. Len(rows) :
         /\ rows' \in Seq(Entry) /\ Len(rows') = k + 1 /\ rows'[k + 1] = a
         /\ \A r \in 1 .. k : rows'[r] = rows[r]
         /\ \A r \in k + 1 .. Len(rows) : rows[r].role = "part"
         /\ \E s \in 1 .. k : rows[s].role = "user" /\ saved.count < s
         /\ \A at : /\ Accounts(at, h, rows, folded)
                    /\ partial => at[n + 1] < Len(rows)
                    => at[n + 1] <= k
  BY <1>0, AnswerRow DEF a, h, n
<1>10. /\ k \in Nat /\ rows' # <<>>
       /\ \A r \in 1 .. k + 1 : r \in 1 .. k \/ r = k + 1
       /\ \A r \in 1 .. k : r \in 1 .. Len(rows) /\ r \in 1 .. k + 1
  BY <1>2, <1>9, EmptySeq
<1> DEFINE t == SubSeq(rows, 1, k)
<1>11. t \in Seq(Entry) /\ Len(t) = k /\ \A r \in 1 .. k : t[r] = rows[r]
  BY <1>2, FrontOf
<1> HIDE DEF t
<1>12. ASSUME mode = "compact"
       PROVE  \E at : Accounts(at, h, t, folded) /\ at[n + 1] \in 0 .. k
  <2>1. PICK at : Accounts(at, h, rows, folded) /\ (partial => at[n + 1] < Len(rows))
    BY <1>0, <1>12 DEF HistInv, Matched, InTurn, h, n
  <2>2. at[n + 1] <= k /\ k <= Len(t)
    BY <1>9, <1>10, <1>11, <2>1
  <2>3. \A r \in k + 1 .. Len(t) : t[r].role = "part"
    BY <1>10, <1>11
  <2>4. Accounts(at, h, t, folded)
    BY <1>2, <1>11, <2>1, <2>2, <2>3, OtherTable DEF n
  <2>5. n + 1 \in 1 .. n + 1
    BY <1>2
  <2>6. at[n + 1] \in 0 .. k
    BY <1>2, <1>11, <2>4, <2>5, Grows DEF n
  <2> QED
    BY <2>4, <2>6
<1>13. folded.count # 0 => mode = "compact" /\ saved' = folded
  BY <1>1 DEF Answer, HistShape, HistTypeOK, NoCompaction
<1>14. folded.count = 0 => saved' = saved
  BY DEF Answer
<1>15. ASSUME folded.count # 0
       PROVE  /\ \E s \in 1 .. k : rows[s].role = "user" /\ folded.count < s
              /\ \A r \in 1 .. k : r <= folded.count => rows[r] \in folded.tells \/ rows[r].role = "part"
  <2>1. PICK at : Accounts(at, h, t, folded)
    BY <1>12, <1>13, <1>15
  <2>2. at[q + 1] \in 1 .. k /\ at[1] < at[q + 1] /\ t[at[q + 1]] = h[q]
    <3>1. q \in 1 .. Len(h) /\ \A x \in q + 1 .. Len(h) : h[x].role # "user"
      BY <1>5 DEF n
    <3>2. at[q + 1] \in 1 .. Len(t) /\ at[1] < at[q + 1] /\ t[at[q + 1]] = h[q]
      <4>1. h \in Seq(Item) /\ t \in Seq(Entry) /\ Accounts(at, h, t, folded) /\ h[q].role = "user"
        BY <1>2, <1>5, <1>11, <2>1
      <4> QED
        BY <3>1, <4>1, QuestionRow
    <3> QED
      BY <1>11, <3>2
  <2>3. at[1] \in Nat
    <3>1. 1 \in 1 .. n + 1
      BY <1>2
    <3> QED
      BY <1>2, <1>11, <2>1, <3>1, Grows DEF n
  <2>4. folded.count <= at[1] /\ \A r \in 1 .. at[1] : t[r] \in folded.tells \/ t[r].role = "part"
    BY <2>1 DEF Accounts
  <2>5. folded.count < at[q + 1]
    BY <1>1, <1>10, <2>2, <2>3, <2>4
  <2>6. ASSUME NEW r \in 1 .. k, r <= folded.count PROVE r \in 1 .. at[1]
    BY <1>1, <1>10, <2>3, <2>4, <2>6
  <2> QED
    BY <1>5, <1>11, <2>2, <2>4, <2>5, <2>6
<1>16. HistShape'
  <2>1. \A r \in 1 .. Len(rows') : rows'[r].role \in {"user", "assistant", "part"}
    BY <1>1, <1>3, <1>9, <1>10 DEF HistShape
  <2>2. saved' = saved \/ (saved' = folded /\ mode = "compact")
    BY <1>13, <1>14
  <2> QED
    BY <1>0, <1>1, <1>8, <1>9, <2>1, <2>2, Zeros DEF Answer, Over, HistShape, HistTypeOK, InTurn, Item
<1>17. AsksLast'
  BY <1>0, <1>5, <1>6, <1>8 DEF AsksLast, InTurn
<1>18. Paired'
  BY <1>8, PairedNext
<1>19. RowsAsk'
  <2>1. \E s \in 1 .. k : rows[s].role = "user" /\ saved'.count < s
    BY <1>9, <1>13, <1>14, <1>15
  <2>2. \E s \in 1 .. Len(rows') : rows'[s].role = "user" /\ saved'.count < s
    BY <1>9, <1>10, <2>1
  <2> QED
    BY <1>10, <2>2 DEF RowsAsk, Answer, Over
<1>20. Matched'
  <2> SUFFICES ASSUME mode = "compact" PROVE \E at : Accounts(at, g, rows', folded)
    BY <1>8 DEF Matched, Answer, Over
  <2>1. PICK at : Accounts(at, h, t, folded) /\ at[n + 1] \in 0 .. k
    BY <1>12
  <2>2. IsRow(a, at[n + 1], k + 1, rows')
    <3>1. at[n + 1] < k + 1 /\ (k + 1) - 1 = k
      BY <1>10, <2>1
    <3>2. \A r \in at[n + 1] + 1 .. k : t[r].role = "part" /\ r \in 1 .. k
      <4>1. \A r \in at[n + 1] + 1 .. k : t[r].role = "part"
        BY <1>11, <2>1 DEF Accounts, n
      <4>2. \A r \in at[n + 1] + 1 .. k : r \in 1 .. k
        BY <1>10, <2>1
      <4> QED
        BY <4>1, <4>2
    <3> QED
      BY <1>3, <1>9, <1>11, <3>1, <3>2 DEF IsRow
  <2>3. /\ k + 1 \in 0 .. Len(rows') /\ at[n + 1] <= k + 1 /\ Len(t) <= Len(rows')
        /\ \A r \in (k + 1) + 1 .. Len(rows') : rows'[r].role = "part"
    BY <1>9, <1>10, <1>11, <2>1
  <2>4. \A r \in 1 .. Len(t) : rows'[r] = t[r]
    BY <1>9, <1>11
  <2>5. \E at2 : Accounts(at2, g, rows', folded)
    BY <1>2, <1>3, <1>9, <1>11, <2>1, <2>2, <2>3, <2>4, OneMore DEF g, n
  <2> QED
    BY <2>5
<1>21. SkipsTold'
  <2> SUFFICES ASSUME NEW r \in 1 .. k + 1, r <= saved'.count
               PROVE  rows'[r] \in saved'.tells \/ rows'[r].role = "part"
    BY <1>9 DEF SkipsTold
  <2>1. PICK s \in 1 .. k : saved'.count < s
    BY <1>9, <1>13, <1>14, <1>15
  <2>2. r \in 1 .. k
    <3>1. saved'.count \in Nat
      BY <1>1, <1>13, <1>14
    <3> QED
      BY <1>10, <2>1, <3>1
  <2>3. rows'[r] = rows[r] /\ r \in 1 .. Len(rows)
    BY <1>9, <1>10, <2>2
  <2>4. CASE folded.count = 0
    BY <1>14, <2>3, <2>4 DEF HistInv, SkipsTold
  <2>5. CASE folded.count # 0
    BY <1>13, <1>15, <2>2, <2>3, <2>5
  <2> QED
    BY <2>4, <2>5
<1> QED
  BY <1>16, <1>17, <1>18, <1>19, <1>20, <1>21 DEF HistInv

(* The model calls tools. *)
LEMMA CallToolsStep == ASSUME NativeTools, HistInv, CallTools PROVE HistInv'
<1> DEFINE a == Message("calls", number)
           b == Message("results", number)
           h == history
           f == Append(h, a)
           g == Append(f, b)
           n == Len(h)
<1>0. InTurn /\ history' = Trimmed(h \o <<a, b>>) /\ stage' = "top" /\ InTurn'
  BY DEF CallTools, InTurn
<1>1. /\ HistShape /\ PairedIn(h) /\ mode \in {"compact", "trim"} /\ partial \in BOOLEAN
      /\ number \in 1 .. MaxTurns /\ h # <<>> /\ rows # <<>>
      /\ round \in Nat /\ MaxIterations \in Nat \ {0} /\ Room = 4 * MaxIterations
  BY <1>0, InvSays
<1>2. rows \in Seq(Entry) /\ h \in Seq(Item) /\ Len(rows) \in Nat /\ n \in Nat
  BY <1>1, Both
<1>3. /\ a \in Item /\ a.role = "calls" /\ ~Stored(a)
      /\ b \in Item /\ b.role = "results" /\ ~Stored(b)
  <2>1. a \in Item /\ a.role = "calls" /\ b \in Item /\ b.role = "results"
    BY <1>1 DEF Entry, Item, Message
  <2> HIDE DEF a, b
  <2> QED
    BY <2>1, ItemKinds
<1>4. PairedIn(h \o <<a, b>>)
  BY <1>1, <1>2, <1>3, PairedBatch
<1> HIDE DEF a, b
<1>5. f \in Seq(Item) /\ Len(f) = n + 1 /\ f[n + 1] = a /\ \A i \in 1 .. n : f[i] = h[i]
  BY <1>2, <1>3, AppendProperties
<1>6. g \in Seq(Item) /\ Len(g) = n + 2 /\ g[n + 2] = b /\ g[n + 1] = a /\ \A i \in 1 .. n : g[i] = h[i]
  <2> HIDE DEF f
  <2>1. /\ g \in Seq(Item) /\ Len(g) = Len(f) + 1 /\ g[Len(f) + 1] = b
        /\ \A i \in 1 .. Len(f) : g[i] = f[i]
    BY <1>3, <1>5, AppendProperties
  <2>2. (n + 1) + 1 = n + 2 /\ n + 1 \in 1 .. n + 1 /\ \A i \in 1 .. n : i \in 1 .. n + 1
    BY <1>2
  <2> QED
    BY <1>5, <2>1, <2>2
<1>7. h \o <<a, b>> = g
  <2> DEFINE u == h \o <<a, b>>
  <2>1. /\ u \in Seq(Item) /\ Len(u) = n + 2 /\ u[n + 1] = a /\ u[n + 2] = b
        /\ \A i \in 1 .. n : u[i] = h[i]
    BY <1>2, <1>3, TwoMore
  <2> HIDE DEF u, g
  <2>2. \A i \in 1 .. n + 2 : i \in 1 .. n \/ i = n + 1 \/ i = n + 2
    BY <1>2
  <2>3. \A i \in 1 .. Len(u) : u[i] = g[i]
    BY <1>6, <2>1, <2>2
  <2>4. u = g
    BY <1>6, <2>1, <2>3, SeqEqual
  <2> QED
    BY <2>4 DEF u
<1>8. PICK q \in 1 .. n :
         /\ h[q].role = "user"
         /\ \A x \in q + 1 .. n : h[x].role \notin {"user", "summary"}
         /\ h[q].turn = number
         /\ mode = "trim" => n - q <= 2 * round
  BY <1>0, <1>1 DEF HistInv, AsksLast
<1> HIDE DEF f, g, h, n
<1>9. /\ q \in 1 .. Len(g) /\ g[q] = h[q] /\ g[q].role = "user"
      /\ \A x \in q + 1 .. Len(g) : g[x].role \notin {"user", "summary"}
      /\ mode = "trim" => Len(g) - q < Room /\ Len(g) - q <= 2 * (round + 1)
  <2>1. \A x \in q + 1 .. n + 2 : (x \in 1 .. n /\ x \in q + 1 .. n) \/ x = n + 1 \/ x = n + 2
    BY <1>2
  <2>2. round < MaxIterations
    BY DEF CallTools
  <2>3. mode = "trim" => (n + 2) - q < Room /\ (n + 2) - q <= 2 * (round + 1)
    BY <1>1, <1>2, <1>8, <2>2
  <2>4. q \in 1 .. n + 2
    BY <1>2
  <2> QED
    BY <1>3, <1>6, <1>8, <2>1, <2>3, <2>4
<1>10. /\ history' \in Seq(Item) /\ PairedIn(history') /\ (mode = "compact" => history' = g)
       /\ \E p \in 1 .. Len(history') :
             /\ history'[p] = g[q] /\ Len(history') - p = Len(g) - q
             /\ \A x \in p + 1 .. Len(history') : history'[x].role \notin {"user", "summary"}
  <2>1. /\ Trimmed(g) \in Seq(Item) /\ PairedIn(Trimmed(g)) /\ (mode = "compact" => Trimmed(g) = g)
        /\ \E p \in 1 .. Len(Trimmed(g)) :
              /\ Trimmed(g)[p] = g[q] /\ Len(Trimmed(g)) - p = Len(g) - q
              /\ \A x \in p + 1 .. Len(Trimmed(g)) : Trimmed(g)[x].role \notin {"user", "summary"}
    <3>1. PairedIn(g) /\ mode \in {"compact", "trim"} /\ g \in Seq(Item) /\ (mode = "trim" => Len(g) - q < Room)
      BY <1>1, <1>4, <1>6, <1>7, <1>9
    <3> QED
      BY <1>9, <3>1, TrimKeeps
  <2> QED
    BY <1>0, <1>7, <2>1
<1>11. HistShape'
  <2>1. round' \in 0 .. MaxIterations
    BY <1>1 DEF CallTools
  <2> QED
    BY <1>0, <1>1, <1>10, <2>1 DEF CallTools, HistShape, HistTypeOK, InTurn, Item
<1>12. AsksLast'
  <2>1. PICK p \in 1 .. Len(history') :
           /\ history'[p] = g[q] /\ Len(history') - p = Len(g) - q
           /\ \A x \in p + 1 .. Len(history') : history'[x].role \notin {"user", "summary"}
    BY <1>10
  <2>2. /\ history'[p].role = "user" /\ history'[p].turn = number'
        /\ mode' = "trim" => Len(history') - p <= 2 * round'
    BY <1>8, <1>9, <2>1 DEF CallTools
  <2>3. history' # <<>>
    BY <1>10, <2>1, EmptySeq
  <2> QED
    BY <2>1, <2>2, <2>3 DEF AsksLast
<1>13. Paired'
  BY <1>10, PairedNext
<1>14. RowsAsk'
  BY <1>1 DEF HistInv, RowsAsk, CallTools
<1>15. Matched'
  <2> SUFFICES ASSUME mode = "compact"
               PROVE  \E at : Accounts(at, g, rows, folded) /\ (partial => at[Len(g) + 1] < Len(rows))
    BY <1>10 DEF Matched, CallTools
  <2>1. PICK at : Accounts(at, h, rows, folded) /\ (partial => at[n + 1] < Len(rows))
    BY <1>0 DEF HistInv, Matched, InTurn, h, n
  <2> DEFINE m == at[Len(h) + 1]
  <2>2. m \in 0 .. Len(rows) /\ m <= m
    <3>1. Len(h) + 1 \in 1 .. Len(h) + 1
      BY <1>2 DEF n
    <3>2. m \in 0 .. Len(rows)
      BY <1>2, <2>1, <3>1, Grows
    <3> QED
      BY <1>2, <3>2
  <2>3. Len(rows) <= Len(rows) /\ \A r \in m + 1 .. Len(rows) : rows[r].role = "part"
    BY <1>2, <2>1 DEF Accounts
  <2> HIDE DEF m
  <2>4. IsRow(a, m, m, rows) /\ IsRow(b, m, m, rows)
    BY <1>3 DEF IsRow
  <2>5. PICK at1 : Accounts(at1, f, rows, folded) /\ at1[Len(f) + 1] = m
    BY <1>2, <1>3, <2>1, <2>2, <2>3, <2>4, OneMore DEF f, m
  <2>6. PICK at2 : Accounts(at2, g, rows, folded) /\ at2[Len(g) + 1] = m
    <3>1. at1[Len(f) + 1] <= m /\ IsRow(b, at1[Len(f) + 1], m, rows) /\ \A r \in 1 .. Len(rows) : rows[r] = rows[r]
      BY <2>2, <2>4, <2>5
    <3>2. f \in Seq(Item) /\ b \in Item /\ rows \in Seq(Entry) /\ m \in 0 .. Len(rows) /\ Len(rows) <= Len(rows)
      BY <1>2, <1>3, <1>5, <2>2, <2>3
    <3> QED
      BY <2>3, <2>5, <3>1, <3>2, OneMore DEF g
  <2> QED
    BY <2>1, <2>6 DEF m, n
<1>16. SkipsTold'
  BY DEF HistInv, SkipsTold, CallTools
<1> QED
  BY <1>11, <1>12, <1>13, <1>14, <1>15, <1>16 DEF HistInv

(* A question. *)
LEMMA AskStep == ASSUME NativeTools, HistInv, Ask PROVE HistInv'
<1> DEFINE e == Message("user", turns + 1)
           h == history
           n == Len(h)
           l == Len(rows)
<1>0. /\ ~InTurn /\ InTurn' /\ stage = "idle" /\ turns < MaxTurns
      /\ history' = Append(h, e) /\ rows' = Append(rows, e)
      /\ number' = turns + 1 /\ turns' = turns + 1 /\ stage' = "start"
      /\ UNCHANGED <<mode, folded, saved, round, partial, clean>>
  BY DEF Ask, Begin, InTurn, Message
<1>1. /\ HistShape /\ PairedIn(h) /\ ~partial /\ round = 0
      /\ folded.count \in Nat /\ saved.count \in Nat /\ turns \in Nat /\ MaxTurns \in Nat
  BY <1>0, InvSays
<1>2. rows \in Seq(Entry) /\ h \in Seq(Item) /\ l \in Nat /\ n \in Nat
  BY <1>1, Both
<1>3. /\ turns + 1 \in 1 .. MaxTurns
      /\ e \in Entry /\ e \in Item /\ e.role = "user" /\ e.turn = turns + 1 /\ Stored(e)
  <2>1. turns + 1 \in 1 .. MaxTurns
    BY <1>0, <1>1
  <2> QED
    BY <2>1 DEF Entry, Item, Message, Stored
<1> HIDE DEF e
<1>4. history' \in Seq(Item) /\ Len(history') = n + 1 /\ history'[n + 1] = e /\ \A i \in 1 .. n : history'[i] = h[i]
  BY <1>0, <1>2, <1>3, AppendProperties
<1>5. rows' \in Seq(Entry) /\ Len(rows') = l + 1 /\ rows'[l + 1] = e /\ \A r \in 1 .. l : rows'[r] = rows[r]
  BY <1>0, <1>2, <1>3, AppendProperties
<1>6. /\ n + 1 \in 1 .. n + 1 /\ history' # <<>> /\ l + 1 \in 1 .. l + 1 /\ rows' # <<>>
      /\ \A r \in 1 .. l + 1 : r \in 1 .. l \/ r = l + 1
  BY <1>2, <1>4, <1>5, EmptySeq
<1>7. PairedIn(history')
  BY <1>0, <1>1, <1>2, <1>3, PairedMore
<1>8. saved.count < l + 1
  <2>1. CASE rows = <<>>
    BY <1>2, <2>1 DEF HistInv, RowsAsk
  <2>2. CASE rows # <<>>
    BY <1>1, <1>2, <2>2 DEF HistInv, RowsAsk
  <2> QED
    BY <2>1, <2>2
<1> HIDE DEF h, n, l
<1>9. HistShape'
  <2>1. \A r \in 1 .. Len(rows') : rows'[r].role \in {"user", "assistant", "part"}
    BY <1>1, <1>3, <1>5, <1>6 DEF HistShape, l
  <2>2. turns' \in 0 .. MaxTurns /\ number' \in 0 .. MaxTurns /\ number' \in 1 .. MaxTurns
    BY <1>0, <1>1, <1>3
  <2> QED
    BY <1>0, <1>1, <1>4, <1>5, <2>1, <2>2 DEF HistShape, HistTypeOK, InTurn, Item
<1>10. AsksLast'
  <2>1. n + 1 \in 1 .. Len(history') /\ \A x \in (n + 1) + 1 .. Len(history') : FALSE
    BY <1>2, <1>4
  <2>2. Len(history') - (n + 1) <= 2 * round'
    BY <1>0, <1>1, <1>2, <1>4
  <2>3. history'[n + 1].role = "user" /\ history'[n + 1].turn = number'
    BY <1>0, <1>3, <1>4
  <2> QED
    BY <1>6, <2>1, <2>2, <2>3 DEF AsksLast
<1>11. Paired'
  BY <1>4, <1>7, PairedNext
<1>12. RowsAsk'
  <2>1. rows'[l + 1].role = "user" /\ saved'.count < l + 1 /\ l + 1 \in 1 .. Len(rows')
    BY <1>0, <1>3, <1>5, <1>6, <1>8
  <2> QED
    BY <1>0, <1>1, <1>6, <2>1 DEF RowsAsk
<1>13. Matched'
  <2> SUFFICES ASSUME mode = "compact" PROVE \E at : Accounts(at, history', rows', folded)
    BY <1>0, <1>1 DEF Matched
  <2>1. PICK at : Accounts(at, h, rows, folded)
    BY <1>0 DEF HistInv, Matched, h
  <2>2. at[n + 1] \in 0 .. l
    BY <1>2, <1>6, <2>1, Grows DEF n, l
  <2>3. IsRow(e, at[n + 1], l + 1, rows')
    <3>1. at[n + 1] < l + 1 /\ (l + 1) - 1 = l
      BY <1>2, <2>2
    <3>2. \A r \in at[n + 1] + 1 .. l : rows[r].role = "part"
      BY <2>1 DEF Accounts, n, l
    <3>3. \A r \in at[n + 1] + 1 .. l : r \in 1 .. l
      BY <1>2, <2>2
    <3>4. \A r \in at[n + 1] + 1 .. (l + 1) - 1 : rows'[r].role = "part"
      BY <1>5, <3>1, <3>2, <3>3
    <3> QED
      BY <1>3, <1>5, <3>1, <3>4 DEF IsRow
  <2>4. /\ l + 1 \in 0 .. Len(rows') /\ at[n + 1] <= l + 1 /\ l <= Len(rows')
        /\ \A r \in (l + 1) + 1 .. Len(rows') : rows'[r].role = "part"
    BY <1>2, <1>5, <2>2
  <2>5. \E at2 : Accounts(at2, Append(h, e), rows', folded)
    <3>1. Len(rows) <= Len(rows') /\ \A r \in 1 .. Len(rows) : rows'[r] = rows[r]
      BY <1>5, <2>4 DEF l
    <3>2. h \in Seq(Item) /\ rows \in Seq(Entry) /\ rows' \in Seq(Entry) /\ e \in Item
      BY <1>2, <1>3, <1>5
    <3> QED
      BY <2>1, <2>3, <2>4, <3>1, <3>2, OneMore DEF n
  <2> QED
    BY <1>0, <2>5
<1>14. SkipsTold'
  <2> SUFFICES ASSUME NEW r \in 1 .. l + 1, r <= saved.count
               PROVE  rows'[r] \in saved.tells \/ rows'[r].role = "part"
    BY <1>0, <1>5 DEF SkipsTold
  <2>1. r \in 1 .. l
    BY <1>1, <1>2, <1>8
  <2> QED
    BY <1>5, <2>1 DEF HistInv, SkipsTold, l
<1> QED
  BY <1>9, <1>10, <1>11, <1>12, <1>13, <1>14 DEF HistInv

(* A regeneration cuts history and table behind their last questions. *)
LEMMA RegenerateIs ==
    ASSUME NativeTools, HistInv, Regenerate
    PROVE  \E q \in 1 .. Len(history), t \in 1 .. Len(rows) :
              /\ history[q].role = "user"
              /\ \A x \in q + 1 .. Len(history) : history[x].role \notin {"user", "summary"}
              /\ rows[t].role = "user" /\ \A r \in 1 .. Len(rows) : rows[r].role = "user" => r <= t
              /\ saved.count < t
              /\ history' = SubSeq(history, 1, q) /\ rows' = SubSeq(rows, 1, t)
              /\ number' = history[q].turn
<1> DEFINE h == history
           n == Len(h)
           l == Len(rows)
           u == SelectLastInSeq(history, IsUserEntry)
           t == SelectLastInSeq(rows, IsUserRow)
           U == {i \in 1 .. n : IsUserEntry(h[i])}
           T == {r \in 1 .. l : IsUserRow(rows[r])}
<1>0. /\ u # 0 /\ ~InTurn /\ InTurn' /\ stage = "idle" /\ turns < MaxTurns
      /\ history' = Append(SubSeq(h, 1, u - 1), h[u]) /\ rows' = IF t = 0 THEN rows ELSE SubSeq(rows, 1, t)
      /\ number' = h[u].turn /\ turns' = turns + 1 /\ stage' = "start"
      /\ UNCHANGED <<mode, folded, saved, round, partial, clean>>
  BY DEF Regenerate, Begin, InTurn
<1>1. /\ HistShape /\ PairedIn(h) /\ ~partial /\ round = 0
      /\ folded.count \in Nat /\ saved.count \in Nat /\ turns \in Nat /\ MaxTurns \in Nat
  BY <1>0, InvSays
<1>2. /\ rows \in Seq(Entry) /\ h \in Seq(Item) /\ l \in Nat /\ n \in Nat
      /\ \A i \in 1 .. n : h[i] \in Item
  BY <1>1, Both
<1>3. u = (IF U # {} THEN Max(U) ELSE 0) /\ t = (IF T # {} THEN Max(T) ELSE 0)
  BY DEF SelectLastInSeq
<1> HIDE DEF u, t
<1>4. h # <<>>
  <2>1. U # {}
    BY <1>0, <1>3
  <2> QED
    BY <2>1
<1>5. PICK q \in 1 .. n :
         h[q].role = "user" /\ \A x \in q + 1 .. n : h[x].role \notin {"user", "summary"}
  BY <1>4 DEF HistInv, AsksLast
<1>6. u = q
  <2>1. \A i \in 1 .. n : IsUserEntry(h[i]) <=> h[i].role \in {"user", "summary"}
    BY <1>2, ItemKinds
  <2>2. q \in U /\ U \in SUBSET (1 .. n)
    BY <1>5, <2>1
  <2>3. ASSUME NEW k \in U PROVE k <= q
    <3>1. k \notin q + 1 .. n
      BY <1>5, <2>1
    <3> QED
      BY <1>2, <3>1
  <2> HIDE DEF U, h, n
  <2>4. Max(U) = q
    BY <1>2, <2>2, <2>3, LastIs
  <2> QED
    BY <1>3, <2>2, <2>4
<1>7. rows # <<>>
  BY <1>4 DEF HistInv, RowsAsk
<1>8. PICK s \in 1 .. l : rows[s].role = "user" /\ saved.count < s
  BY <1>7 DEF HistInv, RowsAsk
<1>9. t \in 1 .. l /\ rows[t].role = "user" /\ s <= t /\ \A r \in 1 .. l : rows[r].role = "user" => r <= t
  <2>1. s \in T /\ T \in SUBSET (1 .. l)
    BY <1>8 DEF IsUserRow
  <2>2. Max(T) \in T /\ \A r \in T : Max(T) >= r
    BY <1>2, <2>1, MaxOf
  <2>3. t = Max(T)
    BY <1>3, <2>1
  <2>4. t \in T /\ \A r \in T : r <= t
    BY <1>2, <2>2, <2>3
  <2> QED
    BY <1>8, <2>4 DEF IsUserRow
<1>10. rows' = SubSeq(rows, 1, t)
  BY <1>0, <1>9
<1>11. SubSeq(h, 1, q) \in Seq(Item) /\ Len(SubSeq(h, 1, q)) = q /\ \A i \in 1 .. q : SubSeq(h, 1, q)[i] = h[i]
  <2>1. q \in 0 .. Len(h)
    BY <1>2
  <2> QED
    BY <1>2, <2>1, FrontOf
<1>12. history' = SubSeq(h, 1, q)
  <2> DEFINE g == SubSeq(h, 1, q - 1)
             v == SubSeq(h, 1, q)
             w == Append(g, h[q])
  <2>1. g \in Seq(Item) /\ Len(g) = q - 1 /\ \A i \in 1 .. q - 1 : g[i] = h[i]
    <3>1. q - 1 \in 0 .. Len(h)
      BY <1>2
    <3> QED
      BY <1>2, <3>1, FrontOf
  <2>2. v \in Seq(Item) /\ Len(v) = q /\ \A i \in 1 .. q : v[i] = h[i]
    BY <1>11
  <2>3. h[q] \in Item
    BY <1>2
  <2> HIDE DEF g, v, h
  <2>4. w \in Seq(Item) /\ Len(w) = Len(g) + 1 /\ w[Len(g) + 1] = h[q] /\ \A i \in 1 .. Len(g) : w[i] = g[i]
    BY <2>1, <2>3, AppendProperties
  <2> HIDE DEF w
  <2>5. q \in Nat /\ (q - 1) + 1 = q /\ \A i \in 1 .. q : i \in 1 .. q - 1 \/ i = q
    BY <1>2
  <2>6. Len(w) = q /\ \A i \in 1 .. q : w[i] = h[i]
    BY <2>1, <2>4, <2>5
  <2>7. w = v
    BY <2>2, <2>4, <2>6, SeqEqual
  <2> QED
    BY <1>0, <1>6, <2>7 DEF w, g, v
<1>13. saved.count < t
  BY <1>1, <1>2, <1>8, <1>9
<1> QED
  BY <1>0, <1>5, <1>6, <1>9, <1>10, <1>12, <1>13

(* A regeneration keeps the invariant. *)
LEMMA RegenerateStep == ASSUME NativeTools, HistInv, Regenerate PROVE HistInv'
<1> DEFINE h == history
           n == Len(h)
           l == Len(rows)
<1>0. /\ ~InTurn /\ InTurn' /\ stage = "idle" /\ turns < MaxTurns
      /\ turns' = turns + 1 /\ stage' = "start"
      /\ UNCHANGED <<mode, folded, saved, round, partial, clean>>
  BY DEF Regenerate, Begin, InTurn
<1>1. /\ HistShape /\ PairedIn(h) /\ ~partial /\ round = 0
      /\ folded.count \in Nat /\ saved.count \in Nat /\ turns \in Nat /\ MaxTurns \in Nat
  BY <1>0, InvSays
<1>2. /\ rows \in Seq(Entry) /\ h \in Seq(Item) /\ l \in Nat /\ n \in Nat
      /\ \A i \in 1 .. n : h[i] \in Item
  BY <1>1, Both
<1>3. PICK q \in 1 .. n, t \in 1 .. l :
         /\ h[q].role = "user" /\ \A x \in q + 1 .. n : h[x].role \notin {"user", "summary"}
         /\ rows[t].role = "user" /\ \A r \in 1 .. l : rows[r].role = "user" => r <= t
         /\ saved.count < t
         /\ history' = SubSeq(h, 1, q) /\ rows' = SubSeq(rows, 1, t) /\ number' = h[q].turn
  BY RegenerateIs
<1>4. rows' \in Seq(Entry) /\ Len(rows') = t /\ \A r \in 1 .. t : rows'[r] = rows[r]
  <2>1. t \in 0 .. Len(rows)
    BY <1>2, <1>3
  <2> QED
    BY <1>2, <1>3, <2>1, FrontOf
<1>5. SubSeq(h, 1, q) \in Seq(Item) /\ Len(SubSeq(h, 1, q)) = q /\ \A i \in 1 .. q : SubSeq(h, 1, q)[i] = h[i]
  <2>1. q \in 0 .. Len(h)
    BY <1>2
  <2> QED
    BY <1>2, <2>1, FrontOf
<1>6. PairedIn(history')
  BY <1>1, <1>2, <1>3, PairedCuts
<1>7. /\ history' \in Seq(Item) /\ Len(history') = q /\ (\A i \in 1 .. q : history'[i] = h[i])
       /\ history' # <<>> /\ rows' # <<>>
  <2>1. q > 0 /\ t > 0
    BY <1>2, <1>3
  <2>2. /\ history' \in Seq(Item) /\ Len(history') = q
        /\ \A i \in 1 .. q : history'[i] = h[i]
    BY <1>3, <1>5
  <2>3. Len(history') # 0 /\ Len(rows') # 0
    BY <1>4, <2>1, <2>2
  <2> QED
    BY <1>4, <2>2, <2>3, EmptySeq
<1> HIDE DEF h, n, l
<1>8. HistShape'
  <2>1. \A r \in 1 .. Len(rows') : rows'[r].role \in {"user", "assistant", "part"}
    <3>1. \A r \in 1 .. t : r \in 1 .. l
      BY <1>2, <1>3
    <3> QED
      BY <1>1, <1>4, <3>1 DEF HistShape, l
  <2>2. number' \in 1 .. MaxTurns /\ number' \in 0 .. MaxTurns
    <3>1. h[q] \in Entry
      <4>1. h[q] \in Item /\ h[q] # Summary
        BY <1>2, <1>3 DEF Summary
      <4> QED
        BY <4>1 DEF Item
    <3>2. h[q].turn \in 1 .. MaxTurns
      BY <3>1 DEF Entry
    <3> QED
      BY <1>0, <1>1, <1>3, <3>2
  <2>3. turns' \in 0 .. MaxTurns
    BY <1>0, <1>1
  <2> QED
    BY <1>0, <1>1, <1>4, <1>7, <2>1, <2>2, <2>3 DEF HistShape, HistTypeOK, InTurn, Item
<1>9. AsksLast'
  <2>1. q \in 1 .. Len(history') /\ \A x \in q + 1 .. Len(history') : FALSE
    BY <1>2, <1>7
  <2>2. Len(history') - q <= 2 * round'
    BY <1>0, <1>1, <1>7
  <2>3. history'[q].role = "user" /\ history'[q].turn = number'
    BY <1>0, <1>2, <1>3, <1>7, <2>1
  <2> QED
    BY <1>7, <2>1, <2>2, <2>3 DEF AsksLast
<1>10. Paired'
  BY <1>6, <1>7, PairedNext
<1>11. RowsAsk'
  <2>1. t \in 1 .. Len(rows') /\ rows'[t].role = "user" /\ saved'.count < t
    BY <1>0, <1>1, <1>2, <1>3, <1>4
  <2> QED
    BY <1>0, <1>1, <1>7, <2>1 DEF RowsAsk
<1>12. Matched'
  <2> SUFFICES ASSUME mode = "compact" PROVE \E at : Accounts(at, history', rows', folded)
    BY <1>0, <1>1 DEF Matched
  <2>1. PICK at : Accounts(at, h, rows, folded)
    BY <1>0 DEF HistInv, Matched, h
  <2>2. q \in 1 .. Len(h) /\ \A x \in q + 1 .. Len(h) : h[x].role # "user"
    BY <1>3 DEF n
  <2>3. /\ at[q + 1] \in 1 .. Len(rows) /\ rows[at[q + 1]] = h[q]
        /\ \A r \in at[q + 1] + 1 .. Len(rows) : rows[r].role # "user"
    BY <1>2, <1>3, <2>1, <2>2, QuestionRow
  <2>4. at[q + 1] = t
    <3>1. at[q + 1] <= t
      BY <1>3, <2>3 DEF l
    <3>2. t \notin at[q + 1] + 1 .. Len(rows)
      BY <1>3, <2>3
    <3> QED
      BY <1>2, <1>3, <2>3, <3>1, <3>2 DEF l
  <2>5. \E at2 : Accounts(at2, SubSeq(h, 1, q), SubSeq(rows, 1, at[q + 1]), folded)
    BY <1>2, <1>3, <2>1, <2>2, UpToQuestion
  <2> QED
    BY <1>3, <2>4, <2>5
<1>13. SkipsTold'
  <2>1. \A r \in 1 .. t : r \in 1 .. l
    BY <1>2, <1>3
  <2> QED
    BY <1>0, <1>4, <2>1 DEF HistInv, SkipsTold, l
<1> QED
  BY <1>8, <1>9, <1>10, <1>11, <1>12, <1>13 DEF HistInv

(* A connection makes its agent's history of the table. *)
LEMMA ConnectStep == ASSUME NativeTools, HistInv, Connect PROVE HistInv'
<1> DEFINE l == Len(rows)
           s == saved.count
           g == <<Summary>> \o SubSeq(rows, s + 1, Len(rows))
<1>0. /\ ~InTurn /\ ~InTurn' /\ stage = "off" /\ stage' = "idle"
      /\ UNCHANGED <<mode, rows, saved, number, round, partial, turns, clean>>
  BY DEF Connect, InTurn
<1>1. HistShape /\ ~partial /\ round = 0 /\ s \in Nat
  BY <1>0, InvSays
<1>2. /\ rows \in Seq(Entry) /\ l \in Nat /\ (rows = <<>> <=> l = 0)
      /\ \A r \in 1 .. l : rows[r] \in Entry /\ rows[r] \in Item /\ rows[r].role \in {"user", "assistant", "part"}
  BY <1>1, Both DEF HistShape, Item
<1>3. rows \in Seq(Item)
  BY <1>2 DEF Item
<1>4. RowsAsk' /\ SkipsTold'
  <2>1. SkipsTold'
    BY <1>0 DEF HistInv, SkipsTold
  <2>2. rows = <<>> => history' = <<>>
    BY DEF Connect
  <2> QED
    BY <1>0, <1>1, <2>1, <2>2 DEF HistInv, RowsAsk
<1>5. CASE rows = <<>>
  <2>1. history' = <<>> /\ folded' = NoCompaction
    BY <1>5 DEF Connect
  <2>2. <<>> \in Seq(Entry \cup {Summary}) /\ <<>> \in Seq(Item) /\ Len(<<>>) = 0
    OBVIOUS
  <2>3. HistShape'
    BY <1>0, <1>1, <2>1, <2>2 DEF HistShape, HistTypeOK, InTurn, NoCompaction
  <2>4. AsksLast' /\ Paired'
    <3>1. PairedIn(history')
      BY <2>1, <2>2 DEF PairedIn
    <3> QED
      BY <1>0, <2>1, <2>2, <3>1, PairedNext DEF AsksLast
  <2>5. Matched'
    <3> DEFINE at == [i \in 1 .. 1 |-> 0]
    <3>1. at \in [1 .. 0 + 1 -> 0 .. 0] /\ at[1] = 0 /\ at[0 + 1] = 0
      OBVIOUS
    <3> HIDE DEF at
    <3>2. Accounts(at, history', rows', folded')
      BY <1>0, <1>5, <2>1, <2>2, <3>1 DEF Accounts, NoCompaction
    <3> QED
      BY <1>0, <1>1, <3>2 DEF Matched
  <2> QED
    BY <1>4, <2>3, <2>4, <2>5 DEF HistInv
<1>6. CASE rows # <<>>
  <2>1. PICK q0 \in 1 .. l : rows[q0].role = "user" /\ s < q0
    BY <1>6 DEF HistInv, RowsAsk
  <2>2. /\ folded' = saved /\ s < l /\ s <= l
        /\ history' = IF s = 0 THEN rows ELSE g
    <3>1. s < l
      BY <1>1, <1>2, <2>1
    <3>2. s <= l
      BY <1>1, <1>2, <3>1
    <3> QED
      BY <1>6, <3>1, <3>2 DEF Connect, Seeded
  <2> DEFINE T == {r \in 1 .. l : rows[r].role = "user"}
             q == Max(T)
  <2>3. q \in 1 .. l /\ rows[q].role = "user" /\ s < q /\ \A x \in q + 1 .. l : rows[x].role \notin {"user", "summary"}
    <3>1. q0 \in T /\ T \in SUBSET (1 .. l)
      BY <2>1
    <3>2. q \in T /\ \A r \in T : q >= r
      BY <1>2, <3>1, MaxOf
    <3> HIDE DEF q
    <3>3. q \in 1 .. l /\ rows[q].role = "user" /\ q >= q0
      BY <3>1, <3>2
    <3>4. s < q
      BY <1>1, <1>2, <2>1, <3>3
    <3>5. ASSUME NEW x \in q + 1 .. l PROVE rows[x].role \notin {"user", "summary"}
      <4>1. x \in 1 .. l /\ ~(q >= x)
        BY <1>2, <3>3
      <4>2. x \notin T
        BY <3>2, <4>1
      <4> QED
        BY <1>2, <4>1, <4>2
    <3> QED
      BY <3>3, <3>4, <3>5
  <2> HIDE DEF q, T
  <2>4. /\ g \in Seq(Item) /\ Len(g) = l - s + 1 /\ g[1] = Summary
        /\ \A i \in 2 .. l - s + 1 : g[i] = rows[s + i - 1]
    <3>1. s + 1 \in 1 .. Len(rows) + 1
      BY <1>1, <1>2, <2>2
    <3> HIDE DEF s
    <3>2. /\ g \in Seq(Item) /\ Len(g) = Len(rows) - (s + 1) + 2 /\ g[1] = Summary
          /\ \A i \in 2 .. Len(rows) - (s + 1) + 2 : g[i] = rows[(s + 1) + i - 2]
      BY <1>3, <3>1, SummaryThen
    <3>3. Len(rows) - (s + 1) + 2 = l - s + 1 /\ \A i \in 2 .. l - s + 1 : (s + 1) + i - 2 = s + i - 1
      BY <1>1, <1>2
    <3> QED
      BY <3>2, <3>3
  <2>5. /\ history' \in Seq(Item) /\ history' # <<>>
        /\ \A i \in 1 .. Len(history') : history'[i].role \in {"user", "assistant", "part", "summary"}
        /\ \E p \in 1 .. Len(history') :
              /\ history'[p].role = "user"
              /\ \A x \in p + 1 .. Len(history') : history'[x].role \notin {"user", "summary"}
    <3>1. CASE s = 0
      <4>1. history' = rows
        BY <2>2, <3>1
      <4> QED
        BY <1>2, <1>3, <1>6, <2>3, <4>1
    <3>2. CASE s # 0
      <4>1. history' = g
        BY <2>2, <3>2
      <4> HIDE DEF g
      <4>2. g # <<>>
        <5>1. Len(g) # 0
          BY <1>1, <1>2, <2>2, <2>4
        <5> QED
          BY <2>4, <5>1, EmptySeq
      <4>3. ASSUME NEW i \in 1 .. l - s + 1 PROVE g[i].role \in {"user", "assistant", "part", "summary"}
        <5>1. CASE i = 1
          BY <2>4, <5>1 DEF Summary
        <5>2. CASE i # 1
          <6>1. i \in 2 .. l - s + 1 /\ s + i - 1 \in 1 .. l
            BY <1>1, <1>2, <2>2, <5>2
          <6> QED
            BY <1>2, <2>4, <6>1
        <5> QED
          BY <5>1, <5>2
      <4>4. /\ q - s + 1 \in 2 .. l - s + 1 /\ s + (q - s + 1) - 1 = q
            /\ \A x \in (q - s + 1) + 1 .. l - s + 1 : x \in 2 .. l - s + 1 /\ s + x - 1 \in q + 1 .. l
        <5>1. s \in Nat /\ l \in Nat /\ q \in 1 .. l /\ s < q
          BY <1>1, <1>2, <2>3
        <5> HIDE DEF s, l
        <5>2. q - s + 1 \in 2 .. l - s + 1 /\ s + (q - s + 1) - 1 = q
          BY <5>1
        <5>3. ASSUME NEW x \in (q - s + 1) + 1 .. l - s + 1
              PROVE  x \in 2 .. l - s + 1 /\ s + x - 1 \in q + 1 .. l
          BY <5>1
        <5> QED
          BY <5>2, <5>3
      <4>5. q - s + 1 \in 1 .. l - s + 1
        BY <1>1, <1>2, <2>2, <2>3
      <4>6. /\ g[q - s + 1].role = "user"
            /\ \A x \in (q - s + 1) + 1 .. l - s + 1 : g[x].role \notin {"user", "summary"}
        BY <2>3, <2>4, <4>4
      <4> QED
        BY <2>4, <4>1, <4>2, <4>3, <4>5, <4>6
    <3> QED
      BY <3>1, <3>2
  <2>6. HistShape'
    BY <1>0, <1>1, <2>2, <2>5 DEF HistShape, HistTypeOK, InTurn, Item
  <2>7. AsksLast'
    BY <1>0, <2>5 DEF AsksLast
  <2>8. Paired'
    <3>1. PairedIn(history')
      BY <2>5 DEF PairedIn
    <3> QED
      BY <2>5, <3>1, PairedNext
  <2>9. Matched'
    <3> SUFFICES \E at : Accounts(at, history', rows, saved)
      BY <1>0, <1>1, <2>2 DEF Matched
    <3>1. \A r \in 1 .. Len(rows) : r <= saved.count => rows[r] \in saved.tells \/ rows[r].role = "part"
      BY DEF HistInv, SkipsTold
    <3>2. CASE s = 0
      <4>1. Accounts([i \in 1 .. Len(rows) + 1 |-> i - 1], rows, rows, saved)
        BY <1>1, <1>2, <2>2, <3>1, <3>2, FromTable
      <4> QED
        BY <2>2, <3>2, <4>1
    <3>3. CASE s # 0
      <4>1. \E at : Accounts(at, g, rows, saved)
        BY <1>1, <1>2, <2>2, <3>1, FromTable
      <4> QED
        BY <2>2, <3>3, <4>1
    <3> QED
      BY <3>2, <3>3
  <2> QED
    BY <1>4, <2>6, <2>7, <2>8, <2>9 DEF HistInv
<1> QED
  BY <1>5, <1>6

(* A compaction. *)
LEMMA CompactStep == ASSUME NativeTools, HistInv, Compact PROVE HistInv'
<1> DEFINE h == history
           l == Len(h)
<1>1. PICK n \in Boundaries(h) :
         folded' = FoldedTo(h, n) /\ history' = <<Summary>> \o SubSeq(h, n, Len(h))
  BY DEF Compact
<1>2. /\ InTurn /\ InTurn' /\ mode = "compact"
      /\ UNCHANGED <<mode, rows, saved, number, round, partial, turns, clean>>
  BY DEF Compact, InTurn
<1>3. /\ HistShape /\ PairedIn(h) /\ folded.count \in Nat /\ h # <<>> /\ rows # <<>>
  BY <1>2, InvSays
<1>4. /\ rows \in Seq(Entry) /\ h \in Seq(Item) /\ Len(rows) \in Nat /\ l \in Nat /\ DOMAIN h = 1 .. l
      /\ \A i \in 1 .. l : h[i] \in Item
  BY <1>3, Both
<1>5. n \in 1 .. l /\ h[n].role = "user"
  BY <1>4, BoundaryIs
<1>6. /\ history' \in Seq(Item) /\ Len(history') = l - n + 2
      /\ \A i \in 2 .. l - n + 2 : history'[i] = h[n + i - 2]
  <2>1. n \in 1 .. Len(h) + 1
    BY <1>4, <1>5
  <2> QED
    BY <1>1, <1>4, <2>1, SummaryThen
<1>7. PairedIn(history')
  BY <1>1, <1>3, <1>4, <1>5, PairedCuts
<1>8. history' # <<>>
  <2>1. Len(history') # 0
    BY <1>4, <1>5, <1>6
  <2> QED
    BY <1>6, <2>1, EmptySeq
<1> DEFINE K == {i \in Items(h) : i < n /\ Stored(h[i])}
           told == {h[i] : i \in {j \in Items(h) : j < n}}
<1>9. folded'.count = folded.count + Cardinality(K) /\ folded'.tells = folded.tells \cup told
  BY <1>1 DEF FoldedTo
<1>10. told \subseteq Entry
  <2>1. \A i \in Items(h) : i \in 1 .. l /\ h[i] # Summary
    BY <1>4 DEF Items
  <2>2. \A i \in Items(h) : h[i] \in Entry
    BY <1>4, <2>1 DEF Item
  <2> QED
    BY <2>2
<1> HIDE DEF K, told
<1>11. PICK at : Accounts(at, h, rows, folded) /\ (partial => at[l + 1] < Len(rows))
  BY <1>2 DEF HistInv, Matched, InTurn
<1>12. Cardinality(K) \in Nat /\ folded.count + Cardinality(K) <= at[n]
  BY <1>3, <1>4, <1>5, <1>11, RowsInFront DEF K
<1> HIDE DEF h, l
<1>13. HistShape'
  <2>1. folded'.count \in Nat /\ folded'.tells \subseteq Entry
    BY <1>3, <1>9, <1>10, <1>12 DEF HistShape, HistTypeOK
  <2>2. stage' \in {"top", "asked"}
    BY DEF Compact
  <2> QED
    BY <1>2, <1>3, <1>6, <2>1, <2>2 DEF HistShape, HistTypeOK, InTurn, Item
<1>14. AsksLast'
  <2>1. PICK q \in 1 .. l :
           /\ h[q].role = "user" /\ h[q].turn = number
           /\ \A x \in q + 1 .. l : h[x].role \notin {"user", "summary"}
    BY <1>2, <1>3 DEF HistInv, AsksLast, h, l
  <2>2. n <= q
    <3>1. n \notin q + 1 .. l
      BY <1>5, <2>1
    <3> QED
      BY <1>4, <1>5, <3>1
  <2>3. /\ q - n + 2 \in 2 .. l - n + 2 /\ q - n + 2 \in 1 .. l - n + 2 /\ n + (q - n + 2) - 2 = q
        /\ \A x \in (q - n + 2) + 1 .. l - n + 2 : x \in 2 .. l - n + 2 /\ n + x - 2 \in q + 1 .. l
    <3>1. l \in Nat /\ n \in 1 .. l /\ q \in 1 .. l /\ n <= q
      BY <1>4, <1>5, <2>2
    <3>2. q - n + 2 \in 2 .. l - n + 2 /\ q - n + 2 \in 1 .. l - n + 2 /\ n + (q - n + 2) - 2 = q
      BY <3>1
    <3>3. ASSUME NEW x \in (q - n + 2) + 1 .. l - n + 2
          PROVE  x \in 2 .. l - n + 2 /\ n + x - 2 \in q + 1 .. l
      BY <3>1
    <3> QED
      BY <3>2, <3>3
  <2>4. /\ history'[q - n + 2].role = "user" /\ history'[q - n + 2].turn = number'
        /\ \A x \in (q - n + 2) + 1 .. l - n + 2 : history'[x].role \notin {"user", "summary"}
    BY <1>2, <1>6, <2>1, <2>3
  <2>5. ~(mode' = "trim")
    BY <1>2
  <2> QED
    BY <1>6, <1>8, <2>3, <2>4, <2>5 DEF AsksLast
<1>15. Paired'
  BY <1>6, <1>7, PairedNext
<1>16. RowsAsk'
  BY <1>2, <1>3 DEF HistInv, RowsAsk
<1>17. Matched'
  <2>1. folded'.count <= at[n] /\ folded'.tells = folded.tells \cup {h[i] : i \in {j \in Items(h) : j < n}}
    BY <1>9, <1>12 DEF told
  <2>2. n \in 1 .. Len(h)
    BY <1>5 DEF l
  <2>3. \E at2 : Accounts(at2, history', rows, folded') /\ at2[Len(history') + 1] = at[Len(h) + 1]
    <3> DEFINE c2 == folded'
               h2 == <<Summary>> \o SubSeq(h, n, Len(h))
    <3>1. /\ c2.count <= at[n] /\ \A e \in folded.tells : e \in c2.tells
          /\ \A i \in Items(h) : i < n => h[i] \in c2.tells
      BY <2>1
    <3> HIDE DEF c2
    <3>2. \E at2 : Accounts(at2, h2, rows, c2) /\ at2[Len(h2) + 1] = at[Len(h) + 1]
      <4>1. h \in Seq(Item) /\ rows \in Seq(Entry) /\ Accounts(at, h, rows, folded)
        BY <1>4, <1>11
      <4> QED
        BY <2>2, <3>1, <4>1, Folds
    <3> QED
      BY <1>1, <3>2 DEF c2
  <2> QED
    BY <1>2, <1>11, <2>3 DEF Matched, l
<1>18. SkipsTold'
  BY <1>2 DEF HistInv, SkipsTold
<1> QED
  BY <1>13, <1>14, <1>15, <1>16, <1>17, <1>18 DEF HistInv

-----------------------------------------------------------------------------
(* The invariant. *)
LEMMA HistHolds == ASSUME NativeTools PROVE HistSpec => []HistInv
<1>1. HistInit => HistInv
  BY HistStarts
<1>2. HistInv /\ [HistNext]_histVars => HistInv'
  <2> SUFFICES ASSUME HistInv, [HistNext]_histVars PROVE HistInv'
    OBVIOUS
  <2>1. CASE Connect
    BY <2>1, ConnectStep
  <2>2. CASE Gone
    BY <2>2, GoneStep
  <2>3. CASE Ask
    BY <2>3, AskStep
  <2>4. CASE Regenerate
    BY <2>4, RegenerateStep
  <2>5. CASE Compact
    BY <2>5, CompactStep
  <2>6. CASE NoCompact
    BY <2>6, NoCompactStep
  <2>7. CASE CallTools
    BY <2>7, CallToolsStep
  <2>8. CASE SavePartial
    BY <2>8, SavePartialStep
  <2>9. CASE Answer
    BY <2>9, AnswerStep
  <2>10. CASE Cancelled
    BY <2>10, CancelledStep
  <2>11. CASE Failed
    BY <2>11, FailedStep
  <2>12. CASE UNCHANGED histVars
    BY <2>12 DEF histVars, HistInv, HistShape, HistTypeOK, AsksLast, Paired, RowsAsk, Matched, SkipsTold, InTurn
  <2> QED
    BY <2>1, <2>2, <2>3, <2>4, <2>5, <2>6, <2>7, <2>8, <2>9, <2>10, <2>11, <2>12 DEF HistNext
<1> QED
  BY <1>1, <1>2, PTL DEF HistSpec

(* The types. *)
THEOREM HistTypeCorrect == ASSUME NativeTools PROVE HistSpec => []HistTypeOK
<1>1. HistInv => HistTypeOK
  BY DEF HistInv, HistShape
<1> QED
  BY <1>1, HistHolds, PTL

(* However often a history is trimmed or compacted during a turn, the      *)
(* question of the turn is in it.                                          *)
THEOREM QuestionStaysVerbatim == ASSUME NativeTools PROVE HistSpec => []QuestionVerbatim
<1>1. HistInv => QuestionVerbatim
  <2> SUFFICES ASSUME HistInv, stage \in {"start", "top", "asked"}
               PROVE  \E i \in DOMAIN history : history[i] = Message("user", number)
    BY DEF QuestionVerbatim
  <2>1. HistShape /\ InTurn /\ history # <<>>
    BY InvSays DEF InTurn
  <2>2. PICK i \in 1 .. Len(history) : history[i].role = "user" /\ history[i].turn = number
    BY <2>1 DEF HistInv, AsksLast
  <2>3. history[i] \in Item /\ history[i] # Summary /\ i \in DOMAIN history
    BY <2>1, <2>2, Both DEF Summary
  <2>4. history[i] \in Entry
    BY <2>3 DEF Item
  <2>5. history[i] = Message("user", number)
    BY <2>2, <2>4 DEF Entry, Message
  <2> QED
    BY <2>3, <2>5
<1> QED
  BY <1>1, HistHolds, PTL

(* No cut separates tool calls from their results. *)
THEOREM ResultsStayPaired == ASSUME NativeTools PROVE HistSpec => []Paired
<1>1. HistInv => Paired
  BY DEF HistInv
<1> QED
  BY <1>1, HistHolds, PTL

(* The count that a compaction stores never exceeds what its summary       *)
(* tells, answers cut short apart.                                         *)
THEOREM SkippedRowsAreTold == ASSUME NativeTools PROVE HistSpec => []SkippedAreTold
<1>1. HistInv => SkippedAreTold
  <2> SUFFICES ASSUME HistInv PROVE SkippedAreTold
    OBVIOUS
  <2>1. DOMAIN rows = 1 .. Len(rows)
    BY InvSays, Both
  <2> QED
    BY <2>1 DEF HistInv, SkipsTold, SkippedAreTold
<1> QED
  BY <1>1, HistHolds, PTL

-----------------------------------------------------------------------------
(* The places of the messages that are stored, and the rank of one.        *)
StoredIn(h) == {i \in 1 .. Len(h) : Stored(h[i])}
Nth(h, i) == Cardinality({j \in StoredIn(h) : j <= i})

(* As long as every turn ended well the stored messages of a history are   *)
(* the rows of a table t behind the first c, one by one, and its summary,  *)
(* there if c is not 0, comes first.                                       *)
InStep(h, t, c) ==
    /\ c + Cardinality(StoredIn(h)) = Len(t)
    /\ \A i \in StoredIn(h) : h[i] = t[c + Nth(h, i)]
    /\ \A i \in 1 .. Len(h) : h[i] = Summary <=> i = 1 /\ c > 0
    /\ h = <<>> => c = 0
    /\ h # <<>> /\ c = 0 => Stored(h[1])

(* A history shows a new connection's messages, tool traffic apart. *)
SeenAs(h, made) ==
    LET seen == {i \in DOMAIN h : h[i].role \notin {"calls", "results"}}
    IN  /\ Cardinality(seen) = Len(made)
        /\ \A i \in seen : h[i] = made[Cardinality({j \in seen : j <= i})]

(* The table without what is saved of an answer that is not over.          *)
FullRows == IF partial THEN Front(rows) ELSE rows

(* A turn under way may have folded more than what is stored.              *)
SameInv ==
    clean /\ mode = "compact" /\ stage # "off" =>
        /\ InStep(history, FullRows, folded.count)
        /\ IF InTurn THEN folded.count = 0 => saved.count = 0 ELSE saved.count = folded.count

-----------------------------------------------------------------------------
(* Counting the stored messages. *)

(* They are so many, and each has a rank. *)
LEMMA StoredCount ==
    ASSUME NEW h \in Seq(Item)
    PROVE  /\ Len(h) \in Nat /\ StoredIn(h) \in SUBSET (1 .. Len(h))
           /\ IsFiniteSet(StoredIn(h)) /\ Cardinality(StoredIn(h)) \in Nat
           /\ \A i \in StoredIn(h) : Nth(h, i) \in 1 .. Cardinality(StoredIn(h))
<1>1. Len(h) \in Nat /\ StoredIn(h) \in SUBSET (1 .. Len(h))
  BY LenProperties DEF StoredIn
<1> DEFINE I == StoredIn(h)
<1>2. IsFiniteSet(I) /\ Cardinality(I) \in 0 .. Len(h)
  BY <1>1, PlacesFinite
<1>3. ASSUME NEW i \in I PROVE Nth(h, i) \in 1 .. Cardinality(I)
  <2>1. i \in Nat
    BY <1>1
  <2>2. IsFiniteSet({j \in I : j <= i}) /\ Nth(h, i) \in 0 .. Cardinality(I)
    BY <1>1, <2>1, RankType DEF Nth
  <2>3. {j \in I : j <= i} # {}
    BY <2>1
  <2>4. Nth(h, i) # 0
    BY <2>2, <2>3, FS_EmptySet DEF Nth
  <2> QED
    BY <1>2, <2>2, <2>4
<1> QED
  BY <1>1, <1>2, <1>3

(* A stored message and its row. *)
LEMMA StepMore ==
    ASSUME NativeTools, NEW h \in Seq(Item), NEW t \in Seq(Entry), NEW c \in Nat, InStep(h, t, c),
           NEW e \in Entry, Stored(e)
    PROVE  InStep(Append(h, e), Append(t, e), c)
<1> DEFINE g == Append(h, e)
           w == Append(t, e)
           n == Len(h)
           I == StoredIn(h)
<1>1. /\ n \in Nat /\ I \in SUBSET (1 .. n) /\ Cardinality(I) \in Nat
      /\ \A i \in I : Nth(h, i) \in 1 .. Cardinality(I)
  BY StoredCount
<1>2. /\ g \in Seq(Item) /\ Len(g) = n + 1 /\ g[n + 1] = e
      /\ \A i \in 1 .. n : g[i] = h[i]
  <2>1. e \in Item
    BY DEF Item
  <2> QED
    BY <2>1, AppendProperties
<1>3. Len(t) \in Nat /\ Len(w) = Len(t) + 1 /\ w[Len(t) + 1] = e /\ \A r \in 1 .. Len(t) : w[r] = t[r]
  BY LenProperties, AppendProperties
<1>4. \A i : i \in 1 .. n + 1 <=> i \in 1 .. n \/ i = n + 1
  BY <1>1
<1> HIDE DEF g, w, n
<1>5. StoredIn(g) = I \cup {n + 1}
  BY <1>2, <1>4 DEF StoredIn, n
<1> HIDE DEF I
<1>6. /\ Cardinality(StoredIn(g)) = Cardinality(I) + 1
      /\ Nth(g, n + 1) = Cardinality(I) + 1
      /\ \A i \in I : Nth(g, i) = Nth(h, i)
  <2>1. /\ Cardinality(I \cup {n + 1}) = Cardinality(I) + 1
        /\ Cardinality({j \in I \cup {n + 1} : j <= n + 1}) = Cardinality(I) + 1
        /\ \A i \in I : {j \in I \cup {n + 1} : j <= i} = {j \in I : j <= i}
    BY <1>1, PlaceMore
  <2>2. \A i : /\ Nth(g, i) = Cardinality({j \in I \cup {n + 1} : j <= i})
               /\ Nth(h, i) = Cardinality({j \in I : j <= i})
    BY <1>5 DEF Nth, I
  <2> QED
    BY <1>5, <2>1, <2>2
<1>7. c + Cardinality(I) = Len(t) /\ (\A i \in I : h[i] = t[c + Nth(h, i)])
  BY DEF InStep, I
<1>8. c + Cardinality(StoredIn(g)) = Len(w)
  BY <1>1, <1>3, <1>6, <1>7
<1>9. \A i \in StoredIn(g) : g[i] = w[c + Nth(g, i)]
  <2>1. ASSUME NEW i \in I PROVE g[i] = w[c + Nth(g, i)]
    <3>1. c + Nth(h, i) \in 1 .. Len(t)
      BY <1>1, <1>3, <1>7
    <3> QED
      BY <1>1, <1>2, <1>3, <1>6, <1>7, <3>1
  <2>2. c + Nth(g, n + 1) = Len(t) + 1
    BY <1>1, <1>3, <1>6, <1>7
  <2> QED
    BY <1>2, <1>3, <1>5, <2>1, <2>2
<1>10. \A i \in 1 .. Len(g) : g[i] = Summary <=> i = 1 /\ c > 0
  <2>1. \A i \in 1 .. n : g[i] = Summary <=> i = 1 /\ c > 0
    BY <1>2 DEF InStep, n
  <2>2. g[n + 1] # Summary /\ ~(n + 1 = 1 /\ c > 0)
    <3>1. e # Summary
      BY ItemKinds
    <3>2. n + 1 = 1 => h = <<>>
      BY <1>1, EmptySeq DEF n
    <3> QED
      BY <1>2, <3>1, <3>2 DEF InStep
  <2> QED
    BY <1>2, <1>4, <2>1, <2>2
<1>11. g # <<>> /\ (c = 0 => Stored(g[1]))
  <2>1. CASE h = <<>>
    <3>1. n = 0
      BY <2>1 DEF n
    <3>2. g[1] = e
      <4>1. n + 1 = 1
        BY <3>1
      <4> QED
        BY <1>2, <4>1
    <3>3. g # <<>>
      BY <1>1, <1>2
    <3> QED
      BY <3>2, <3>3
  <2>2. CASE h # <<>>
    <3>1. 1 \in 1 .. n
      BY <1>1, <2>2, EmptySeq DEF n
    <3>2. g # <<>>
      BY <1>1, <1>2
    <3> QED
      BY <1>2, <2>2, <3>1, <3>2 DEF InStep
  <2> QED
    BY <2>1, <2>2
<1>12. InStep(g, w, c)
  BY <1>8, <1>9, <1>10, <1>11 DEF InStep
<1> QED
  BY <1>12 DEF g, w

(* Histories with the same stored messages at the same places, and as many *)
(* rows that say the same.                                                 *)
LEMMA StepSame ==
    ASSUME NEW h \in Seq(Item), NEW t, NEW c, InStep(h, t, c), h # <<>>,
           NEW g \in Seq(Item), Len(h) <= Len(g), \A i \in 1 .. Len(h) : g[i] = h[i],
           \A i \in 1 .. Len(g) : i > Len(h) => ~Stored(g[i]) /\ g[i] # Summary
    PROVE  InStep(g, t, c)
<1>1. Len(h) \in Nat /\ Len(g) \in Nat /\ 1 \in 1 .. Len(h)
  <2>1. Len(h) \in Nat /\ Len(g) \in Nat /\ Len(h) # 0
    BY LenProperties, EmptySeq
  <2> QED
    BY <2>1
<1>2. \A i : i \in 1 .. Len(h) <=> i \in 1 .. Len(g) /\ ~(i > Len(h))
  BY <1>1
<1>3. StoredIn(g) = StoredIn(h)
  BY <1>2 DEF StoredIn
<1>4. \A i : Nth(g, i) = Nth(h, i)
  BY <1>3 DEF Nth
<1>5. \A i \in StoredIn(h) : g[i] = h[i]
  BY DEF StoredIn
<1>6. \A i \in 1 .. Len(g) : g[i] = Summary <=> i = 1 /\ c > 0
  BY <1>1, <1>2 DEF InStep
<1>7. g # <<>> /\ (c = 0 => Stored(g[1]))
  <2>1. g # <<>>
    <3>1. Len(g) # 0
      BY <1>1
    <3> QED
      BY <3>1, EmptySeq
  <2> QED
    BY <1>1, <2>1 DEF InStep
<1> QED
  BY <1>3, <1>4, <1>5, <1>6, <1>7 DEF InStep

(* What is left of both when they are cut behind the last question.        *)
LEMMA StepCut ==
    ASSUME NativeTools, NEW h \in Seq(Item), NEW t \in Seq(Entry), NEW c \in Nat, InStep(h, t, c),
           NEW q \in 1 .. Len(h), h[q].role = "user",
           \A k \in q + 1 .. Len(h) : h[k].role # "user",
           NEW b \in 1 .. Len(t), t[b].role = "user",
           \A r \in 1 .. Len(t) : t[r].role = "user" => r <= b, c < b
    PROVE  InStep(SubSeq(h, 1, q), SubSeq(t, 1, b), c)
<1> DEFINE I == StoredIn(h)
           g == SubSeq(h, 1, q)
           w == SubSeq(t, 1, b)
           n == Len(h)
           l == Len(t)
<1>1. /\ n \in Nat /\ I \in SUBSET (1 .. n) /\ Cardinality(I) \in Nat /\ IsFiniteSet(I)
      /\ \A i \in I : Nth(h, i) \in 1 .. Cardinality(I)
  BY StoredCount
<1>2. l \in Nat /\ q \in 1 .. n /\ b \in 1 .. l /\ n \in Nat
  BY LenProperties
<1>3. /\ c + Cardinality(I) = l /\ (\A i \in I : h[i] = t[c + Nth(h, i)])
      /\ \A i \in 1 .. n : h[i] = Summary <=> i = 1 /\ c > 0
      /\ c = 0 => Stored(h[1])
  <2>1. h # <<>>
    BY <1>1, <1>2, EmptySeq
  <2> QED
    BY <2>1 DEF InStep
<1>4. g \in Seq(Item) /\ Len(g) = q /\ \A i \in 1 .. q : g[i] = h[i]
  <2>1. q \in 0 .. Len(h)
    BY <1>1
  <2> QED
    BY <2>1, FrontOf
<1>5. w \in Seq(Entry) /\ Len(w) = b /\ \A r \in 1 .. b : w[r] = t[r]
  <2>1. b \in 0 .. Len(t)
    BY <1>2
  <2> QED
    BY <2>1, FrontOf
<1>6. h[q] \in Item
  BY ElementOfSeq
<1>7. q \in I /\ h[q] # Summary
  <2>1. Stored(h[q])
    BY <1>6, ItemKinds
  <2> QED
    BY <2>1, ItemKinds DEF StoredIn
<1> HIDE DEF I, g, w, n, l
<1>8. c + Nth(h, q) = b
  <2>1. c + Nth(h, q) \in 1 .. l /\ t[c + Nth(h, q)].role = "user" /\ Nth(h, q) \in Nat
    <3>1. Nth(h, q) \in 1 .. Cardinality(I) /\ h[q] = t[c + Nth(h, q)]
      BY <1>1, <1>3, <1>7
    <3>2. Cardinality(I) \in Nat /\ c + Cardinality(I) = l /\ c \in Nat
      BY <1>1, <1>3
    <3>3. c + Nth(h, q) \in 1 .. l /\ Nth(h, q) \in Nat
      BY ONLY <3>1, <3>2
    <3> QED
      BY <3>1, <3>3
  <2>2. c + Nth(h, q) <= b
    BY <2>1 DEF l
  <2>3. b - c \in 1 .. Cardinality(I)
    <3>1. /\ Cardinality(I) \in Nat /\ c + Cardinality(I) = l /\ c \in Nat /\ c < b
          /\ b \in 1 .. l /\ l \in Nat
      BY <1>1, <1>2, <1>3
    <3> QED
      BY ONLY <3>1
  <2>4. PICK i \in I : Nth(h, i) = b - c
    <3>1. \A k \in 1 .. Cardinality(I) : \E i \in I : Cardinality({j \in I : j <= i}) = k
      <4>1. n \in Nat /\ I \in SUBSET (1 .. n)
        BY <1>1
      <4> QED
        BY ONLY <4>1, RankOnto
    <3>2. \E i \in I : Cardinality({j \in I : j <= i}) = b - c
      BY <2>3, <3>1
    <3> QED
      BY <3>2 DEF Nth, I
  <2>5. h[i].role = "user" /\ i \in 1 .. n
    <3>1. c + Nth(h, i) = b
      BY <1>2, <2>4
    <3> QED
      BY <1>1, <1>3, <3>1
  <2>6. i <= q
    <3>1. i \notin q + 1 .. n
      BY <2>5 DEF n
    <3> QED
      BY <1>1, <1>2, <2>5, <3>1
  <2>7. Nth(h, i) <= Nth(h, q)
    <3>1. i = q \/ i < q
      BY <1>2, <2>5, <2>6
    <3>2. i < q => Nth(h, i) < Nth(h, q)
      BY <1>1, <1>7, RankGrows DEF Nth, I
    <3> QED
      BY <1>1, <1>7, <2>1, <2>3, <2>4, <3>1, <3>2
  <2> QED
    BY <1>2, <2>1, <2>2, <2>4, <2>7
<1>9. StoredIn(g) = {j \in I : j <= q}
  <2>1. \A j : j \in 1 .. q <=> j \in 1 .. n /\ j <= q
    BY <1>2
  <2> QED
    BY <1>4, <2>1 DEF StoredIn, I, n
<1>10. Cardinality(StoredIn(g)) = Nth(h, q)
  BY <1>9 DEF Nth, I
<1>11. \A i \in StoredIn(g) : Nth(g, i) = Nth(h, i) /\ i \in I /\ i <= q
  <2> SUFFICES ASSUME NEW i \in StoredIn(g) PROVE Nth(g, i) = Nth(h, i) /\ i \in I /\ i <= q
    OBVIOUS
  <2>1. i \in I /\ i <= q
    BY <1>9
  <2>2. {j \in StoredIn(g) : j <= i} = {j \in I : j <= i}
    <3>1. \A j \in I : j <= i => j <= q
      <4>1. \A j \in I : j \in Nat
        BY <1>1
      <4> QED
        BY <1>2, <2>1, <4>1
    <3> QED
      BY <1>9, <3>1
  <2> QED
    BY <2>1, <2>2 DEF Nth, I
<1>12. \A i \in StoredIn(g) : g[i] = w[c + Nth(g, i)]
  <2> SUFFICES ASSUME NEW i \in StoredIn(g) PROVE g[i] = w[c + Nth(g, i)]
    OBVIOUS
  <2>1. i \in I /\ i <= q /\ Nth(g, i) = Nth(h, i) /\ i \in 1 .. q
    BY <1>4, <1>11 DEF StoredIn
  <2>2. c + Nth(h, i) \in 1 .. b
    <3>1. i = q \/ i < q
      BY <1>2, <2>1
    <3>2. i < q => Nth(h, i) < Nth(h, q)
      BY <1>1, <1>7, <2>1, RankGrows DEF Nth, I
    <3>3. Nth(h, i) \in Nat /\ Nth(h, i) >= 1 /\ Nth(h, q) \in Nat
      BY <1>1, <1>7, <2>1
    <3> QED
      BY <1>2, <1>8, <3>1, <3>2, <3>3
  <2> QED
    BY <1>3, <1>4, <1>5, <2>1, <2>2
<1>13. \A i \in 1 .. q : i \in 1 .. n
  BY <1>2
<1>14. g # <<>> /\ 1 \in 1 .. q
  BY <1>2, <1>4, EmptySeq
<1>15. InStep(g, w, c)
  BY <1>3, <1>4, <1>5, <1>8, <1>10, <1>12, <1>13, <1>14 DEF InStep
<1> QED
  BY <1>15 DEF g, w

(* The stored messages in front of place n are folded: the summary stands  *)
(* for as many rows more.                                                  *)
LEMMA StepFolds ==
    ASSUME NativeTools, NEW h \in Seq(Item), NEW t \in Seq(Entry), NEW c \in Nat, InStep(h, t, c),
           NEW n \in 2 .. Len(h)
    PROVE  LET d == Cardinality({i \in Items(h) : i < n /\ Stored(h[i])})
           IN  d \in Nat /\ c + d > 0 /\ InStep(<<Summary>> \o SubSeq(h, n, Len(h)), t, c + d)
<1> DEFINE l == Len(h)
           I == StoredIn(h)
           B == {i \in I : i < n}
           A == {i \in I : n <= i}
           d == Cardinality(B)
           g == <<Summary>> \o SubSeq(h, n, Len(h))
           J == StoredIn(g)
           s == n - 2
           m == l - n + 2
<1>1. /\ l \in Nat /\ I \in SUBSET (1 .. l) /\ Cardinality(I) \in Nat /\ IsFiniteSet(I)
      /\ \A i \in I : Nth(h, i) \in 1 .. Cardinality(I)
  BY StoredCount
<1>2. n \in 2 .. l /\ n \in Nat /\ n \in 1 .. l + 1 /\ s \in Nat
  BY <1>1
<1>3. /\ g \in Seq(Item) /\ Len(g) = l - n + 2 /\ g[1] = Summary
      /\ \A i \in 2 .. l - n + 2 : g[i] = h[n + i - 2]
  BY <1>2, SummaryThen
<1>4. {i \in Items(h) : i < n /\ Stored(h[i])} = B
  <2>1. DOMAIN h = 1 .. l
    BY LenProperties
  <2>2. \A i \in I : h[i] # Summary /\ Stored(h[i])
    BY ItemKinds DEF StoredIn
  <2> QED
    BY <2>1, <2>2 DEF Items, StoredIn
<1>5. /\ c + Cardinality(I) = Len(t) /\ (\A i \in I : h[i] = t[c + Nth(h, i)])
      /\ \A i \in 1 .. l : h[i] = Summary <=> i = 1 /\ c > 0
      /\ c = 0 => Stored(h[1])
  <2>1. h # <<>>
    BY <1>1, <1>2, EmptySeq
  <2> QED
    BY <2>1 DEF InStep
<1> HIDE DEF I, B, A, g, J, l, s, m
<1>6. /\ B \in SUBSET I /\ A \in SUBSET I /\ A \cap B = {} /\ A \cup B = I
      /\ IsFiniteSet(A) /\ IsFiniteSet(B) /\ Cardinality(A) \in Nat /\ d \in Nat
  <2>1. B \in SUBSET I /\ A \in SUBSET I /\ A \cap B = {} /\ A \cup B = I
    <3>1. \A i \in I : i \in Nat
      BY <1>1
    <3> QED
      BY <1>2, <3>1 DEF A, B
  <2> QED
    BY <1>1, <2>1, FS_Subset, FS_CardinalityType
<1>7. Cardinality(I) = Cardinality(A) + d
  <2>1. Cardinality(A \cup B) = Cardinality(A) + Cardinality(B) - Cardinality(A \cap B)
    BY <1>6, FS_Union
  <2>2. Cardinality(A \cap B) = 0
    BY <1>6, FS_EmptySet
  <2>3. Cardinality(A \cup B) = Cardinality(I)
    BY <1>6
  <2>4. Cardinality(A) \in Nat /\ Cardinality(B) \in Nat
    BY <1>6
  <2> QED
    BY <2>1, <2>2, <2>3, <2>4
<1>8. /\ \A i \in J : i \in 2 .. l - n + 2 /\ i + s \in A /\ i + s \in 2 .. l /\ g[i] = h[i + s]
      /\ \A j \in A : j \in Int /\ j - s \in J
  <2>1. ASSUME NEW i \in J
        PROVE  i \in 2 .. l - n + 2 /\ i + s \in A /\ i + s \in 2 .. l /\ g[i] = h[i + s]
    <3>1. i \in 1 .. l - n + 2 /\ Stored(g[i])
      BY <1>3 DEF J, StoredIn
    <3>2. i # 1
      BY <1>3, <3>1, ItemKinds
    <3>3. /\ i \in 2 .. l - n + 2 /\ n + i - 2 = i + s /\ i + s \in 1 .. l /\ n <= i + s
          /\ i + s \in 2 .. l
      BY <1>1, <1>2, <3>1, <3>2 DEF s
    <3>4. g[i] = h[i + s]
      BY <1>3, <3>3
    <3> QED
      BY <3>1, <3>3, <3>4 DEF A, I, StoredIn, l
  <2>2. ASSUME NEW j \in A PROVE j \in Int /\ j - s \in J
    <3>1. j \in 1 .. l /\ n <= j /\ Stored(h[j])
      BY DEF A, I, StoredIn, l
    <3>2. /\ j \in Int /\ j - s \in 2 .. l - n + 2 /\ n + (j - s) - 2 = j
          /\ j - s \in 1 .. l - n + 2
      BY <1>1, <1>2, <3>1 DEF s
    <3>3. g[j - s] = h[j]
      BY <1>3, <3>2
    <3> QED
      BY <1>3, <3>1, <3>2, <3>3 DEF J, StoredIn
  <2> QED
    BY <2>1, <2>2
<1>9. J \in SUBSET (1 .. m) /\ m \in Nat /\ s \in Int
  BY <1>1, <1>2, <1>8 DEF m
<1>10. Cardinality(J) = Cardinality(A)
  <2>1. (\A i \in J : i + s \in A) /\ (\A j \in A : j \in Int /\ j - s \in J)
    BY <1>8
  <2> QED
    BY ONLY <1>9, <2>1, PlacesShifted
<1>11. ASSUME NEW i \in J
       PROVE  /\ i + s \in I /\ Nth(h, i + s) = Nth(g, i) + d /\ Nth(g, i) \in Nat
  <2> DEFINE P == {j \in A : j <= i + s}
             Q == {j \in J : j <= i}
  <2>1. i \in Nat /\ i + s \in A /\ i + s \in Nat
    BY <1>2, <1>8, <1>9
  <2>2. Q \in SUBSET (1 .. m)
    BY <1>9
  <2>3. \A k \in Q : k + s \in P
    <3>1. \A k \in J : k \in Nat
      BY <1>9
    <3> QED
      BY <1>2, <1>8, <2>1, <3>1
  <2>4. \A k \in P : k \in Int /\ k - s \in Q
    BY <1>2, <1>8, <2>1
  <2>5. IsFiniteSet(P) /\ Cardinality(P) \in Nat
    <3>1. P \subseteq A
      OBVIOUS
    <3> QED
      BY <1>6, <3>1, FS_Subset, FS_CardinalityType
  <2> HIDE DEF P, Q
  <2>6. Cardinality(P) = Cardinality(Q)
    BY ONLY <1>9, <2>2, <2>3, <2>4, PlacesShifted
  <2>7. {j \in I : j <= i + s} = P \cup B /\ P \cap B = {}
    <3>1. \A j \in B : j <= i + s
      <4>1. n <= i + s /\ \A j \in B : j \in Nat /\ j < n
        BY <1>1, <2>1 DEF A, B
      <4> QED
        BY <1>2, <2>1, <4>1
    <3> QED
      BY <1>6, <3>1 DEF P
  <2>8. Cardinality(P \cup B) = Cardinality(P) + Cardinality(B) - Cardinality(P \cap B)
    BY <1>6, <2>5, FS_Union
  <2>9. Cardinality(P \cap B) = 0
    BY <2>7, FS_EmptySet
  <2>10. Nth(h, i + s) = Cardinality(P \cup B) /\ Nth(g, i) = Cardinality(Q)
    BY <2>7 DEF Nth, I, J, Q
  <2> QED
    BY <1>6, <2>1, <2>5, <2>6, <2>8, <2>9, <2>10
<1>12. c + d > 0
  <2>1. CASE c = 0
    <3>1. 1 \in I /\ 1 < n
      BY <1>1, <1>2, <1>5, <2>1 DEF I, StoredIn, l
    <3>2. B # {}
      BY <3>1 DEF B
    <3>3. d # 0
      BY <1>6, <3>2, FS_EmptySet
    <3> QED
      BY <1>6, <2>1, <3>3
  <2>2. CASE c # 0
    BY <1>6, <2>2
  <2> QED
    BY <2>1, <2>2
<1>13. (c + d) + Cardinality(J) = Len(t)
  BY <1>5, <1>6, <1>7, <1>10
<1>14. \A i \in J : g[i] = t[(c + d) + Nth(g, i)]
  <2> SUFFICES ASSUME NEW i \in J PROVE g[i] = t[(c + d) + Nth(g, i)]
    OBVIOUS
  <2>1. i + s \in I /\ Nth(h, i + s) = Nth(g, i) + d /\ Nth(g, i) \in Nat
    BY <1>11
  <2>2. c + Nth(h, i + s) = (c + d) + Nth(g, i)
    BY <1>6, <2>1
  <2>3. g[i] = h[i + s]
    BY <1>8
  <2> QED
    BY <1>5, <2>1, <2>2, <2>3
<1>15. \A i \in 1 .. Len(g) : g[i] = Summary <=> i = 1 /\ c + d > 0
  <2> SUFFICES ASSUME NEW i \in 1 .. l - n + 2, i # 1 PROVE g[i] # Summary
    BY <1>3, <1>12
  <2>1. i \in 2 .. l - n + 2 /\ n + i - 2 \in 1 .. l /\ n + i - 2 # 1
    BY <1>1, <1>2
  <2> QED
    BY <1>3, <1>5, <2>1
<1>16. g # <<>> /\ c + d # 0
  <2>1. Len(g) # 0
    BY <1>1, <1>2, <1>3
  <2> QED
    BY <1>6, <1>12, <2>1, EmptySeq
<1>17. InStep(g, t, c + d)
  BY <1>13, <1>14, <1>15, <1>16 DEF InStep, J
<1> QED
  BY <1>4, <1>6, <1>12, <1>17 DEF g

(* A table is in step with itself, and with what a connection makes of it. *)
LEMMA StepFromTable ==
    ASSUME NativeTools, NEW t \in Seq(Entry), \A r \in 1 .. Len(t) : Stored(t[r])
    PROVE  /\ InStep(t, t, 0)
           /\ \A c \in Nat : c > 0 /\ c < Len(t) =>
                 InStep(<<Summary>> \o SubSeq(t, c + 1, Len(t)), t, c)
<1> DEFINE l == Len(t)
<1>0. l \in Nat /\ t \in Seq(Item) /\ DOMAIN t = 1 .. l /\ \A r \in 1 .. l : t[r] # Summary
  <2>1. \A r \in 1 .. Len(t) : t[r] \in Entry
    BY ElementOfSeq
  <2> QED
    BY <2>1, LenProperties, ItemKinds DEF Item
<1>1. \A k \in 0 .. l : Cardinality({j \in 1 .. l : j <= k}) = k
  <2> SUFFICES ASSUME NEW k \in 0 .. l PROVE Cardinality({j \in 1 .. l : j <= k}) = k
    OBVIOUS
  <2>1. {j \in 1 .. l : j <= k} = 1 .. k /\ k \in Nat
    BY <1>0
  <2>2. Cardinality(1 .. k) = k
    BY <2>1, FS_Interval
  <2> QED
    BY <2>1, <2>2
<1>2. StoredIn(t) = 1 .. l
  BY DEF StoredIn
<1>3. InStep(t, t, 0)
  <2>1. 0 + Cardinality(StoredIn(t)) = l
    <3>1. {j \in 1 .. l : j <= l} = 1 .. l /\ l \in 0 .. l
      BY <1>0
    <3>2. Cardinality(1 .. l) = l
      BY <1>1, <3>1
    <3> QED
      BY <1>0, <1>2, <3>2
  <2>2. \A i \in StoredIn(t) : t[i] = t[0 + Nth(t, i)]
    <3> SUFFICES ASSUME NEW i \in 1 .. l PROVE 0 + Nth(t, i) = i
      BY <1>2
    <3>1. Nth(t, i) = i
      BY <1>0, <1>1, <1>2 DEF Nth
    <3> QED
      BY <1>0, <3>1
  <2>3. t # <<>> => 1 \in 1 .. l
    BY <1>0, EmptySeq
  <2> QED
    BY <1>0, <2>1, <2>2, <2>3 DEF InStep
<1>4. ASSUME NEW c \in Nat, c > 0, c < l
      PROVE  InStep(<<Summary>> \o SubSeq(t, c + 1, l), t, c)
  <2> DEFINE D == {i \in Items(t) : i < c + 1 /\ Stored(t[i])}
  <2>1. c + 1 \in 2 .. l /\ c \in 0 .. l
    BY <1>0, <1>4
  <2>2. D = {j \in 1 .. l : j <= c}
    BY <1>0 DEF Items
  <2>3. Cardinality(D) = c
    BY <1>1, <2>1, <2>2
  <2>4. InStep(<<Summary>> \o SubSeq(t, c + 1, l), t, 0 + Cardinality(D))
    BY <1>0, <1>3, <2>1, StepFolds
  <2>5. 0 + Cardinality(D) = c
    BY <2>3
  <2> QED
    BY <2>4, <2>5
<1> QED
  BY <1>3, <1>4

(* A history in step with a table is what a connection makes of the table, *)
(* tool traffic apart.                                                     *)
LEMMA StepSeen ==
    ASSUME NativeTools, NEW h \in Seq(Item), NEW t \in Seq(Entry), NEW C, C.count \in Nat,
           C.count = 0 \/ C.count < Len(t), InStep(h, t, C.count)
    PROVE  SeenAs(h, Seeded(t, C))
<1> DEFINE seen == {i \in DOMAIN h : h[i].role \notin {"calls", "results"}}
           made == Seeded(t, C)
           c == C.count
           I == StoredIn(h)
           l == Len(t)
           First == <<Summary>> \o SubSeq(t, c + 1, Len(t))
<1>1. /\ Len(h) \in Nat /\ I \in SUBSET (1 .. Len(h)) /\ Cardinality(I) \in Nat /\ IsFiniteSet(I)
      /\ \A i \in I : Nth(h, i) \in 1 .. Cardinality(I)
  BY StoredCount
<1>2. /\ c + Cardinality(I) = l /\ (\A i \in I : h[i] = t[c + Nth(h, i)])
      /\ \A i \in 1 .. Len(h) : h[i] = Summary <=> i = 1 /\ c > 0
      /\ h = <<>> => c = 0
  BY DEF InStep
<1>3. l \in Nat /\ t \in Seq(Item) /\ DOMAIN h = 1 .. Len(h)
  BY LenProperties DEF Item
<1>4. \A i : i \in seen <=> i \in I \/ (i \in 1 .. Len(h) /\ h[i] = Summary)
  <2> SUFFICES ASSUME NEW i \in 1 .. Len(h)
               PROVE  h[i].role \notin {"calls", "results"} <=> Stored(h[i]) \/ h[i] = Summary
    BY <1>3 DEF StoredIn
  <2>1. h[i] \in Item
    BY ElementOfSeq
  <2>2. h[i] = Summary \/ h[i].role \in {"user", "assistant", "part", "calls", "results"}
    BY <2>1 DEF Item, Entry
  <2>3. h[i] = Summary => h[i].role = "summary"
    BY ItemKinds
  <2>4. Stored(h[i]) <=> h[i].role \in {"user", "assistant", "part"}
    BY <2>1, ItemKinds
  <2> QED
    BY <2>2, <2>3, <2>4
<1> HIDE DEF seen, I, l
<1>5. CASE c = 0
  <2>1. seen = I
    <3>1. \A i \in 1 .. Len(h) : h[i] # Summary
      BY <1>2, <1>5
    <3> QED
      BY <1>4, <3>1
  <2>2. made = t
    BY <1>5 DEF Seeded
  <2>3. Cardinality(seen) = Len(made)
    BY <1>1, <1>2, <1>5, <2>1, <2>2 DEF l
  <2>4. \A i \in seen : h[i] = made[Cardinality({j \in seen : j <= i})]
    <3> SUFFICES ASSUME NEW i \in I PROVE h[i] = t[Cardinality({j \in I : j <= i})]
      BY <2>1, <2>2
    <3>1. c + Nth(h, i) = Nth(h, i) /\ Nth(h, i) = Cardinality({j \in I : j <= i})
      BY <1>1, <1>5 DEF Nth, I
    <3> QED
      BY <1>2, <3>1
  <2> QED
    BY <2>3, <2>4 DEF seen, SeenAs
<1>6. CASE c # 0
  <2>1. c > 0 /\ c < l /\ c + 1 \in 1 .. l + 1
    BY <1>3, <1>6 DEF l
  <2>2. made = First
    BY <2>1, <1>6 DEF Seeded, l
  <2>3. /\ Len(First) = l - c + 1 /\ First[1] = Summary
        /\ \A i \in 2 .. l - c + 1 : First[i] = t[c + i - 1]
    <3>1. /\ Len(First) = l - (c + 1) + 2 /\ First[1] = Summary
          /\ \A i \in 2 .. l - (c + 1) + 2 : First[i] = t[c + 1 + i - 2]
      BY <1>3, <2>1, SummaryThen DEF l
    <3> HIDE DEF First
    <3>2. l - (c + 1) + 2 = l - c + 1
      BY <1>3
    <3>3. ASSUME NEW i \in 2 .. l - c + 1 PROVE First[i] = t[c + i - 1]
      <4>1. i \in 2 .. l - (c + 1) + 2 /\ c + 1 + i - 2 = c + i - 1
        BY <1>3, <3>2
      <4> QED
        BY <3>1, <4>1
    <3> QED
      BY <3>1, <3>2, <3>3
  <2> HIDE DEF made, First
  <2>4. 1 \in 1 .. Len(h) /\ h[1] = Summary
    <3>1. 1 \in 1 .. Len(h)
      BY <1>1, <1>2, <1>6, EmptySeq
    <3> QED
      BY <1>2, <2>1, <3>1
  <2>5. seen = I \cup {1} /\ 1 \notin I
    <3>1. 1 \notin I
      BY <2>4, ItemKinds DEF I, StoredIn
    <3>2. \A i \in 1 .. Len(h) : h[i] = Summary <=> i = 1
      BY <1>2, <2>1
    <3> QED
      BY <1>4, <2>4, <3>1, <3>2
  <2>6. Cardinality(seen) = Cardinality(I) + 1
    BY <1>1, <2>5, FS_AddElement
  <2>7. \A i \in I : Cardinality({j \in seen : j <= i}) = Nth(h, i) + 1
    <3> SUFFICES ASSUME NEW i \in I PROVE Cardinality({j \in seen : j <= i}) = Nth(h, i) + 1
      OBVIOUS
    <3> DEFINE P == {j \in I : j <= i}
    <3>1. {j \in seen : j <= i} = P \cup {1} /\ 1 \notin P
      <4>1. 1 <= i
        BY <1>1
      <4> QED
        BY <2>5, <4>1
    <3>2. IsFiniteSet(P)
      <4>1. P \subseteq I
        OBVIOUS
      <4> QED
        BY <1>1, <4>1, FS_Subset
    <3>3. Cardinality(P \cup {1}) = Cardinality(P) + 1
      BY <3>1, <3>2, FS_AddElement
    <3> QED
      BY <3>1, <3>3 DEF Nth, I
  <2>8. Cardinality({j \in seen : j <= 1}) = 1
    <3>1. {j \in seen : j <= 1} = {1}
      <4>1. \A j \in I : ~(j <= 1)
        BY <1>1, <2>5
      <4> QED
        BY <2>5, <4>1
    <3> QED
      BY <3>1, FS_Singleton
  <2>9. Cardinality(seen) = Len(made)
    BY <1>1, <1>2, <1>3, <2>2, <2>3, <2>6
  <2>10. \A i \in seen : h[i] = made[Cardinality({j \in seen : j <= i})]
    <3>1. ASSUME NEW i \in I PROVE h[i] = First[Nth(h, i) + 1]
      <4>1. /\ c \in Nat /\ l \in Nat /\ Nth(h, i) \in 1 .. Cardinality(I)
            /\ Cardinality(I) \in Nat /\ c + Cardinality(I) = l
        BY <1>1, <1>2, <1>3
      <4>2. Nth(h, i) + 1 \in 2 .. l - c + 1 /\ c + (Nth(h, i) + 1) - 1 = c + Nth(h, i)
        BY ONLY <4>1
      <4> QED
        BY <1>2, <2>3, <4>2
    <3> QED
      BY <2>2, <2>3, <2>4, <2>5, <2>7, <2>8, <3>1
  <2> QED
    BY <2>9, <2>10 DEF seen, made, SeenAs
<1> QED
  BY <1>5, <1>6
-----------------------------------------------------------------------------
(* The rows of the turns so far are rows. *)
LEMMA FullIs == ASSUME HistInv PROVE FullRows \in Seq(Entry) /\ (~partial => FullRows = rows)
<1>1. rows \in Seq(Entry) /\ Len(rows) \in Nat /\ (rows = <<>> <=> Len(rows) = 0)
  BY InvSays, Both
<1>2. CASE partial
  <2>1. Len(rows) - 1 \in 0 .. Len(rows)
    BY <1>1, <1>2 DEF HistInv, RowsAsk
  <2>2. FullRows = SubSeq(rows, 1, Len(rows) - 1)
    BY <1>2 DEF FullRows, Front
  <2> QED
    BY <1>1, <1>2, <2>1, <2>2, FrontOf
<1>3. CASE ~partial
  BY <1>1, <1>3 DEF FullRows
<1> QED
  BY <1>2, <1>3

(* Nothing is trimmed where histories are compacted. *)
LEMMA TrimmedWhole == ASSUME mode = "compact", NEW h \in Seq(Item) PROVE Trimmed(h) = h
BY DEF Trimmed

(* At first there is no agent. *)
LEMMA SameStarts == HistInit => SameInv
BY DEF HistInit, SameInv

(* A connection makes its agent from the rows. *)
LEMMA SameConnect == ASSUME NativeTools, HistInv, Connect PROVE SameInv'
<1>0. /\ ~InTurn' /\ ~partial /\ stage = "off"
      /\ UNCHANGED <<mode, rows, saved, number, round, partial, turns, clean>>
  <2>1. stage = "off" /\ ~InTurn /\ ~InTurn'
    BY DEF Connect, InTurn
  <2> QED
    BY <2>1, InvSays DEF Connect
<1>1. /\ rows \in Seq(Entry) /\ saved.count \in Nat /\ Len(rows) \in Nat
      /\ (rows = <<>> <=> Len(rows) = 0)
  BY InvSays, Both
<1>2. \A r \in 1 .. Len(rows) : Stored(rows[r])
  BY DEF HistInv, HistShape, Stored
<1>3. /\ InStep(rows, rows, 0)
      /\ \A c \in Nat : c > 0 /\ c < Len(rows) =>
            InStep(<<Summary>> \o SubSeq(rows, c + 1, Len(rows)), rows, c)
  BY <1>1, <1>2, StepFromTable
<1>4. FullRows' = rows
  BY <1>0 DEF FullRows
<1>5. InStep(history', rows, folded'.count) /\ saved.count = folded'.count
  <2>1. CASE rows = <<>>
    <3>1. history' = rows /\ folded'.count = 0 /\ saved.count = 0
      BY <2>1 DEF Connect, NoCompaction, HistInv, RowsAsk
    <3> QED
      BY <1>3, <3>1
  <2>2. CASE rows # <<>> /\ saved.count = 0
    <3>1. history' = rows /\ folded'.count = 0
      BY <2>2 DEF Connect, Seeded
    <3> QED
      BY <1>3, <2>2, <3>1
  <2>3. CASE rows # <<>> /\ saved.count # 0
    <3>1. saved.count < Len(rows) /\ saved.count > 0
      <4>1. PICK q \in 1 .. Len(rows) : saved.count < q
        BY <2>3 DEF HistInv, RowsAsk
      <4> QED
        BY <1>1, <2>3, <4>1
    <3>2. history' = <<Summary>> \o SubSeq(rows, saved.count + 1, Len(rows)) /\ folded' = saved
      BY <2>3, <3>1 DEF Connect, Seeded
    <3> QED
      BY <1>1, <1>3, <3>1, <3>2
  <2> QED
    BY <2>1, <2>2, <2>3
<1> QED
  BY <1>0, <1>4, <1>5 DEF SameInv

(* A question and its row. *)
LEMMA SameAsk == ASSUME NativeTools, HistInv, SameInv, Ask PROVE SameInv'
<1> DEFINE e == Message("user", turns + 1)
<1>0. /\ ~InTurn /\ InTurn' /\ stage = "idle" /\ turns < MaxTurns
      /\ history' = Append(history, e) /\ rows' = Append(rows, e)
      /\ UNCHANGED <<mode, folded, saved, round, partial, clean>>
  BY DEF Ask, Begin, InTurn, Message
<1>1. /\ ~partial /\ folded.count \in Nat /\ saved.count \in Nat /\ turns \in Nat /\ MaxTurns \in Nat
      /\ history \in Seq(Item) /\ rows \in Seq(Entry)
  BY <1>0, InvSays, Both
<1>2. e \in Entry /\ Stored(e)
  <2>1. turns + 1 \in 1 .. MaxTurns
    BY <1>0, <1>1
  <2> QED
    BY <2>1 DEF Entry, Message, Stored
<1>3. FullRows = rows /\ FullRows' = Append(rows, e)
  BY <1>0, <1>1 DEF FullRows
<1> HIDE DEF e
<1> SUFFICES ASSUME clean, mode = "compact"
             PROVE  InStep(history', FullRows', folded.count) /\ (folded.count = 0 => saved.count = 0)
  BY <1>0 DEF SameInv
<1>4. InStep(history, rows, folded.count) /\ saved.count = folded.count
  BY <1>0, <1>3 DEF SameInv
<1>5. InStep(Append(history, e), Append(rows, e), folded.count)
  BY <1>1, <1>2, <1>4, StepMore
<1> QED
  BY <1>0, <1>3, <1>4, <1>5

(* The last question again: both are cut behind it. *)
LEMMA SameRegenerate == ASSUME NativeTools, HistInv, SameInv, Regenerate PROVE SameInv'
<1>0. /\ ~InTurn /\ InTurn' /\ stage = "idle"
      /\ UNCHANGED <<mode, folded, saved, round, partial, clean>>
  BY DEF Regenerate, Begin, InTurn
<1>1. /\ ~partial /\ folded.count \in Nat /\ saved.count \in Nat
      /\ history \in Seq(Item) /\ rows \in Seq(Entry)
  BY <1>0, InvSays, Both
<1>2. FullRows = rows /\ FullRows' = rows'
  BY <1>0, <1>1 DEF FullRows
<1>3. PICK q \in 1 .. Len(history), t \in 1 .. Len(rows) :
         /\ history[q].role = "user"
         /\ \A x \in q + 1 .. Len(history) : history[x].role \notin {"user", "summary"}
         /\ rows[t].role = "user" /\ \A r \in 1 .. Len(rows) : rows[r].role = "user" => r <= t
         /\ saved.count < t
         /\ history' = SubSeq(history, 1, q) /\ rows' = SubSeq(rows, 1, t)
  BY RegenerateIs
<1> SUFFICES ASSUME clean, mode = "compact"
             PROVE  InStep(history', rows', folded.count) /\ (folded.count = 0 => saved.count = 0)
  BY <1>0, <1>2 DEF SameInv
<1>4. InStep(history, rows, folded.count) /\ saved.count = folded.count
  BY <1>0, <1>2 DEF SameInv
<1>5. folded.count < t /\ \A k \in q + 1 .. Len(history) : history[k].role # "user"
  BY <1>3, <1>4
<1>6. InStep(SubSeq(history, 1, q), SubSeq(rows, 1, t), folded.count)
  BY <1>1, <1>3, <1>4, <1>5, StepCut
<1> QED
  BY <1>3, <1>4, <1>6

(* A compaction during the turn. *)
LEMMA SameCompact == ASSUME NativeTools, HistInv, SameInv, Compact PROVE SameInv'
<1>0. /\ InTurn /\ InTurn' /\ mode = "compact" /\ stage # "off"
      /\ UNCHANGED <<mode, rows, saved, number, round, partial, turns, clean>>
  BY DEF Compact, InTurn
<1>1. /\ folded.count \in Nat /\ history \in Seq(Item) /\ FullRows \in Seq(Entry)
      /\ Len(history) \in Nat
  BY InvSays, Both, FullIs
<1>2. FullRows' = FullRows
  BY <1>0 DEF FullRows
<1>3. PICK n \in Boundaries(history) :
         /\ folded' = FoldedTo(history, n)
         /\ history' = <<Summary>> \o SubSeq(history, n, Len(history))
  BY DEF Compact
<1>4. n \in 2 .. Len(history)
  <2>1. n \in 1 .. Len(history) /\ n # Min(Items(history)) /\ history[n].role = "user"
    BY <1>1, <1>3, BoundaryIs DEF Boundaries
  <2>2. history[n] # Summary /\ DOMAIN history = 1 .. Len(history)
    BY <1>1, <2>1, ItemKinds, LenProperties
  <2>3. n \in Items(history) /\ Items(history) \in SUBSET (1 .. Len(history))
    BY <2>1, <2>2 DEF Items
  <2>4. Min(Items(history)) \in Items(history) /\ \A k \in Items(history) : Min(Items(history)) <= k
    BY <1>1, <2>3, MinOf
  <2>5. Min(Items(history)) \in 1 .. Len(history) /\ Min(Items(history)) <= n
    BY <2>3, <2>4
  <2> QED
    BY <1>1, <2>1, <2>5
<1> DEFINE d == Cardinality({i \in Items(history) : i < n /\ Stored(history[i])})
<1>5. folded'.count = folded.count + d
  BY <1>3 DEF FoldedTo
<1> HIDE DEF d
<1> SUFFICES ASSUME clean
             PROVE  InStep(history', FullRows, folded'.count) /\ folded'.count # 0
  BY <1>0, <1>2 DEF SameInv
<1>6. InStep(history, FullRows, folded.count)
  BY <1>0 DEF SameInv
<1>7. /\ d \in Nat /\ folded.count + d > 0
      /\ InStep(<<Summary>> \o SubSeq(history, n, Len(history)), FullRows, folded.count + d)
  BY <1>1, <1>4, <1>6, StepFolds DEF d
<1> QED
  BY <1>1, <1>3, <1>5, <1>7

(* Tool calls and their results are no rows. *)
LEMMA SameCallTools == ASSUME NativeTools, HistInv, SameInv, CallTools PROVE SameInv'
<1> DEFINE a == Message("calls", number)
           b == Message("results", number)
           g == history \o <<a, b>>
<1>0. /\ InTurn /\ InTurn' /\ stage # "off" /\ history' = Trimmed(g)
      /\ UNCHANGED <<mode, folded, rows, saved, number, partial, turns, clean>>
  BY DEF CallTools, InTurn
<1>1. /\ history \in Seq(Item) /\ Len(history) \in Nat /\ number \in 1 .. MaxTurns
      /\ history # <<>>
  BY <1>0, InvSays, Both
<1>2. /\ a \in Item /\ a.role = "calls" /\ ~Stored(a) /\ a # Summary
      /\ b \in Item /\ b.role = "results" /\ ~Stored(b) /\ b # Summary
  <2>1. a \in Item /\ a.role = "calls" /\ b \in Item /\ b.role = "results"
    BY <1>1 DEF Entry, Item, Message
  <2> HIDE DEF a, b
  <2> QED
    BY <2>1, ItemKinds
<1>3. FullRows' = FullRows
  BY <1>0 DEF FullRows
<1> HIDE DEF a, b
<1>4. /\ g \in Seq(Item) /\ Len(g) = Len(history) + 2
      /\ \A i \in 1 .. Len(history) : g[i] = history[i]
      /\ g[Len(history) + 1] = a /\ g[Len(history) + 2] = b
  BY <1>1, <1>2, TwoMore
<1> HIDE DEF g
<1> SUFFICES ASSUME clean, mode = "compact"
             PROVE  InStep(history', FullRows, folded.count) /\ (folded.count = 0 => saved.count = 0)
  BY <1>0, <1>3 DEF SameInv
<1>5. InStep(history, FullRows, folded.count) /\ (folded.count = 0 => saved.count = 0)
  BY <1>0 DEF SameInv
<1>6. history' = g
  BY <1>0, <1>4, TrimmedWhole
<1>7. \A i \in 1 .. Len(g) : i > Len(history) => ~Stored(g[i]) /\ g[i] # Summary
  <2>1. \A i \in 1 .. Len(history) + 2 :
           i > Len(history) => i = Len(history) + 1 \/ i = Len(history) + 2
    BY <1>1
  <2> QED
    BY <1>2, <1>4, <2>1
<1>8. Len(history) <= Len(g)
  BY <1>1, <1>4
<1>9. InStep(g, FullRows, folded.count)
  BY <1>1, <1>4, <1>5, <1>7, <1>8, StepSame
<1> QED
  BY <1>5, <1>6, <1>9

(* What is saved of an answer. *)
LEMMA SameSavePartial == ASSUME NativeTools, HistInv, SameInv, SavePartial PROVE SameInv'
<1> DEFINE p == Message("part", number)
<1>0. /\ InTurn /\ InTurn' /\ stage # "off" /\ ~partial /\ partial'
      /\ rows' = Append(rows, p)
      /\ UNCHANGED <<mode, history, folded, saved, stage, number, round, turns, clean>>
  BY DEF SavePartial, InTurn
<1>1. rows \in Seq(Entry) /\ number \in 1 .. MaxTurns /\ Len(rows) \in Nat
  BY <1>0, InvSays, Both
<1>2. p \in Entry
  BY <1>1 DEF Entry, Message
<1> HIDE DEF p
<1>3. /\ rows' \in Seq(Entry) /\ Len(rows') = Len(rows) + 1
      /\ \A r \in 1 .. Len(rows) : rows'[r] = rows[r]
  BY <1>0, <1>1, <1>2, AppendProperties
<1>4. FullRows = rows /\ FullRows' = SubSeq(rows', 1, Len(rows') - 1)
  BY <1>0 DEF FullRows, Front
<1>5. SubSeq(rows', 1, Len(rows)) = rows
  <2>1. Len(rows) \in 0 .. Len(rows')
    BY <1>1, <1>3
  <2>2. /\ SubSeq(rows', 1, Len(rows)) \in Seq(Entry) /\ Len(SubSeq(rows', 1, Len(rows))) = Len(rows)
        /\ \A r \in 1 .. Len(rows) : SubSeq(rows', 1, Len(rows))[r] = rows'[r]
    BY <1>3, <2>1, FrontOf
  <2> HIDE DEF HistInv
  <2>3. \A r \in 1 .. Len(rows) : SubSeq(rows', 1, Len(rows))[r] = rows[r]
    BY <1>3, <2>2
  <2> QED
    BY <1>1, <2>2, <2>3, SeqEqual
<1>6. FullRows' = FullRows
  <2>1. Len(rows') - 1 = Len(rows)
    BY <1>1, <1>3
  <2> QED
    BY <1>4, <1>5, <2>1
<1> QED
  BY <1>0, <1>6 DEF SameInv

(* The answer and its row, and the compaction of the turn. *)
LEMMA SameAnswer == ASSUME NativeTools, HistInv, SameInv, Answer PROVE SameInv'
<1> DEFINE a == Message("assistant", number)
<1>0. /\ InTurn /\ ~InTurn' /\ stage # "off" /\ ~partial'
      /\ history' = Trimmed(Append(history, a)) /\ rows' = Append(FullRows, a)
      /\ saved' = IF folded.count = 0 THEN saved ELSE folded
      /\ UNCHANGED <<mode, folded, clean>>
  BY DEF Answer, Over, InTurn, WithAnswer, FullRows
<1>1. /\ history \in Seq(Item) /\ FullRows \in Seq(Entry) /\ number \in 1 .. MaxTurns
      /\ folded.count \in Nat
  BY <1>0, InvSays, Both, FullIs
<1>2. a \in Entry /\ a \in Item /\ Stored(a)
  BY <1>1 DEF Entry, Item, Message, Stored
<1>3. FullRows' = Append(FullRows, a)
  BY <1>0 DEF FullRows
<1> HIDE DEF a
<1> SUFFICES ASSUME clean, mode = "compact"
             PROVE  InStep(history', FullRows', folded.count) /\ saved'.count = folded.count
  BY <1>0 DEF SameInv
<1>4. InStep(history, FullRows, folded.count) /\ (folded.count = 0 => saved.count = 0)
  BY <1>0 DEF SameInv
<1>5. InStep(Append(history, a), Append(FullRows, a), folded.count)
  BY <1>1, <1>2, <1>4, StepMore
<1>6. history' = Append(history, a)
  <2>1. Append(history, a) \in Seq(Item)
    BY <1>1, <1>2, AppendProperties
  <2> QED
    BY <1>0, <2>1, TrimmedWhole
<1>7. saved'.count = folded.count
  BY <1>0, <1>4
<1> QED
  BY <1>3, <1>5, <1>6, <1>7

(* Every step. *)
LEMMA SameSteps == ASSUME NativeTools, HistInv, SameInv, [HistNext]_histVars PROVE SameInv'
<1>1. CASE Connect
  BY <1>1, SameConnect
<1>2. CASE Gone
  BY <1>2 DEF Gone, SameInv
<1>3. CASE Ask
  BY <1>3, SameAsk
<1>4. CASE Regenerate
  BY <1>4, SameRegenerate
<1>5. CASE Compact
  BY <1>5, SameCompact
<1>6. CASE NoCompact
  BY <1>6 DEF NoCompact, SameInv, FullRows, InTurn
<1>7. CASE CallTools
  BY <1>7, SameCallTools
<1>8. CASE SavePartial
  BY <1>8, SameSavePartial
<1>9. CASE Answer
  BY <1>9, SameAnswer
<1>10. CASE Cancelled
  BY <1>10 DEF Cancelled, SameInv
<1>11. CASE Failed
  BY <1>11 DEF Failed, SameInv
<1>12. CASE UNCHANGED histVars
  BY <1>12 DEF histVars, SameInv, FullRows, InTurn
<1> QED
  BY <1>1, <1>2, <1>3, <1>4, <1>5, <1>6, <1>7, <1>8, <1>9, <1>10, <1>11, <1>12 DEF HistNext

(* A reconnect makes what the agent has, tool traffic apart, as long as    *)
(* all turns ended well: the count that a compaction stores is exactly     *)
(* that of the rows its summary stands for.                                *)
THEOREM ReconnectSeesTheSame == ASSUME NativeTools PROVE HistSpec => []SameView
<1>1. HistSpec => []HistInv
  BY HistHolds
<1>2. HistInit => SameInv
  BY SameStarts
<1>3. HistInv /\ SameInv /\ [HistNext]_histVars => SameInv'
  BY SameSteps
<1>4. HistInv /\ SameInv => SameView
  <2> SUFFICES ASSUME HistInv, SameInv, clean, stage = "idle", mode = "compact" PROVE SameView
    BY DEF SameView
  <2>1. ~InTurn
    BY DEF InTurn
  <2>2. ~partial /\ saved.count \in Nat /\ history \in Seq(Item) /\ rows \in Seq(Entry)
    BY <2>1, InvSays, Both
  <2>3. InStep(history, rows, saved.count)
    BY <2>1, <2>2 DEF SameInv, FullRows
  <2>4. saved.count = 0 \/ saved.count < Len(rows)
    <3>1. CASE rows = <<>>
      BY <3>1 DEF HistInv, RowsAsk
    <3>2. CASE rows # <<>>
      <4>1. PICK q \in 1 .. Len(rows) : saved.count < q
        BY <3>2 DEF HistInv, RowsAsk
      <4>2. Len(rows) \in Nat
        BY <2>2, LenProperties
      <4> QED
        BY <2>2, <4>1, <4>2
    <3> QED
      BY <3>1, <3>2
  <2>5. SeenAs(history, Seeded(rows, saved))
    BY <2>2, <2>3, <2>4, StepSeen
  <2> QED
    BY <2>5 DEF SeenAs, SameView
<1> QED
  BY <1>1, <1>2, <1>3, <1>4, PTL DEF HistSpec

-----------------------------------------------------------------------------
(***************************************************************************)
(* One request over any chain of models and providers, with any number of  *)
(* attempts and any windows.  The invariant says that what is left of the  *)
(* request is an end of it, and the whole until it is truncated            *)
(* (EndKept, Whole); that the pairs before the current one are done with   *)
(* and those after it untouched (Progress); and that the failures written  *)
(* down and the failed attempts are the same, rank by rank (ErrorTells).   *)
(***************************************************************************)

Whole == DOMAIN request
Try == [pair : Pairs, sent : SUBSET Whole, end : Ends]
Failure == Pairs \X (Ends \cup {"no images"})

CallShape == CallTypeOK /\ tried \in Seq(Try)

(* s has the system messages and an end of the conversation, half of it at *)
(* least, or all with images.                                              *)
EndKept(s) ==
    /\ \A i \in Whole : request[i] = "system" => i \in s
    /\ \A i \in Talk(s) : i .. Len(request) \subseteq s
    /\ 2 * Cardinality(Talk(s)) >= Cardinality(Talk(Whole))
    /\ images => s = Whole

Ended ==
    /\ ~truncated => sent = Whole
    /\ EndKept(sent)
    /\ \A n \in DOMAIN tried : EndKept(tried[n].sent)

(* By the attempts t and the failures f a pair is done with: asked as      *)
(* often as may be, or failed for good, or listed as unable.               *)
At(t, p) == {n \in DOMAIN t : t[n].pair = p}

DoneWith(t, f, p) ==
    \/ Cardinality(At(t, p)) = MaxRetries + 1
    \/ At(t, p) # {} /\ t[Max(At(t, p))].end = "permanent"
    \/ \E n \in DOMAIN f : f[n] = <<p, "no images">>

Before(p, q) == p[1] < q[1] \/ (p[1] = q[1] /\ p[2] < q[2])

Progress ==
    /\ \A p \in Pairs : Before(p, pair) => DoneWith(tried, failures, p)
    /\ \A p \in Pairs : Before(pair, p) => At(tried, p) = {}
    /\ reply \in {"stream", "none"} => Cardinality(At(tried, pair)) = attempt
    /\ reply = "failed" => LastPair /\ DoneWith(tried, failures, pair)

(* What f says of attempts, the refusals among the attempts t, and those   *)
(* that f should tell of, with a truncation or without.                    *)
Says(f) == {n \in DOMAIN f : f[n] \notin Blind}
Refusals(t) == {n \in DOMAIN t : t[n].end = "context"}
Owed(t, cut) ==
    {n \in DOMAIN t : t[n].end # "ok"} \
        (IF cut THEN {n \in Refusals(t) : \A m \in Refusals(t) : n <= m} ELSE {})

Alike(f, t, cut) ==
    /\ Cardinality(Says(f)) = Cardinality(Owed(t, cut))
    /\ \A n \in Says(f), m \in Owed(t, cut) :
          Rank(Says(f), n) = Rank(Owed(t, cut), m) => f[n] = <<t[m].pair, t[m].end>>

ErrorTells ==
    /\ ~truncated /\ reply # "too long" => Refusals(tried) = {}
    /\ truncated => Refusals(tried) # {}
    /\ Alike(failures, tried, truncated)

CallInv == CallShape /\ Ended /\ Progress /\ ErrorTells

-----------------------------------------------------------------------------
(* Places, and lists that grow. *)

(* A place behind all others of a set has the next rank and changes none.  *)
LEMMA NextRank ==
    ASSUME NEW n \in Nat, NEW I \in SUBSET (1 .. n)
    PROVE  /\ Cardinality(I) \in Nat
           /\ Cardinality(I \cup {n + 1}) = Cardinality(I) + 1
           /\ Rank(I \cup {n + 1}, n + 1) = Cardinality(I) + 1
           /\ \A i \in I : /\ Rank(I \cup {n + 1}, i) = Rank(I, i)
                           /\ Rank(I, i) \in 0 .. Cardinality(I)
<1>1. ASSUME NEW i \in I PROVE Cardinality({j \in I : j <= i}) \in 0 .. Cardinality(I)
  <2>1. i \in Nat
    OBVIOUS
  <2> QED
    BY <2>1, RankType
<1>2. /\ Cardinality(I) \in Nat
      /\ Cardinality(I \cup {n + 1}) = Cardinality(I) + 1
      /\ Cardinality({j \in I \cup {n + 1} : j <= n + 1}) = Cardinality(I) + 1
      /\ \A i \in I : {j \in I \cup {n + 1} : j <= i} = {j \in I : j <= i}
  BY PlaceMore
<1>3. ASSUME NEW i \in I
      PROVE  Rank(I \cup {n + 1}, i) = Rank(I, i) /\ Rank(I, i) \in 0 .. Cardinality(I)
  BY <1>1, <1>2 DEF Rank
<1>4. Rank(I \cup {n + 1}, n + 1) = Cardinality(I) + 1
  BY <1>2 DEF Rank
<1> QED
  BY <1>2, <1>3, <1>4

(* Two sets of places have the same size, and what f has at the one g has  *)
(* at the place of the same rank in the other.                             *)
RankByRank(I, f, K, g) ==
    /\ Cardinality(I) = Cardinality(K)
    /\ \A i \in I, k \in K : Rank(I, i) = Rank(K, k) => f[i] = g[k]

(* This stays so when both get one place more at their ends.               *)
LEMMA RanksAgree ==
    ASSUME NEW n \in Nat, NEW I \in SUBSET (1 .. n), NEW m \in Nat, NEW K \in SUBSET (1 .. m),
           NEW f, NEW g, RankByRank(I, f, K, g), f[n + 1] = g[m + 1]
    PROVE  RankByRank(I \cup {n + 1}, f, K \cup {m + 1}, g)
<1> DEFINE I1 == I \cup {n + 1}
           K1 == K \cup {m + 1}
<1>1. /\ Cardinality(I) \in Nat
      /\ Cardinality(I1) = Cardinality(I) + 1 /\ Rank(I1, n + 1) = Cardinality(I) + 1
      /\ \A i \in I : Rank(I1, i) = Rank(I, i) /\ Rank(I, i) \in 0 .. Cardinality(I)
  BY NextRank
<1>2. /\ Cardinality(K) \in Nat
      /\ Cardinality(K1) = Cardinality(K) + 1 /\ Rank(K1, m + 1) = Cardinality(K) + 1
      /\ \A k \in K : Rank(K1, k) = Rank(K, k) /\ Rank(K, k) \in 0 .. Cardinality(K)
  BY NextRank
<1>3. ASSUME NEW i \in I1, NEW k \in K1, Rank(I1, i) = Rank(K1, k) PROVE f[i] = g[k]
  <2>1. CASE i \in I /\ k \in K
    BY <1>1, <1>2, <1>3, <2>1 DEF RankByRank
  <2>2. CASE i = n + 1 /\ k \in K
    <3>1. Rank(K1, k) \in 0 .. Cardinality(K) /\ Rank(I1, i) = Cardinality(K) + 1
      BY <1>1, <1>2, <2>2 DEF RankByRank
    <3> QED
      BY <1>2, <1>3, <3>1
  <2>3. CASE i \in I /\ k = m + 1
    <3>1. Rank(I1, i) \in 0 .. Cardinality(I) /\ Rank(K1, k) = Cardinality(I) + 1
      BY <1>1, <1>2, <2>3 DEF RankByRank
    <3> QED
      BY <1>1, <1>3, <3>1
  <2>4. CASE i = n + 1 /\ k = m + 1
    BY <2>4
  <2> QED
    BY <2>1, <2>2, <2>3, <2>4
<1>4. Cardinality(I1) = Cardinality(K1)
  BY <1>1, <1>2 DEF RankByRank
<1> QED
  BY <1>3, <1>4 DEF RankByRank

(* The later half of a set of places. *)
LEMMA LaterHalf ==
    ASSUME NEW n \in Nat, NEW I \in SUBSET (1 .. n), Cardinality(I) > 1
    PROVE  LET d == Cardinality(I) \div 2
               K == {i \in I : Rank(I, i) > d}
           IN /\ 2 * Cardinality(K) >= Cardinality(I)
              /\ \A i \in K : \A j \in I : i <= j => j \in K
<1> DEFINE c == Cardinality(I)
           d == c \div 2
           K == {i \in I : Rank(I, i) > d}
<1>1. IsFiniteSet(I) /\ c \in Nat /\ \A i \in I : i \in Nat
  BY PlacesFinite
<1>2. d \in 1 .. c /\ 2 * d <= c
  BY <1>1
<1> HIDE DEF c, d
<1>3. \A i, j \in I : i < j => Rank(I, i) < Rank(I, j)
  BY RankGrows DEF Rank
<1>4. \A i \in I : Rank(I, i) \in Nat
  <2> SUFFICES ASSUME NEW i \in I PROVE Rank(I, i) \in Nat
    OBVIOUS
  <2>1. Rank(I, i) \in 0 .. Cardinality(I)
    BY <1>1, RankType DEF Rank
  <2> QED
    BY <1>1, <2>1 DEF c
<1>5. PICK m \in I : Rank(I, m) = d
  BY <1>2, RankOnto DEF c, Rank
<1> DEFINE L == {j \in I : j <= m}
<1>6. K = I \ L
  <2>1. ASSUME NEW i \in I PROVE Rank(I, i) > d <=> ~(i <= m)
    <3>1. i = m => Rank(I, i) = d
      BY <1>5
    <3>2. i < m => Rank(I, i) < d
      BY <1>3, <1>5
    <3>3. i > m => Rank(I, i) > d
      <4>1. m < i => d < Rank(I, i)
        BY <1>3, <1>5
      <4> QED
        BY <1>1, <1>2, <1>4, <4>1
    <3> QED
      BY <1>1, <1>2, <1>4, <3>1, <3>2, <3>3
  <2> QED
    BY <2>1
<1>7. Cardinality(L) = d
  BY <1>5 DEF Rank
<1>8. Cardinality(K) = c - d
  <2>1. L \in SUBSET I
    OBVIOUS
  <2>2. IsFiniteSet(L) /\ I \cap L = L
    BY <1>1, <2>1, FS_Subset
  <2>3. Cardinality(I \ L) = Cardinality(I) - Cardinality(I \cap L)
    BY <1>1, FS_Difference
  <2> QED
    BY <1>6, <1>7, <2>2, <2>3 DEF c
<1>9. 2 * Cardinality(K) >= c
  BY <1>1, <1>2, <1>8
<1>10. ASSUME NEW i \in K, NEW j \in I, i <= j PROVE j \in K
  <2>1. i = j \/ Rank(I, i) < Rank(I, j)
    BY <1>1, <1>3, <1>10
  <2> QED
    BY <1>2, <1>4, <1>10, <2>1
<1> QED
  BY <1>9, <1>10 DEF c, d

(* What one attempt more changes in the lists. *)
LEMMA TryMore ==
    ASSUME NEW t \in Seq(Try), NEW r \in Try
    PROVE  LET n == Len(t)
               t2 == Append(t, r)
           IN /\ n \in Nat /\ t2 \in Seq(Try) /\ DOMAIN t = 1 .. n /\ DOMAIN t2 = 1 .. n + 1
              /\ \A k \in 1 .. n : t2[k] = t[k]
              /\ t2[n + 1] = r
              /\ \A p : At(t, p) \in SUBSET (1 .. n)
              /\ \A p : At(t2, p) = IF p = r.pair THEN At(t, p) \cup {n + 1} ELSE At(t, p)
              /\ Refusals(t2) = IF r.end = "context" THEN Refusals(t) \cup {n + 1} ELSE Refusals(t)
<1> DEFINE n == Len(t)
           t2 == Append(t, r)
<1>1. /\ n \in Nat /\ t2 \in Seq(Try) /\ DOMAIN t = 1 .. n /\ Len(t2) = n + 1
      /\ \A k \in 1 .. n : t2[k] = t[k]
      /\ t2[n + 1] = r
  BY LenProperties, AppendProperties
<1>2. DOMAIN t2 = 1 .. n + 1
  BY <1>1, LenProperties
<1>3. \A k : k \in 1 .. n + 1 <=> k \in 1 .. n \/ k = n + 1
  BY <1>1
<1> HIDE DEF n, t2
<1>4. \A p : At(t2, p) = IF p = r.pair THEN At(t, p) \cup {n + 1} ELSE At(t, p)
  BY <1>1, <1>2, <1>3 DEF At
<1>5. Refusals(t2) = IF r.end = "context" THEN Refusals(t) \cup {n + 1} ELSE Refusals(t)
  BY <1>1, <1>2, <1>3 DEF Refusals
<1>6. \A p : At(t, p) \in SUBSET (1 .. n)
  BY <1>1 DEF At
<1> QED
  BY <1>1, <1>2, <1>4, <1>5, <1>6 DEF n, t2

(* What is owed with an attempt more: it, too, unless it was answered or   *)
(* is the refusal that messages are dropped for.                           *)
LEMMA OwedMore ==
    ASSUME NEW t \in Seq(Try), NEW r \in Try
    PROVE  LET n == Len(t)
               t2 == Append(t, r)
           IN /\ \A cut \in BOOLEAN : Owed(t, cut) \in SUBSET (1 .. n)
              /\ \A cut \in BOOLEAN : (cut => Refusals(t) # {}) =>
                    Owed(t2, cut) = IF r.end = "ok" THEN Owed(t, cut) ELSE Owed(t, cut) \cup {n + 1}
              /\ Refusals(t) = {} /\ r.end = "context" => Owed(t2, TRUE) = Owed(t, FALSE)
<1> DEFINE n == Len(t)
           t2 == Append(t, r)
           Lost(x) == {k \in DOMAIN x : x[k].end # "ok"}
           First(x) == {k \in Refusals(x) : \A m \in Refusals(x) : k <= m}
<1>1. /\ n \in Nat /\ DOMAIN t = 1 .. n /\ DOMAIN t2 = 1 .. n + 1
      /\ \A k \in 1 .. n : t2[k] = t[k]
      /\ t2[n + 1] = r
      /\ Refusals(t2) = IF r.end = "context" THEN Refusals(t) \cup {n + 1} ELSE Refusals(t)
  BY TryMore
<1> HIDE DEF n, t2
<1>2. \A k : k \in 1 .. n + 1 <=> k \in 1 .. n \/ k = n + 1
  BY <1>1
<1>3. Lost(t2) = IF r.end = "ok" THEN Lost(t) ELSE Lost(t) \cup {n + 1}
  BY <1>1, <1>2
<1>4. Refusals(t) \subseteq 1 .. n /\ Lost(t) \subseteq 1 .. n
  BY <1>1 DEF Refusals
<1>5. n + 1 \notin 1 .. n /\ \A k \in 1 .. n : k <= n + 1 /\ ~(n + 1 <= k)
  BY <1>1
<1>6. Refusals(t) # {} => First(t2) = First(t)
  <2> SUFFICES ASSUME Refusals(t) # {} PROVE First(t2) = First(t)
    OBVIOUS
  <2>1. CASE r.end = "context"
    <3>1. PICK o : o \in Refusals(t)
      OBVIOUS
    <3>2. ~(n + 1 <= o) /\ o \in Refusals(t2)
      BY <1>1, <1>4, <1>5, <2>1, <3>1
    <3>3. n + 1 \notin First(t2)
      BY <3>2
    <3>4. \A k \in Refusals(t) : k <= n + 1
      BY <1>4, <1>5
    <3> QED
      BY <1>1, <2>1, <3>3, <3>4
  <2>2. CASE r.end # "context"
    BY <1>1, <2>2
  <2> QED
    BY <2>1, <2>2
<1>7. ASSUME NEW cut \in BOOLEAN, cut => Refusals(t) # {}
      PROVE  Owed(t2, cut) = IF r.end = "ok" THEN Owed(t, cut) ELSE Owed(t, cut) \cup {n + 1}
  <2>1. Owed(t, cut) = Lost(t) \ (IF cut THEN First(t) ELSE {})
    BY DEF Owed
  <2>2. Owed(t2, cut) = Lost(t2) \ (IF cut THEN First(t) ELSE {})
    BY <1>6, <1>7 DEF Owed
  <2>3. n + 1 \notin First(t)
    BY <1>4, <1>5
  <2> QED
    BY <1>3, <2>1, <2>2, <2>3
<1>8. ASSUME Refusals(t) = {}, r.end = "context" PROVE Owed(t2, TRUE) = Owed(t, FALSE)
  <2>1. Refusals(t2) = {n + 1} /\ n + 1 <= n + 1
    BY <1>1, <1>8
  <2>2. First(t2) = {n + 1}
    BY <2>1
  <2>3. Owed(t2, TRUE) = Lost(t2) \ {n + 1} /\ Owed(t, FALSE) = Lost(t)
    BY <2>2 DEF Owed
  <2>4. r.end # "ok" /\ n + 1 \notin Lost(t)
    BY <1>4, <1>5, <1>8
  <2> QED
    BY <1>3, <2>3, <2>4
<1>9. \A cut \in BOOLEAN : Owed(t, cut) \in SUBSET (1 .. n)
  BY <1>4 DEF Owed
<1> QED
  BY <1>7, <1>8, <1>9 DEF n, t2

(* What the failures say with one more. *)
LEMMA SaysMore ==
    ASSUME NEW f \in Seq(Failure), NEW x \in Failure
    PROVE  LET n == Len(f)
               f2 == Append(f, x)
           IN /\ n \in Nat /\ f2 \in Seq(Failure) /\ DOMAIN f = 1 .. n /\ DOMAIN f2 = 1 .. n + 1
              /\ \A k \in 1 .. n : f2[k] = f[k]
              /\ f2[n + 1] = x
              /\ Says(f) \in SUBSET (1 .. n)
              /\ Says(f2) = IF x \in Blind THEN Says(f) ELSE Says(f) \cup {n + 1}
<1> DEFINE n == Len(f)
           f2 == Append(f, x)
<1>1. /\ n \in Nat /\ f2 \in Seq(Failure) /\ DOMAIN f = 1 .. n /\ Len(f2) = n + 1
      /\ \A k \in 1 .. n : f2[k] = f[k]
      /\ f2[n + 1] = x
  BY LenProperties, AppendProperties
<1>2. DOMAIN f2 = 1 .. n + 1
  BY <1>1, LenProperties
<1>3. \A k : k \in 1 .. n + 1 <=> k \in 1 .. n \/ k = n + 1
  BY <1>1
<1> HIDE DEF n, f2
<1>4. Says(f2) = IF x \in Blind THEN Says(f) ELSE Says(f) \cup {n + 1}
  BY <1>1, <1>2, <1>3 DEF Says
<1>5. Says(f) \in SUBSET (1 .. n)
  BY <1>1 DEF Says
<1> QED
  BY <1>1, <1>2, <1>4, <1>5 DEF n, f2

(* A failed attempt that is written down keeps the two lists alike.        *)
LEMMA AlikeMore ==
    ASSUME NEW f \in Seq(Failure), NEW t \in Seq(Try), NEW r \in Try, r.end # "ok",
           NEW cut \in BOOLEAN, cut => Refusals(t) # {}, Alike(f, t, cut)
    PROVE  Alike(Append(f, <<r.pair, r.end>>), Append(t, r), cut)
<1> DEFINE x == <<r.pair, r.end>>
           n == Len(f)
           m == Len(t)
           f2 == Append(f, x)
           t2 == Append(t, r)
           g == [k \in 1 .. m + 1 |-> <<t2[k].pair, t2[k].end>>]
<1>1. x \in Failure /\ x \notin Blind
  BY DEF Try, Failure, Blind, Ends
<1>2. /\ n \in Nat /\ \A k \in 1 .. n : f2[k] = f[k]
      /\ f2[n + 1] = x
      /\ Says(f) \in SUBSET (1 .. n) /\ Says(f2) = Says(f) \cup {n + 1}
  BY <1>1, SaysMore
<1>3. /\ m \in Nat /\ \A k \in 1 .. m : t2[k] = t[k]
      /\ t2[m + 1] = r
  BY TryMore
<1>4. Owed(t, cut) \in SUBSET (1 .. m) /\ Owed(t2, cut) = Owed(t, cut) \cup {m + 1}
  BY OwedMore
<1> HIDE DEF n, m, f2, t2
<1>5. /\ \A k \in 1 .. m : g[k] = <<t[k].pair, t[k].end>>
      /\ g[m + 1] = x
  BY <1>3
<1>6. \A k \in 1 .. m + 1 : g[k] = <<t2[k].pair, t2[k].end>>
  OBVIOUS
<1> HIDE DEF g, x
<1>7. RankByRank(Says(f), f2, Owed(t, cut), g)
  <2>1. \A i \in Says(f) : f2[i] = f[i]
    BY <1>2
  <2>2. \A k \in Owed(t, cut) : g[k] = <<t[k].pair, t[k].end>>
    BY <1>4, <1>5
  <2> QED
    BY <2>1, <2>2 DEF Alike, RankByRank
<1>8. f2[n + 1] = g[m + 1]
  BY <1>2, <1>5
<1>9. RankByRank(Says(f2), f2, Owed(t2, cut), g)
  BY <1>2, <1>3, <1>4, <1>7, <1>8, RanksAgree
<1>10. \A k \in Owed(t2, cut) : k \in 1 .. m + 1
  BY <1>3, <1>4
<1>11. Alike(f2, t2, cut)
  BY <1>6, <1>9, <1>10 DEF Alike, RankByRank
<1> QED
  BY <1>11 DEF f2, t2, x

(* So does a provider listed as unable to see. *)
LEMMA AlikeSkip ==
    ASSUME NEW f \in Seq(Failure), NEW t \in Seq(Try), NEW x \in Blind \cap Failure,
           NEW cut \in BOOLEAN, Alike(f, t, cut)
    PROVE  Alike(Append(f, x), t, cut)
<1>1. /\ \A k \in 1 .. Len(f) : Append(f, x)[k] = f[k]
      /\ Says(f) \in SUBSET (1 .. Len(f)) /\ Says(Append(f, x)) = Says(f)
  BY SaysMore
<1> QED
  BY <1>1 DEF Alike

(* So do an answer and the refusal that messages are dropped for, of which *)
(* neither list says anything.                                             *)
LEMMA AlikeStill ==
    ASSUME NEW f \in Seq(Failure), NEW t \in Seq(Try), NEW r \in Try,
           NEW cut \in BOOLEAN, cut => Refusals(t) # {}, Alike(f, t, cut)
    PROVE  /\ r.end = "ok" => Alike(f, Append(t, r), cut)
           /\ ~cut /\ Refusals(t) = {} /\ r.end = "context" => Alike(f, Append(t, r), TRUE)
<1>1. \A k \in 1 .. Len(t) : Append(t, r)[k] = t[k]
  BY TryMore
<1>2. /\ Owed(t, cut) \in SUBSET (1 .. Len(t))
      /\ r.end = "ok" => Owed(Append(t, r), cut) = Owed(t, cut)
      /\ ~cut /\ Refusals(t) = {} /\ r.end = "context" => Owed(Append(t, r), TRUE) = Owed(t, cut)
  BY OwedMore
<1>3. ASSUME r.end = "ok" PROVE Alike(f, Append(t, r), cut)
  BY <1>1, <1>2, <1>3 DEF Alike
<1>4. ASSUME ~cut, Refusals(t) = {}, r.end = "context" PROVE Alike(f, Append(t, r), TRUE)
  BY <1>1, <1>2, <1>4 DEF Alike
<1> QED
  BY <1>3, <1>4

(* A pair that is done with stays so when failures are written down ... *)
LEMMA DoneWritten ==
    ASSUME NEW t, NEW f \in Seq(Failure), NEW x \in Failure, NEW p, DoneWith(t, f, p)
    PROVE  DoneWith(t, Append(f, x), p)
<1>1. DOMAIN f \subseteq DOMAIN Append(f, x) /\ \A n \in DOMAIN f : Append(f, x)[n] = f[n]
  <2>1. /\ Len(f) \in Nat /\ DOMAIN f = 1 .. Len(f) /\ DOMAIN Append(f, x) = 1 .. Len(f) + 1
        /\ \A k \in 1 .. Len(f) : Append(f, x)[k] = f[k]
    BY SaysMore
  <2> QED
    BY <2>1
<1> QED
  BY <1>1 DEF DoneWith

(* ... and when another one is asked. *)
LEMMA DoneAside ==
    ASSUME NEW t \in Seq(Try), NEW r \in Try, NEW f, NEW p, p # r.pair, DoneWith(t, f, p)
    PROVE  DoneWith(Append(t, r), f, p)
<1>1. /\ Len(t) \in Nat /\ \A k \in 1 .. Len(t) : Append(t, r)[k] = t[k]
      /\ At(t, p) \in SUBSET (1 .. Len(t)) /\ At(Append(t, r), p) = At(t, p)
  BY TryMore
<1>2. At(t, p) # {} => Max(At(t, p)) \in 1 .. Len(t)
  BY <1>1, MaxOf
<1> QED
  BY <1>1, <1>2 DEF DoneWith

(* The attempt at a pair that ends what is done there: a permanent failure *)
(* or the last one.                                                        *)
LEMMA DoneNow ==
    ASSUME NEW t \in Seq(Try), NEW r \in Try, NEW f
    PROVE  /\ Cardinality(At(Append(t, r), r.pair)) = Cardinality(At(t, r.pair)) + 1
           /\ Cardinality(At(t, r.pair)) = MaxRetries => DoneWith(Append(t, r), f, r.pair)
           /\ r.end = "permanent" => DoneWith(Append(t, r), f, r.pair)
<1> DEFINE n == Len(t)
           A == At(t, r.pair)
           B == At(Append(t, r), r.pair)
<1>1. /\ n \in Nat /\ Append(t, r)[n + 1] = r
      /\ A \in SUBSET (1 .. n) /\ B = A \cup {n + 1}
  BY TryMore
<1>2. Cardinality(B) = Cardinality(A) + 1
  BY <1>1, NextRank
<1>3. Cardinality(A) = MaxRetries => DoneWith(Append(t, r), f, r.pair)
  BY <1>2 DEF DoneWith
<1>4. r.end = "permanent" => DoneWith(Append(t, r), f, r.pair)
  <2>1. n + 1 \in Nat /\ B \in SUBSET (1 .. n + 1) /\ n + 1 \in B /\ \A k \in B : k <= n + 1
    BY <1>1
  <2>2. Max(B) = n + 1
    BY <2>1, LastIs
  <2> QED
    BY <1>1, <2>1, <2>2 DEF DoneWith
<1> QED
  BY <1>2, <1>3, <1>4

-----------------------------------------------------------------------------
(* What is sent. *)

(* The positions of a request. *)
LEMMA RequestIs ==
    ASSUME request \in Requests
    PROVE  /\ request \in Seq(STRING) /\ Len(request) \in Nat /\ Whole = 1 .. Len(request)
           /\ \A s \in SUBSET Whole : Talk(s) \in SUBSET (1 .. Len(request))
           /\ \A s \in SUBSET Whole : Cardinality(Talk(s)) \in Nat
<1>1. request \in Seq(STRING) /\ Len(request) \in Nat /\ Whole = 1 .. Len(request)
  BY ReliableProviderAssumption, LenProperties DEF Whole
<1>2. \A s \in SUBSET Whole : Talk(s) \in SUBSET (1 .. Len(request))
  BY <1>1 DEF Talk
<1>3. ASSUME NEW s \in SUBSET Whole PROVE Cardinality(Talk(s)) \in Nat
  <2>1. Cardinality(Talk(s)) \in 0 .. Len(request)
    BY <1>1, <1>2, PlacesFinite
  <2> QED
    BY <1>1, <2>1
<1> QED
  BY <1>1, <1>2, <1>3

(* The whole request is fit to be sent, and so is what truncate_for_context *)
(* leaves of it.                                                           *)
LEMMA KeptOfWhole ==
    ASSUME request \in Requests
    PROVE  EndKept(Whole) /\ Truncated(Whole) \in SUBSET Whole /\ EndKept(Truncated(Whole))
<1> DEFINE N == Len(request)
           I == Talk(Whole)
           T == Truncated(Whole)
           d == Cardinality(I) \div 2
           K == {i \in I : Rank(I, i) > d}
<1>1. N \in Nat /\ Whole = 1 .. N /\ I \in SUBSET (1 .. N) /\ Cardinality(I) \in Nat
  BY RequestIs
<1> HIDE DEF N
<1>2. EndKept(Whole)
  <2>1. \A i \in I : i .. N \subseteq Whole
    BY <1>1
  <2>2. 2 * Cardinality(I) >= Cardinality(I)
    BY <1>1
  <2> QED
    BY <2>1, <2>2 DEF EndKept, N
<1>3. T \in SUBSET Whole
  BY DEF Truncated
<1>4. CASE images \/ Cardinality(I) <= 1
  BY <1>2, <1>3, <1>4 DEF Truncated
<1>5. CASE ~images /\ Cardinality(I) > 1
  <2>1. 2 * Cardinality(K) >= Cardinality(I) /\ \A i \in K : \A j \in I : i <= j => j \in K
    BY <1>1, <1>5, LaterHalf
  <2>2. ~(images \/ Cardinality(I) <= 1)
    BY <1>1, <1>5
  <2>3. T = {i \in Whole : request[i] = "system" \/ Rank(I, i) > d}
    BY <2>2 DEF Truncated
  <2> HIDE DEF d, T
  <2>4. Talk(T) = K
    BY <2>3 DEF Talk
  <2>5. ASSUME NEW i \in K, NEW j \in i .. N PROVE j \in T
    <3>1. j \in Whole /\ i <= j
      BY <1>1
    <3>2. CASE request[j] = "system"
      BY <2>3, <3>1, <3>2
    <3>3. CASE request[j] # "system"
      <4>1. j \in I
        BY <3>1, <3>3 DEF Talk
      <4> QED
        BY <2>1, <2>3, <3>1, <4>1
    <3> QED
      BY <3>2, <3>3
  <2>6. \A i \in Whole : request[i] = "system" => i \in T
    BY <2>3
  <2> QED
    BY <1>2, <1>3, <1>5, <2>1, <2>4, <2>5, <2>6 DEF EndKept, N, T
<1> QED
  BY <1>1, <1>2, <1>4, <1>5

-----------------------------------------------------------------------------
(* The invariant. *)

(* A call begins in it. *)
LEMMA CallStarts == CallInit => CallInv
<1> SUFFICES ASSUME CallInit PROVE CallInv
  OBVIOUS
<1> USE DEF CallInit
<1>1. request \in Requests /\ sent = Whole /\ tried = <<>> /\ failures = <<>>
  BY DEF Whole
<1>2. EndKept(Whole)
  BY <1>1, KeptOfWhole
<1>3. CallShape
  <2>1. /\ failures \in Seq(Pairs \X (Ends \cup {"no images"})) /\ tried \in Seq(Try)
        /\ sent \subseteq DOMAIN request
    BY <1>1
  <2>2. pair \in Pairs /\ attempt \in 0 .. MaxRetries
    BY ReliableProviderAssumption DEF Pairs
  <2> QED
    BY <2>1, <2>2 DEF CallShape, CallTypeOK
<1>4. Ended
  BY <1>1, <1>2 DEF Ended
<1>5. DOMAIN tried = {} /\ DOMAIN failures = {}
  BY <1>1
<1>6. Progress
  <2>1. \A p : At(tried, p) = {}
    BY <1>5 DEF At
  <2>2. \A p \in Pairs : ~Before(p, pair)
    BY ReliableProviderAssumption DEF Before, Pairs
  <2>3. Cardinality({}) = 0
    BY FS_EmptySet
  <2> QED
    BY <2>1, <2>2, <2>3 DEF Progress
<1>7. ErrorTells
  <2>1. Says(failures) = {} /\ Refusals(tried) = {} /\ Owed(tried, truncated) = {}
    BY <1>5 DEF Says, Refusals, Owed
  <2> QED
    BY <2>1 DEF ErrorTells, Alike
<1> QED
  BY <1>3, <1>4, <1>6, <1>7 DEF CallInv

(* The next pair of the chain, or its end. *)
LEMMA MoveOn ==
    ASSUME pair \in Pairs, reply = "none", NextPair,
           \A p \in Pairs : Before(p, pair) => DoneWith(tried', failures', p),
           \A p \in Pairs : Before(pair, p) => At(tried', p) = {},
           DoneWith(tried', failures', pair)
    PROVE  /\ pair' \in Pairs /\ attempt' = 0 /\ reply' \in {"none", "failed"}
           /\ (window' \in Windows /\ sees' \in BOOLEAN) \/ (window' = window /\ sees' = sees)
           /\ Progress'
<1>1. Models \in Nat \ {0} /\ Providers \in Nat \ {0}
  BY ReliableProviderAssumption
<1>2. CASE LastPair
  <2>1. attempt' = 0 /\ reply' = "failed" /\ pair' = pair /\ window' = window /\ sees' = sees
    BY <1>2 DEF NextPair
  <2> QED
    BY <1>2, <2>1 DEF Progress, LastPair
<1>3. CASE ~LastPair
  <2> DEFINE q == IF pair[2] < Providers THEN <<pair[1], pair[2] + 1>> ELSE <<pair[1] + 1, 1>>
  <2>1. /\ attempt' = 0 /\ reply' = reply /\ pair' = q
        /\ window' \in Windows /\ sees' \in BOOLEAN
    BY <1>3 DEF NextPair, ArriveAt
  <2>2. /\ pair[1] \in 1 .. Models /\ pair[2] \in 1 .. Providers /\ pair = <<pair[1], pair[2]>>
        /\ pair[1] < Models \/ pair[2] < Providers
    BY <1>1, <1>3 DEF Pairs, LastPair
  <2>3. q \in Pairs /\ Before(pair, q)
    BY <1>1, <2>2 DEF Pairs, Before
  <2>4. \A p \in Pairs : Before(p, q) => p = pair \/ Before(p, pair)
    BY <1>1, <2>2 DEF Pairs, Before
  <2>5. \A p \in Pairs : Before(q, p) => Before(pair, p)
    BY <1>1, <2>2 DEF Pairs, Before
  <2> HIDE DEF q
  <2>6. Cardinality(At(tried', q)) = 0
    BY <2>3, FS_EmptySet
  <2> QED
    BY <2>1, <2>3, <2>4, <2>5, <2>6 DEF Progress
<1> QED
  BY <1>2, <1>3

(* The next attempt at a pair, or the next pair when it was the last one. *)
LEMMA TryOn ==
    ASSUME CallInv, reply = "none", NextAttempt,
           \A p \in Pairs : Before(p, pair) => DoneWith(tried', failures', p),
           \A p \in Pairs : Before(pair, p) => At(tried', p) = {},
           Cardinality(At(tried', pair)) = attempt + 1,
           attempt = MaxRetries => DoneWith(tried', failures', pair)
    PROVE  /\ pair' \in Pairs /\ attempt' \in 0 .. MaxRetries /\ reply' \in {"none", "failed"}
           /\ (window' \in Windows /\ sees' \in BOOLEAN) \/ (window' = window /\ sees' = sees)
           /\ Progress'
<1>1. pair \in Pairs /\ attempt \in 0 .. MaxRetries /\ MaxRetries \in Nat
  BY ReliableProviderAssumption DEF CallInv, CallShape, CallTypeOK
<1>2. CASE attempt < MaxRetries
  <2>1. attempt' = attempt + 1 /\ pair' = pair /\ window' = window /\ sees' = sees /\ reply' = reply
    BY <1>2 DEF NextAttempt
  <2>2. attempt' \in 0 .. MaxRetries
    BY <1>1, <1>2, <2>1
  <2> QED
    BY <1>1, <2>1, <2>2 DEF Progress
<1>3. CASE ~(attempt < MaxRetries)
  <2>1. attempt = MaxRetries
    BY <1>1, <1>3
  <2>2. NextPair
    BY <1>3 DEF NextAttempt
  <2>3. 0 \in 0 .. MaxRetries
    BY <1>1
  <2> QED
    BY <1>1, <2>1, <2>2, <2>3, MoveOn
<1> QED
  BY <1>2, <1>3

(* What an attempt at the current pair does to the lists.                  *)
LEMMA AttemptMade ==
    ASSUME CallInv, NEW end \in Ends, Called(end), NEW x \in Failure,
           failures' \in {failures, Append(failures, x)}
    PROVE  /\ request' = request /\ images' = images /\ reply = "none"
           /\ \E r \in Try : r.pair = pair /\ r.end = end /\ tried' = Append(tried, r)
           /\ tried' \in Seq(Try) /\ failures' \in Seq(Failure)
           /\ \A n \in DOMAIN tried' : EndKept(tried'[n].sent)
           /\ \A p \in Pairs : Before(p, pair) => DoneWith(tried', failures', p)
           /\ \A p \in Pairs : Before(pair, p) => At(tried', p) = {}
           /\ Cardinality(At(tried', pair)) = attempt + 1
           /\ attempt = MaxRetries \/ end = "permanent" => DoneWith(tried', failures', pair)
<1> DEFINE r == [pair |-> pair, sent |-> sent, end |-> end]
<1>1. request' = request /\ images' = images /\ reply = "none" /\ tried' = Append(tried, r)
  BY DEF Called
<1>2. tried \in Seq(Try) /\ failures \in Seq(Failure) /\ pair \in Pairs
  BY DEF CallInv, CallShape, CallTypeOK, Failure
<1>3. r \in Try /\ r.pair = pair /\ r.end = end /\ r.sent = sent
  BY <1>2 DEF CallInv, CallShape, CallTypeOK, Try, Whole
<1> HIDE DEF r
<1>4. /\ Len(tried) \in Nat /\ tried' \in Seq(Try)
      /\ DOMAIN tried = 1 .. Len(tried) /\ DOMAIN tried' = 1 .. Len(tried) + 1
      /\ \A k \in 1 .. Len(tried) : tried'[k] = tried[k]
      /\ tried'[Len(tried) + 1] = r
      /\ \A p : p # pair => At(tried', p) = At(tried, p)
  BY <1>1, <1>2, <1>3, TryMore
<1>5. failures' \in Seq(Failure)
  BY <1>2, SaysMore
<1>6. \A n \in DOMAIN tried' : EndKept(tried'[n].sent)
  <2>1. \A k : k \in DOMAIN tried' <=> k \in DOMAIN tried \/ k = Len(tried) + 1
    BY <1>4
  <2>2. EndKept(sent) /\ \A n \in DOMAIN tried : EndKept(tried[n].sent)
    BY DEF CallInv, Ended
  <2> QED
    BY <1>3, <1>4, <2>1, <2>2
<1>7. \A p \in Pairs : /\ Before(p, pair) => p # pair
                       /\ Before(pair, p) => p # pair
  BY ReliableProviderAssumption DEF Before, Pairs
<1>8. \A p : DoneWith(tried', failures, p) => DoneWith(tried', failures', p)
  BY <1>2, DoneWritten
<1>9. \A p \in Pairs : Before(p, pair) => DoneWith(tried', failures', p)
  <2> SUFFICES ASSUME NEW p \in Pairs, Before(p, pair) PROVE DoneWith(tried', failures', p)
    OBVIOUS
  <2>1. p # r.pair /\ DoneWith(tried, failures, p)
    BY <1>3, <1>7 DEF CallInv, Progress
  <2>2. DoneWith(tried', failures, p)
    BY <1>1, <1>2, <1>3, <2>1, DoneAside
  <2> QED
    BY <1>8, <2>2
<1>10. \A p \in Pairs : Before(pair, p) => At(tried', p) = {}
  BY <1>4, <1>7 DEF CallInv, Progress
<1>11. Cardinality(At(tried, pair)) = attempt
  BY <1>1 DEF CallInv, Progress
<1>12. /\ Cardinality(At(tried', pair)) = attempt + 1
       /\ attempt = MaxRetries \/ end = "permanent" => DoneWith(tried', failures, pair)
  BY <1>1, <1>2, <1>3, <1>11, DoneNow
<1> QED
  BY <1>1, <1>3, <1>4, <1>5, <1>6, <1>8, <1>9, <1>10, <1>12

(* What is fit to be sent stays so while the request is the same.          *)
LEMMA EndedNext ==
    ASSUME request' = request, images' = images,
           ~truncated' => sent' = Whole, EndKept(sent'),
           \A n \in DOMAIN tried' : EndKept(tried'[n].sent)
    PROVE  Ended'
BY DEF Ended, EndKept, Talk, Whole

(* Where the call may be after an attempt or a pair left out.              *)
LEMMA ShapeNext ==
    ASSUME CallInv, request' = request, images' = images, truncated' \in BOOLEAN,
           (window' \in Windows /\ sees' \in BOOLEAN) \/ (window' = window /\ sees' = sees),
           sent' \in SUBSET Whole, pair' \in Pairs, attempt' \in 0 .. MaxRetries,
           reply' \in {"stream", "none", "ok", "too long", "failed"},
           failures' \in Seq(Failure), tried' \in Seq(Try)
    PROVE  CallShape'
BY DEF CallInv, CallShape, CallTypeOK, Try, Whole, Failure

(* The attempts keep the invariant. *)
LEMMA CallSteps == CallInv /\ [CallNext]_callVars => CallInv'
<1> SUFFICES ASSUME CallInv, [CallNext]_callVars PROVE CallInv'
  OBVIOUS
<1>1. /\ CallShape /\ Ended /\ Progress /\ ErrorTells
      /\ request \in Requests /\ pair \in Pairs /\ attempt \in 0 .. MaxRetries
      /\ truncated \in BOOLEAN /\ sent \in SUBSET Whole
      /\ tried \in Seq(Try) /\ failures \in Seq(Failure)
      /\ EndKept(sent) /\ (~truncated => sent = Whole)
      /\ Alike(failures, tried, truncated)
      /\ truncated => Refusals(tried) # {}
      /\ ~truncated /\ reply # "too long" => Refusals(tried) = {}
  BY DEF CallInv, CallShape, CallTypeOK, Ended, ErrorTells, Whole, Failure
<1>2. <<pair, "context">> \in Failure /\ <<pair, "no images">> \in Failure \cap Blind
  BY <1>1 DEF Failure, Blind, Ends
<1>3. 0 \in 0 .. MaxRetries
  BY ReliableProviderAssumption
<1>4. CASE UNCHANGED callVars
  <2>1. /\ request' = request /\ images' = images /\ sent' = sent /\ truncated' = truncated
        /\ pair' = pair /\ window' = window /\ sees' = sees /\ attempt' = attempt
        /\ failures' = failures /\ reply' = reply /\ tried' = tried
    BY <1>4 DEF callVars
  <2>2. CallShape'
    BY <1>1, <2>1 DEF CallShape, CallTypeOK, Try, Whole
  <2>3. Ended'
    BY <1>1, <2>1, EndedNext DEF Ended
  <2>4. Progress'
    BY <1>1, <2>1 DEF Progress, LastPair
  <2>5. ErrorTells'
    BY <1>1, <2>1 DEF ErrorTells
  <2> QED
    BY <2>2, <2>3, <2>4, <2>5 DEF CallInv
<1>5. CASE Stream
  <2>1. /\ reply = "stream" /\ reply' \in {"none", "ok"}
        /\ request' = request /\ images' = images /\ sent' = sent /\ truncated' = truncated
        /\ pair' = pair /\ window' = window /\ sees' = sees /\ attempt' = attempt
        /\ failures' = failures /\ tried' = tried
    BY <1>5 DEF Stream
  <2>2. CallShape'
    BY <1>1, <2>1, ShapeNext
  <2>3. Ended'
    BY <1>1, <2>1, EndedNext DEF Ended
  <2>4. Progress'
    BY <1>1, <2>1 DEF Progress
  <2>5. ErrorTells'
    BY <1>1, <2>1 DEF ErrorTells
  <2> QED
    BY <2>2, <2>3, <2>4, <2>5 DEF CallInv
<1>6. CASE Skip
  <2> DEFINE x == <<pair, "no images">>
  <2>1. /\ reply = "none" /\ NextPair /\ failures' = Append(failures, x)
        /\ request' = request /\ images' = images /\ sent' = sent /\ truncated' = truncated
        /\ tried' = tried
    BY <1>6 DEF Skip
  <2>2. failures' \in Seq(Failure)
    BY <1>1, <1>2, <2>1, SaysMore
  <2>3. /\ \A p : DoneWith(tried, failures, p) => DoneWith(tried', failures', p)
        /\ DoneWith(tried', failures', pair)
    <3>1. \A p : DoneWith(tried, failures, p) => DoneWith(tried, failures', p)
      BY <1>1, <1>2, <2>1, DoneWritten
    <3>2. \E n \in DOMAIN failures' : failures'[n] = x
      <4>1. /\ Len(failures) \in Nat /\ DOMAIN failures' = 1 .. Len(failures) + 1
            /\ failures'[Len(failures) + 1] = x
        BY <1>1, <1>2, <2>1, SaysMore
      <4>2. \A n \in Nat : n + 1 \in 1 .. n + 1
        OBVIOUS
      <4> QED
        BY <4>1, <4>2
    <3> QED
      BY <2>1, <3>1, <3>2 DEF DoneWith
  <2>4. /\ pair' \in Pairs /\ attempt' = 0 /\ reply' \in {"none", "failed"}
        /\ (window' \in Windows /\ sees' \in BOOLEAN) \/ (window' = window /\ sees' = sees)
        /\ Progress'
    BY <1>1, <2>1, <2>3, MoveOn DEF Progress
  <2>5. CallShape'
    BY <1>1, <1>3, <2>1, <2>2, <2>4, ShapeNext
  <2>6. Ended'
    BY <1>1, <2>1, EndedNext DEF Ended
  <2>7. ErrorTells'
    BY <1>1, <1>2, <2>1, AlikeSkip DEF ErrorTells
  <2> QED
    BY <2>4, <2>5, <2>6, <2>7 DEF CallInv
<1>7. CASE Answered
  <2>1. /\ Called("ok") /\ "ok" \in Ends /\ reply' = "ok" /\ failures' = failures
        /\ sent' = sent /\ truncated' = truncated /\ pair' = pair /\ window' = window
        /\ sees' = sees /\ attempt' = attempt
    BY <1>7 DEF Answered, Ends
  <2>2. /\ request' = request /\ images' = images /\ reply = "none"
        /\ \E r \in Try : r.pair = pair /\ r.end = "ok" /\ tried' = Append(tried, r)
        /\ tried' \in Seq(Try) /\ \A n \in DOMAIN tried' : EndKept(tried'[n].sent)
        /\ \A p \in Pairs : Before(p, pair) => DoneWith(tried', failures', p)
        /\ \A p \in Pairs : Before(pair, p) => At(tried', p) = {}
    BY <1>2, <2>1, AttemptMade
  <2>3. CallShape'
    BY <1>1, <2>1, <2>2, ShapeNext
  <2>4. Ended'
    BY <1>1, <2>1, <2>2, EndedNext
  <2>5. Progress'
    BY <2>1, <2>2 DEF Progress
  <2>6. ErrorTells'
    <3>1. PICK r \in Try : r.end = "ok" /\ tried' = Append(tried, r)
      BY <2>2
    <3>2. Refusals(tried') = Refusals(tried)
      BY <1>1, <3>1, TryMore
    <3>3. Alike(failures, tried', truncated)
      BY <1>1, <3>1, AlikeStill
    <3> QED
      BY <1>1, <2>1, <2>2, <3>2, <3>3 DEF ErrorTells
  <2> QED
    BY <2>3, <2>4, <2>5, <2>6 DEF CallInv
<1>8. CASE TooLongTruncate
  <2>1. /\ ~truncated /\ Called("context") /\ "context" \in Ends /\ failures' = failures
        /\ sent' = Truncated(sent) /\ truncated' = TRUE /\ NextAttempt
    BY <1>8 DEF TooLongTruncate, Ends
  <2>2. /\ request' = request /\ images' = images /\ reply = "none"
        /\ \E r \in Try : r.pair = pair /\ r.end = "context" /\ tried' = Append(tried, r)
        /\ tried' \in Seq(Try) /\ \A n \in DOMAIN tried' : EndKept(tried'[n].sent)
        /\ \A p \in Pairs : Before(p, pair) => DoneWith(tried', failures', p)
        /\ \A p \in Pairs : Before(pair, p) => At(tried', p) = {}
        /\ Cardinality(At(tried', pair)) = attempt + 1
        /\ attempt = MaxRetries => DoneWith(tried', failures', pair)
    BY <1>2, <2>1, AttemptMade
  <2>3. sent' \in SUBSET Whole /\ EndKept(sent')
    BY <1>1, <2>1, KeptOfWhole
  <2>4. /\ pair' \in Pairs /\ attempt' \in 0 .. MaxRetries /\ reply' \in {"none", "failed"}
        /\ (window' \in Windows /\ sees' \in BOOLEAN) \/ (window' = window /\ sees' = sees)
        /\ Progress'
    BY <2>1, <2>2, TryOn
  <2>5. CallShape'
    BY <1>1, <2>1, <2>2, <2>3, <2>4, ShapeNext
  <2>6. Ended'
    BY <2>1, <2>2, <2>3, EndedNext
  <2>7. ErrorTells'
    <3>1. PICK r \in Try : r.end = "context" /\ tried' = Append(tried, r)
      BY <2>2
    <3>2. Refusals(tried) = {}
      BY <1>1, <2>1, <2>2
    <3>3. Refusals(tried') # {}
      <4>1. Refusals(tried') = Refusals(tried) \cup {Len(tried) + 1}
        BY <1>1, <3>1, TryMore
      <4> QED
        BY <4>1
    <3>4. Alike(failures, tried', TRUE)
      BY <1>1, <2>1, <3>1, <3>2, AlikeStill
    <3> QED
      BY <2>1, <3>3, <3>4 DEF ErrorTells
  <2> QED
    BY <2>4, <2>5, <2>6, <2>7 DEF CallInv
<1>9. CASE TooLongGiveUp
  <2>1. /\ ~truncated /\ Called("context") /\ "context" \in Ends
        /\ failures' = Append(failures, <<pair, "context">>) /\ reply' = "too long"
        /\ sent' = sent /\ truncated' = truncated /\ pair' = pair /\ window' = window
        /\ sees' = sees /\ attempt' = attempt
    BY <1>9 DEF TooLongGiveUp, Ends
  <2>2. /\ request' = request /\ images' = images /\ reply = "none"
        /\ \E r \in Try : r.pair = pair /\ r.end = "context" /\ tried' = Append(tried, r)
        /\ tried' \in Seq(Try) /\ failures' \in Seq(Failure)
        /\ \A n \in DOMAIN tried' : EndKept(tried'[n].sent)
        /\ \A p \in Pairs : Before(p, pair) => DoneWith(tried', failures', p)
        /\ \A p \in Pairs : Before(pair, p) => At(tried', p) = {}
    BY <1>2, <2>1, AttemptMade
  <2>3. CallShape'
    BY <1>1, <2>1, <2>2, ShapeNext
  <2>4. Ended'
    BY <1>1, <2>1, <2>2, EndedNext
  <2>5. Progress'
    BY <2>1, <2>2 DEF Progress
  <2>6. ErrorTells'
    <3>1. PICK r \in Try : r.pair = pair /\ r.end = "context" /\ tried' = Append(tried, r)
      BY <2>2
    <3>2. Alike(failures', tried', truncated)
      BY <1>1, <2>1, <3>1, AlikeMore
    <3> QED
      BY <2>1, <3>2 DEF ErrorTells
  <2> QED
    BY <2>3, <2>4, <2>5, <2>6 DEF CallInv
<1>10. ASSUME NEW kind \in {"transient", "permanent", "context"}, Fails(kind),
              kind = "context" => truncated
       PROVE  CallInv'
  <2>1. /\ Called(kind) /\ kind \in Ends /\ <<pair, kind>> \in Failure
        /\ failures' = Append(failures, <<pair, kind>>)
        /\ IF kind = "permanent" THEN NextPair ELSE NextAttempt
        /\ sent' = sent /\ truncated' = truncated
    BY <1>1, <1>10 DEF Fails, Ends, Failure
  <2>2. /\ request' = request /\ images' = images /\ reply = "none"
        /\ \E r \in Try : r.pair = pair /\ r.end = kind /\ tried' = Append(tried, r)
        /\ tried' \in Seq(Try) /\ failures' \in Seq(Failure)
        /\ \A n \in DOMAIN tried' : EndKept(tried'[n].sent)
        /\ \A p \in Pairs : Before(p, pair) => DoneWith(tried', failures', p)
        /\ \A p \in Pairs : Before(pair, p) => At(tried', p) = {}
        /\ Cardinality(At(tried', pair)) = attempt + 1
        /\ attempt = MaxRetries \/ kind = "permanent" => DoneWith(tried', failures', pair)
    BY <2>1, AttemptMade
  <2>3. /\ pair' \in Pairs /\ attempt' \in 0 .. MaxRetries /\ reply' \in {"none", "failed"}
        /\ (window' \in Windows /\ sees' \in BOOLEAN) \/ (window' = window /\ sees' = sees)
        /\ Progress'
    <3>1. CASE kind = "permanent"
      BY <1>1, <1>3, <2>1, <2>2, <3>1, MoveOn
    <3>2. CASE kind # "permanent"
      BY <2>1, <2>2, <3>2, TryOn
    <3> QED
      BY <3>1, <3>2
  <2>4. CallShape'
    BY <1>1, <2>1, <2>2, <2>3, ShapeNext
  <2>5. Ended'
    BY <1>1, <2>1, <2>2, EndedNext
  <2>6. ErrorTells'
    <3>1. PICK r \in Try : r.pair = pair /\ r.end = kind /\ tried' = Append(tried, r)
      BY <2>2
    <3>2. Alike(failures', tried', truncated)
      BY <1>1, <1>10, <2>1, <3>1, AlikeMore
    <3>3. Refusals(tried') = IF kind = "context" THEN Refusals(tried) \cup {Len(tried) + 1} ELSE Refusals(tried)
      BY <1>1, <3>1, TryMore
    <3> QED
      BY <1>1, <1>10, <2>1, <2>2, <3>2, <3>3 DEF ErrorTells
  <2> QED
    BY <2>3, <2>4, <2>5, <2>6 DEF CallInv
<1>11. CASE StillTooLong
  BY <1>10, <1>11 DEF StillTooLong
<1>12. CASE Fails("transient")
  BY <1>10, <1>12
<1>13. CASE Fails("permanent")
  BY <1>10, <1>13
<1> QED
  BY <1>4, <1>5, <1>6, <1>7, <1>8, <1>9, <1>11, <1>12, <1>13 DEF CallNext

(* What is used above, of every call. *)
LEMMA CallInvariant == CallSpec => []CallInv
BY CallStarts, CallSteps, PTL DEF CallSpec

(* The state of a call has its types: its place in the chain is one of the *)
(* pairs, and no pair is tried more than MaxRetries + 1 times.             *)
THEOREM CallTypeCorrect == CallSpec => []CallTypeOK
<1>1. CallInv => CallTypeOK
  BY DEF CallInv, CallShape
<1> QED
  BY <1>1, CallInvariant, PTL

(* The loop of ReliableProvider::chat gives up on nobody early, and its    *)
(* error is the list of what failed.                                       *)
THEOREM NobodyGivenUpEarly == CallSpec => []EveryoneAsked
<1>1. CallInv => EveryoneAsked
  <2> SUFFICES ASSUME CallInv PROVE EveryoneAsked
    OBVIOUS
  <2>1. /\ Told = Says(failures) /\ Trail = Owed(tried, truncated)
        /\ \A p : AttemptsAt(p) = At(tried, p)
    BY DEF Told, Says, Trail, Owed, Refused, Refusals, AttemptsAt, At
  <2>2. Alike(failures, tried, truncated)
    BY DEF CallInv, ErrorTells
  <2>3. ASSUME reply = "failed", NEW p \in Pairs PROVE DoneWith(tried, failures, p)
    <3>1. /\ LastPair /\ DoneWith(tried, failures, pair)
          /\ Before(p, pair) => DoneWith(tried, failures, p)
      BY <2>3 DEF CallInv, Progress
    <3>2. p = pair \/ Before(p, pair)
      BY <3>1, ReliableProviderAssumption DEF LastPair, Before, Pairs
    <3> QED
      BY <3>1, <3>2
  <2> QED
    BY <2>1, <2>2, <2>3 DEF EveryoneAsked, Alike, DoneWith
<1> QED
  BY <1>1, CallInvariant, PTL

(* Whatever truncate_for_context drops, the system messages and the later  *)
(* half of the conversation at least are sent.                             *)
THEOREM AnEndIsSent == CallSpec => []EndIsSent
<1>1. CallInv => EndIsSent
  BY DEF CallInv, Ended, EndKept, EndIsSent, Whole
<1> QED
  BY <1>1, CallInvariant, PTL

-----------------------------------------------------------------------------
(***************************************************************************)
(* Remote tool calls, for any set of calls and any size of the request     *)
(* channel.  The invariant says of each call where it is in its life and,  *)
(* with it, where its oneshot sender is (Life); the channel holds a call   *)
(* once (Unique); and outside a turn no call is active.                    *)
(***************************************************************************)

(* TypeOK, but for the flag and the bound on what is on the wire. *)
Shape ==
    /\ handler \in {"idle", "turn", "gone"}
    /\ socket \in {"up", "broken"}
    /\ call \in [Calls -> {"fresh", "sending", "waiting", "returned"}]
    /\ result \in [Calls -> {"none", "answer", "sendFailed", "timeout"}]
    /\ requests \in Seq(Calls) /\ Len(requests) <= Capacity
    /\ pending \subseteq Calls
    /\ oneshot \in [Calls -> {"empty", "answer", "sendFailed"}]
    /\ asked \subseteq Calls
    /\ replies \in Seq(Calls) /\ Len(replies) <= MaxReplies
    /\ acked \subseteq Calls

Flag == forwarding \in BOOLEAN

Unique == \A i, j \in 1 .. Len(requests) : requests[i] = requests[j] => i = j

Queued == Range(requests)

(* A call before its request is sent, while it waits and after it returned.*)
Unsent(c) ==
    /\ c \notin Queued \cup pending \cup asked \cup acked
    /\ oneshot[c] = "empty" /\ result[c] = "none"

Waits(c) ==
    /\ result[c] = "none"
    /\ \/ c \in Queued /\ c \notin pending /\ oneshot[c] = "empty"
       \/ c \notin Queued /\ c \in pending /\ oneshot[c] = "empty"
       \/ c \notin Queued /\ c \notin pending /\ oneshot[c] # "empty"

Returned(c) ==
    \/ result[c] = "timeout" /\ oneshot[c] = "empty"
    \/ result[c] = oneshot[c] /\ oneshot[c] # "empty" /\ c \notin Queued \cup pending

Life ==
    \A c \in Calls :
        /\ call[c] \in {"fresh", "sending"} => Unsent(c)
        /\ call[c] = "waiting" => Waits(c)
        /\ call[c] = "returned" => Returned(c)

(* The client is asked once the request has left the channel, and answers  *)
(* what it was asked only.                                                 *)
Asked ==
    /\ asked \cap Queued = {}
    /\ Range(replies) \cup acked \subseteq asked
    /\ \A c \in Calls :
          /\ oneshot[c] = "sendFailed" => c \notin asked
          /\ oneshot[c] = "answer" => c \in acked
          /\ c \in acked => oneshot[c] = "answer" \/ result[c] = "timeout"

InTurnOnly == handler # "turn" => Active = {}

IInv == Shape /\ Unique /\ Life /\ Asked /\ InTurnOnly

-----------------------------------------------------------------------------
USE RemoteToolsAssumption

(* What is in a channel is a message.                                      *)
LEMMA RangeIn ==
    ASSUME NEW S, NEW s \in Seq(S)
    PROVE  Range(s) \subseteq S
BY LenProperties, ElementOfSeq DEF Range

(* A message sent is in the channel with those before it.                  *)
LEMMA RangeAppend ==
    ASSUME NEW S, NEW s \in Seq(S), NEW e \in S
    PROVE  Range(Append(s, e)) = Range(s) \cup {e}
<1>1. /\ Append(s, e) \in Seq(S) /\ Len(Append(s, e)) = Len(s) + 1
      /\ \A i \in 1 .. Len(s) : Append(s, e)[i] = s[i]
      /\ Append(s, e)[Len(s) + 1] = e
  BY AppendProperties
<1>2. Len(s) \in Nat /\ DOMAIN s = 1 .. Len(s) /\ DOMAIN Append(s, e) = 1 .. Len(s) + 1
  BY <1>1, LenProperties
<1> QED
  BY <1>1, <1>2 DEF Range

(* What is left after a receive was in the channel.                        *)
LEMMA RangeTail ==
    ASSUME NEW S, NEW s \in Seq(S), s # <<>>
    PROVE  /\ Head(s) \in S /\ Tail(s) \in Seq(S) /\ Len(Tail(s)) <= Len(s)
           /\ Range(s) = Range(Tail(s)) \cup {Head(s)}
           /\ (\A i, j \in 1 .. Len(s) : s[i] = s[j] => i = j) =>
                 /\ Head(s) \notin Range(Tail(s))
                 /\ \A i, j \in 1 .. Len(Tail(s)) : Tail(s)[i] = Tail(s)[j] => i = j
<1>1. /\ Head(s) \in S /\ Tail(s) \in Seq(S) /\ Len(Tail(s)) = Len(s) - 1
      /\ \A i \in 1 .. Len(Tail(s)) : Tail(s)[i] = s[i + 1]
  BY HeadTailProperties
<1>2. Len(s) \in Nat \ {0} /\ DOMAIN s = 1 .. Len(s) /\ DOMAIN Tail(s) = 1 .. Len(s) - 1
  BY <1>1, LenProperties, EmptySeq
<1>3. Head(s) = s[1]
  OBVIOUS
<1>4. Range(s) \subseteq Range(Tail(s)) \cup {Head(s)}
  <2> SUFFICES ASSUME NEW i \in 1 .. Len(s), i # 1
               PROVE  s[i] \in Range(Tail(s))
    BY <1>2, <1>3 DEF Range
  <2>1. i - 1 \in 1 .. Len(s) - 1 /\ Tail(s)[i - 1] = s[i]
    BY <1>1, <1>2
  <2> QED
    BY <1>2, <2>1 DEF Range
<1>5. Range(Tail(s)) \cup {Head(s)} \subseteq Range(s)
  BY <1>1, <1>2, <1>3 DEF Range
<1>6. ASSUME \A i, j \in 1 .. Len(s) : s[i] = s[j] => i = j
      PROVE  /\ Head(s) \notin Range(Tail(s))
             /\ \A i, j \in 1 .. Len(Tail(s)) : Tail(s)[i] = Tail(s)[j] => i = j
  BY <1>1, <1>2, <1>3, <1>6 DEF Range
<1> QED
  BY <1>1, <1>2, <1>4, <1>5, <1>6

(* A message not yet in the channel is sent once.                          *)
LEMMA UniqueAppend ==
    ASSUME Shape, Unique, NEW c \in Calls, c \notin Queued,
           requests' = Append(requests, c)
    PROVE  Unique'
<1>1. /\ Len(requests') = Len(requests) + 1
      /\ \A i \in 1 .. Len(requests) : requests'[i] = requests[i]
      /\ requests'[Len(requests) + 1] = c
  BY AppendProperties DEF Shape
<1>2. Len(requests) \in Nat /\ \A i \in 1 .. Len(requests) : requests[i] # c
  BY LenProperties DEF Shape, Queued, Range
<1> QED
  BY <1>1, <1>2 DEF Unique

-----------------------------------------------------------------------------
(* Nothing is asked, sent or received yet.                                 *)
LEMMA InvInit == Init => IInv
<1> SUFFICES ASSUME Init PROVE IInv
  OBVIOUS
<1>1. Shape /\ Unique
  BY EmptySeq DEF Init, Shape, Unique
<1>2. Queued = {} /\ Range(replies) = {}
  BY RangeEmpty DEF Init, Queued
<1> QED
  BY <1>1, <1>2 DEF Init, IInv, Life, Asked, InTurnOnly, Unsent, Active

(* Every step keeps the invariant.                                         *)
LEMMA InvStep == IInv /\ [Next]_vars => IInv'
<1> SUFFICES ASSUME IInv, [Next]_vars PROVE IInv'
  OBVIOUS
<1> USE DEF IInv, Shape, Life, Asked, InTurnOnly, Unsent, Waits, Returned, Active,
            gateway, agent, client
<1>1. CASE BeginTurn
  <2>1. UNCHANGED <<requests, pending, call, result, socket, asked, replies, oneshot, acked>>
    BY <1>1 DEF BeginTurn
  <2>2. handler' = "turn"
    BY <1>1 DEF BeginTurn
  <2> QED
    BY <2>1, <2>2 DEF Unique, Queued
<1>2. CASE CallBatch
  <2>1. UNCHANGED <<handler, requests, pending, result, socket, asked, replies, oneshot, acked>>
    BY <1>2 DEF CallBatch
  <2>2. /\ handler = "turn" /\ call' \in [Calls -> {"fresh", "sending", "waiting", "returned"}]
        /\ \A c \in Calls : call'[c] = call[c] \/ (call[c] = "fresh" /\ call'[c] = "sending")
    BY <1>2 DEF CallBatch
  <2> QED
    BY <2>1, <2>2 DEF Unique, Queued
<1>3. CASE EndTurn
  <2>1. UNCHANGED <<requests, pending, call, result, socket, asked, replies, oneshot, acked>>
    BY <1>3 DEF EndTurn
  <2>2. handler' = "idle" /\ Active = {}
    BY <1>3 DEF EndTurn
  <2> QED
    BY <2>1, <2>2 DEF Unique, Queued
<1>4. ASSUME NEW c \in Calls, SendRequest(c) PROVE IInv'
  <2>1. /\ call[c] = "sending" /\ Len(requests) < Capacity
        /\ requests' = Append(requests, c) /\ call' = [call EXCEPT ![c] = "waiting"]
        /\ UNCHANGED <<handler, pending, result, socket, asked, replies, oneshot, acked>>
    BY <1>4 DEF SendRequest
  <2>2. c \notin Queued
    BY <2>1
  <2>3. Queued' = Queued \cup {c}
    BY <2>1, RangeAppend DEF Queued
  <2>4. requests' \in Seq(Calls) /\ Len(requests') <= Capacity
    BY <2>1, AppendProperties, LenProperties
  <2>5. Unique'
    BY <2>1, <2>2, UniqueAppend
  <2>6. handler = "turn"
    BY <2>1
  <2> QED
    BY <2>1, <2>2, <2>3, <2>4, <2>5, <2>6
<1>5. ASSUME NEW c \in Calls, Receive(c) PROVE IInv'
  <2>1. /\ call[c] = "waiting" /\ oneshot[c] # "empty"
        /\ call' = [call EXCEPT ![c] = "returned"] /\ result' = [result EXCEPT ![c] = oneshot[c]]
        /\ UNCHANGED <<handler, requests, pending, socket, asked, replies, oneshot, acked>>
    BY <1>5 DEF Receive, Returns
  <2> QED
    BY <2>1 DEF Unique, Queued
<1>6. ASSUME NEW c \in Calls, Timeout(c) PROVE IInv'
  <2>1. /\ call[c] = "waiting" /\ oneshot[c] = "empty"
        /\ call' = [call EXCEPT ![c] = "returned"] /\ result' = [result EXCEPT ![c] = "timeout"]
        /\ UNCHANGED <<handler, requests, pending, socket, asked, replies, oneshot, acked>>
    BY <1>6 DEF Timeout, Returns
  <2> QED
    BY <2>1 DEF Unique, Queued
<1>7. ASSUME NEW c \in Calls, Reply(c) PROVE IInv'
  <2>1. /\ c \in asked /\ Len(replies) < MaxReplies /\ replies' = Append(replies, c)
        /\ UNCHANGED <<handler, requests, pending, call, result, socket, asked, oneshot, acked>>
    BY <1>7 DEF Reply
  <2>2. replies' \in Seq(Calls) /\ Len(replies') <= MaxReplies
    BY <2>1, AppendProperties, LenProperties
  <2>3. Range(replies') = Range(replies) \cup {c}
    BY <2>1, RangeAppend
  <2> QED
    BY <2>1, <2>2, <2>3 DEF Unique, Queued
<1>8. CASE Forward
  <2> DEFINE c == Head(requests)
  <2>1. requests # <<>> /\ requests' = Tail(requests)
    BY <1>8 DEF Forward
  <2>2. /\ c \in Calls /\ requests' \in Seq(Calls) /\ Len(requests') <= Capacity
        /\ Queued = Queued' \cup {c} /\ c \notin Queued' /\ Unique'
    BY <2>1, RangeTail, LenProperties DEF Queued, Unique
  <2>3. UNCHANGED <<handler, call, result, socket, replies, acked>>
    BY <1>8 DEF Forward
  <2>4. \/ asked' \in {asked, asked \cup {c}} /\ pending' = pending \cup {c} /\ oneshot' = oneshot
        \/ /\ UNCHANGED <<asked, pending>>
           /\ \/ call[c] = "waiting" /\ oneshot' = [oneshot EXCEPT ![c] = "sendFailed"]
              \/ call[c] # "waiting" /\ oneshot' = oneshot
    BY <1>8 DEF Forward
  <2> HIDE DEF c
  <2>5. call[c] \in {"waiting", "returned"}
    BY <2>2
  <2>6. CASE asked' \in {asked, asked \cup {c}} /\ pending' = pending \cup {c} /\ oneshot' = oneshot
    BY <2>2, <2>3, <2>5, <2>6
  <2>7. CASE /\ UNCHANGED <<asked, pending>> /\ call[c] = "waiting"
             /\ oneshot' = [oneshot EXCEPT ![c] = "sendFailed"]
    BY <2>2, <2>3, <2>7
  <2>8. CASE UNCHANGED <<asked, pending>> /\ oneshot' = oneshot /\ call[c] # "waiting"
    BY <2>2, <2>3, <2>8, <2>5
  <2> QED
    BY <2>4, <2>6, <2>7, <2>8
<1>9. CASE ReadReply
  <2> DEFINE c == Head(replies)
  <2>1. /\ replies # <<>> /\ replies' = Tail(replies)
        /\ pending' = pending \ {c} /\ acked' = acked \cup {c}
        /\ oneshot' = IF c \in pending /\ call[c] = "waiting"
                      THEN [oneshot EXCEPT ![c] = "answer"] ELSE oneshot
        /\ UNCHANGED <<handler, requests, call, result, socket, asked>>
    BY <1>9 DEF ReadReply, Deliver
  <2>2. /\ c \in Calls /\ replies' \in Seq(Calls) /\ Len(replies') <= MaxReplies
        /\ Range(replies) = Range(replies') \cup {c}
    BY <2>1, RangeTail, LenProperties
  <2> HIDE DEF c
  <2>3. c \in asked /\ c \notin Queued /\ call[c] \in {"waiting", "returned"}
    BY <2>2
  <2>4. CASE c \in pending /\ call[c] = "waiting"
    BY <2>1, <2>2, <2>3, <2>4 DEF Unique, Queued
  <2>5. CASE ~(c \in pending /\ call[c] = "waiting")
    BY <2>1, <2>2, <2>3, <2>5 DEF Unique, Queued
  <2> QED
    BY <2>4, <2>5
<1>10. CASE SeeClose
  <2>1. UNCHANGED <<call, result, socket, asked, replies, oneshot, acked>>
    BY <1>10 DEF SeeClose
  <2>2. CASE handler = "turn" /\ UNCHANGED <<handler, requests, pending>>
    BY <2>1, <2>2 DEF Unique, Queued
  <2>3. CASE handler = "idle" /\ handler' = "gone" /\ requests' = <<>> /\ pending' = {}
    <3>1. Queued' = {} /\ requests' \in Seq(Calls) /\ Len(requests') = 0
      BY <2>3, RangeEmpty, EmptySeq DEF Queued
    <3>2. \A d \in Calls : call[d] \notin {"sending", "waiting"}
      BY <2>3
    <3> QED
      BY <2>1, <2>3, <3>1, <3>2 DEF Unique
  <2> QED
    BY <1>10, <2>2, <2>3 DEF SeeClose
<1>11. CASE Break
  <2>1. /\ socket' = "broken" /\ replies' \in {replies, <<>>}
        /\ UNCHANGED <<handler, requests, pending, call, result, asked, oneshot, acked>>
    BY <1>11 DEF Break
  <2>2. /\ replies' \in Seq(Calls) /\ Len(replies') <= MaxReplies
        /\ Range(replies') \subseteq Range(replies)
    <3>1. <<>> \in Seq(Calls) /\ Len(<<>>) = 0 /\ Range(<<>>) = {}
      BY RangeEmpty, EmptySeq
    <3>2. CASE replies' = replies
      BY <3>2
    <3>3. CASE replies' = <<>>
      BY <3>1, <3>3
    <3> QED
      BY <2>1, <3>2, <3>3
  <2> QED
    BY <2>1, <2>2 DEF Unique, Queued
<1>12. CASE UNCHANGED vars
  BY <1>12 DEF vars, Unique, Queued
<1> QED
  BY <1>1, <1>2, <1>3, <1>4, <1>5, <1>6, <1>7, <1>8, <1>9, <1>10, <1>11, <1>12 DEF Next

(* The invariant holds of every state, for any calls, turns and channels.  *)
THEOREM InvKept == Spec => []IInv
BY InvInit, InvStep, PTL DEF Spec

(* The forwarding flag is raised or lowered, never anything else.          *)
LEMMA FlagStep == Flag /\ [Next]_vars => Flag'
<1> SUFFICES ASSUME Flag, [Next]_vars PROVE Flag'
  OBVIOUS
<1>1. forwarding' \in {TRUE, FALSE} \/ forwarding' = forwarding
  <2> USE DEF gateway
  <2>1. ASSUME NEW c \in Calls, SendRequest(c) \/ Receive(c) \/ Timeout(c) \/ Reply(c)
        PROVE  forwarding' = forwarding
    BY <2>1, Zenon DEF SendRequest, Receive, Timeout, Returns, Reply
  <2>2. ASSUME CallBatch \/ Forward \/ ReadReply \/ Break \/ UNCHANGED vars
        PROVE  forwarding' = forwarding
    BY <2>2, Zenon DEF CallBatch, Forward, ReadReply, Break, vars
  <2>3. ASSUME BeginTurn \/ EndTurn \/ SeeClose
        PROVE  forwarding' \in {TRUE, FALSE} \/ forwarding' = forwarding
    BY <2>3, Zenon DEF BeginTurn, EndTurn, SeeClose
  <2> QED
    BY <2>1, <2>2, <2>3, Zenon DEF Next
<1> QED
  BY <1>1, Zenon DEF Flag

(* The channels keep to their bounds and their types. *)
THEOREM CallsTypeCorrect == Spec => []TypeOK
<1>1. Init => Flag
  BY Zenon DEF Init, Flag
<1>2. IInv /\ Flag => TypeOK
  BY Zenon DEF IInv, Shape, Flag, TypeOK
<1> QED
  BY <1>1, <1>2, InvKept, FlagStep, PTL DEF Spec

-----------------------------------------------------------------------------
(* What the invariant says of the senders.                                 *)
LEMMA InvSender == IInv => SenderKept
<1> SUFFICES ASSUME IInv, NEW c \in Calls, call[c] = "waiting"
             PROVE  \E p \in SenderOf(c) : SenderOf(c) = {p}
  BY DEF SenderKept
<1>1. Waits(c)
  BY DEF IInv, Life
<1>2. CASE c \in Queued /\ c \notin pending /\ oneshot[c] = "empty"
  <2>1. SenderOf(c) = {"channel"}
    BY <1>2 DEF SenderOf, Queued
  <2> QED
    BY <2>1
<1>3. CASE c \notin Queued /\ c \in pending /\ oneshot[c] = "empty"
  <2>1. SenderOf(c) = {"map"}
    BY <1>3 DEF SenderOf, Queued
  <2> QED
    BY <2>1
<1>4. CASE c \notin Queued /\ c \notin pending /\ oneshot[c] # "empty"
  <2>1. SenderOf(c) = {"used"}
    BY <1>4 DEF SenderOf, Queued
  <2> QED
    BY <2>1
<1> QED
  BY <1>1, <1>2, <1>3, <1>4 DEF Waits

(* What the invariant says of answers received.                            *)
LEMMA InvOwnAnswer == IInv => OwnAnswer
<1> SUFFICES ASSUME IInv, NEW c \in Calls
             PROVE  /\ "answer" \in {oneshot[c], result[c]} => c \in acked
                    /\ c \in acked => oneshot[c] = "answer" \/ result[c] = "timeout"
                    /\ oneshot[c] = "answer" => result[c] \in {"none", "answer"}
  BY DEF OwnAnswer
<1>1. result[c] \in {"none", "timeout"} \/ result[c] = oneshot[c]
  BY DEF IInv, Shape, Life, Unsent, Waits, Returned
<1>2. result[c] = "timeout" => oneshot[c] = "empty"
  BY DEF IInv, Shape, Life, Unsent, Waits, Returned
<1> QED
  BY <1>1, <1>2 DEF IInv, Asked

(* What the invariant says of entries left behind.                         *)
LEMMA InvLeftovers == IInv => LeftoversTimedOut
<1> SUFFICES ASSUME IInv, Active = {}, NEW c \in pending \cup Queued
             PROVE  result[c] = "timeout"
  BY DEF LeftoversTimedOut, Queued
<1>1. c \in Calls
  BY RangeIn DEF IInv, Shape, Queued
<1>2. call[c] = "returned"
  BY <1>1 DEF IInv, Shape, Life, Unsent, Active
<1> QED
  BY <1>1, <1>2 DEF IInv, Life, Returned

(* The sender of every waiting call is kept in one place; an answer goes   *)
(* to the call it is for and is returned unless that call timed out; and   *)
(* what a turn leaves behind is of calls that timed out, for any number of *)
(* calls in parallel, any channel and any client.                          *)
THEOREM EveryAnswerRouted == Spec => []AnswersRouted
<1>1. IInv => AnswersRouted
  BY InvSender, InvOwnAnswer, InvLeftovers DEF AnswersRouted
<1> QED
  BY <1>1, InvKept, PTL

-----------------------------------------------------------------------------
(***************************************************************************)
(* The tool registry for any number of threads, names, tools, sources and  *)
(* filters.                                                                *)
(*                                                                         *)
(* CacheHonest is not inductive: what is cached was collected by a rebuild *)
(* while others changed the map.  RebuildHonest says of a rebuild in       *)
(* progress what CacheHonest says of its result: the names it has visited  *)
(* are right or their mutator has yet to invalidate, which it cannot do    *)
(* before the rebuild releases the lock (BuilderLocks).                    *)
(*                                                                         *)
(* RemovesAllOwn and RemovesOnlyOwn rest on Collects: the keys collected   *)
(* are those of the source, but for names others have changed.             *)
(***************************************************************************)

BuilderLocks == \A th \in Threads : pc[th] = "rebuilding" => writer = th

DenyingAll == \A th \in Threads : pc[th] = "denying" => touched[th] = Names

RebuildHonest ==
    \A th \in Threads : pc[th] = "rebuilding" =>
        \A n \in Names :
            IF n \in scan[th] THEN Part(built[th], n) = {}
            ELSE n \in InFlight \/ Part(built[th], n) = Visible(n)

(* The keys of one call: those still to be looked at, those found, and the *)
(* rest, which is not of the source.                                       *)
Collects ==
    \A th \in Threads, n \in Names :
        pc[th] \in {"collecting", "removing"} =>
            \/ n \in since[th]
            \/ pc[th] = "collecting" /\ n \in scan[th]
            \/ n \in doomed[th] /\ Has(n, source[th])
            \/ n \notin doomed[th] /\ ~Has(n, source[th])

KeysScanned ==
    \A th \in Threads : pc[th] = "collecting" => doomed[th] \cap scan[th] = {}

USE ToolsAssumption, NullAssumption

-----------------------------------------------------------------------------
(* The visible tools are tools.                                            *)
LEMMA VisibleType ==
    ASSUME RegistryTypeOK, NEW n \in Names
    PROVE  Visible(n) \subseteq {t \in Tools : NameOf[t] = n}
BY DEF RegistryTypeOK, Visible

(* Storing a tool keeps the map of tools.                                  *)
LEMMA StoreType ==
    ASSUME RegistryTypeOK, NEW th \in Threads, NEW n \in Names, NEW v \in Tools \cup {NoTool},
           v # NoTool => NameOf[v] = n, Store(th, n, v)
    PROVE  /\ tools' \in [Names -> Tools \cup {NoTool}]
           /\ \A m \in Names : tools'[m] # NoTool => NameOf[tools'[m]] = m
           /\ touched' \in [Threads -> SUBSET Names]
           /\ since' \in [Threads -> SUBSET Names]
BY DEF RegistryTypeOK, Store

(* A map operation disturbs one name, and announces it. *)
LEMMA StoreEffect ==
    ASSUME RegistryTypeOK, NEW th \in Threads, NEW n \in Names, NEW v \in Tools \cup {NoTool},
           Store(th, n, v)
    PROVE  /\ InFlight \subseteq InFlight'
           /\ n \in InFlight'
           /\ \A m \in Names \ {n} : Visible(m)' = Visible(m)
<1>1. /\ \A other \in Threads : touched[other] \subseteq touched'[other]
      /\ n \in touched'[th]
  BY DEF RegistryTypeOK, Store
<1>2. \A m \in Names \ {n} : tools'[m] = tools[m]
  BY DEF RegistryTypeOK, Store
<1>3. \A m \in Names \ {n} : Visible(m)' = Visible(m)
  BY <1>2 DEF Store, Visible, IsToolAllowed
<1> QED
  BY <1>1, <1>3 DEF InFlight

(* Whoever leaves the cache and the rebuilds alone, and announces every    *)
(* name whose visibility it changes, keeps them honest.                    *)
LEMMA MutatorStep ==
    ASSUME CacheHonest, RebuildHonest,
           InFlight \subseteq InFlight',
           \A n \in Names : n \in InFlight' \/ Visible(n)' = Visible(n),
           cached' = cached, specs' = specs,
           \A th \in Threads : pc'[th] = "rebuilding" =>
               /\ pc[th] = "rebuilding"
               /\ scan'[th] = scan[th] /\ built'[th] = built[th]
    PROVE  CacheHonest' /\ RebuildHonest'
<1>1. CacheHonest'
  BY DEF CacheHonest, Part
<1>2. RebuildHonest'
  <2> SUFFICES ASSUME NEW th \in Threads, pc'[th] = "rebuilding", NEW n \in Names
               PROVE  IF n \in scan'[th] THEN Part(built'[th], n) = {}
                      ELSE n \in InFlight' \/ Part(built'[th], n) = Visible(n)'
    BY DEF RebuildHonest, Part
  <2> QED
    BY DEF RebuildHonest
<1> QED
  BY <1>1, <1>2

-----------------------------------------------------------------------------
(* The registry starts empty.                                              *)
LEMMA TypeInit == RegistryInit => RegistryTypeOK
BY DEF RegistryInit, RegistryTypeOK, PCs

(* A step keeps the variables in their types.                              *)
LEMMA TypeStep == RegistryTypeOK /\ [RegistryNext]_registryVars => RegistryTypeOK'
<1> SUFFICES ASSUME RegistryTypeOK, [RegistryNext]_registryVars PROVE RegistryTypeOK'
  OBVIOUS
<1>1. CASE UNCHANGED registryVars
  BY <1>1 DEF RegistryTypeOK, registryVars, map, cache, locals
<1>2. ASSUME NEW th \in Threads, NEW t \in Tools,
             RegisterOrReplace(th, t) \/ Register(th, t)
      PROVE  RegistryTypeOK'
  <2>1. Store(th, NameOf[t], t) /\ NameOf[t] \in Names
    BY <1>2 DEF RegisterOrReplace, Register
  <2>2. UNCHANGED <<cache, locals>> /\ Go(th, "invalidate")
    BY <1>2 DEF RegisterOrReplace, Register
  <2> QED
    BY <2>1, <2>2, StoreType DEF RegistryTypeOK, Store, Go, PCs, cache, locals
<1>3. ASSUME NEW th \in Threads, NEW t \in Tools, AddNext(th, t)
      PROVE  RegistryTypeOK'
  <2>1. CASE Store(th, NameOf[t], t)
    BY <1>3, <2>1, StoreType DEF RegistryTypeOK, AddNext, Store, cache
  <2>2. CASE UNCHANGED <<map, touched, since>>
    BY <1>3, <2>2 DEF RegistryTypeOK, AddNext, cache, map
  <2> QED
    BY <1>3, <2>1, <2>2 DEF AddNext
<1>4. ASSUME NEW th \in Threads, NEW batch \in SUBSET Tools, RegisterAll(th, batch)
      PROVE  RegistryTypeOK'
  BY <1>4 DEF RegistryTypeOK, RegisterAll, Go, PCs, cache, map
<1>5. ASSUME NEW th \in Threads, NEW n \in Names, UnregisterName(th, n) \/ RemoveKey(th, n)
      PROVE  RegistryTypeOK'
  <2>1. Store(th, n, NoTool)
    BY <1>5 DEF UnregisterName, RemoveKey
  <2>2. CASE UnregisterName(th, n)
    BY <2>1, <2>2, StoreType DEF RegistryTypeOK, UnregisterName, Store, Go, PCs, cache, locals
  <2>3. CASE RemoveKey(th, n)
    BY <2>1, <2>3, StoreType DEF RegistryTypeOK, RemoveKey, Store, cache
  <2> QED
    BY <1>5, <2>2, <2>3
<1>6. ASSUME NEW th \in Threads, NEW n \in Names, CollectKey(th, n)
      PROVE  RegistryTypeOK'
  BY <1>6 DEF RegistryTypeOK, CollectKey, cache, map
<1>7. ASSUME NEW th \in Threads, NEW n \in Names, Visit(th, n)
      PROVE  RegistryTypeOK'
  BY <1>7, VisibleType DEF RegistryTypeOK, Visit, cache, map
<1>8. ASSUME NEW th \in Threads, NEW s \in Sources, UnregisterBySource(th, s)
      PROVE  RegistryTypeOK'
  BY <1>8 DEF RegistryTypeOK, UnregisterBySource, Go, PCs, cache, map
<1>9. ASSUME NEW th \in Threads, NEW allow \in SUBSET Patterns, NEW deny \in SUBSET Patterns,
             UpdateFilters(th, allow, deny)
      PROVE  RegistryTypeOK'
  BY <1>9 DEF RegistryTypeOK, UpdateFilters, Go, PCs, cache
<1>10. ASSUME NEW th \in Threads, AddDone(th) \/ Removed(th) \/ Miss(th)
       PROVE  RegistryTypeOK'
  BY <1>10 DEF RegistryTypeOK, AddDone, Removed, Miss, Go, PCs, cache, map, locals
<1>11. ASSUME NEW th \in Threads, Collected(th)
       PROVE  RegistryTypeOK'
  BY <1>11 DEF RegistryTypeOK, Collected, Go, PCs, cache, map, locals
<1>12. ASSUME NEW th \in Threads, UpdateDenied(th)
       PROVE  RegistryTypeOK'
  BY <1>12 DEF RegistryTypeOK, UpdateDenied, Go, PCs, cache
<1>13. ASSUME NEW th \in Threads, Invalidate(th)
       PROVE  RegistryTypeOK'
  BY <1>13 DEF RegistryTypeOK, Invalidate, Go, PCs, map, locals
<1>14. ASSUME NEW th \in Threads, Rebuild(th)
       PROVE  RegistryTypeOK'
  BY <1>14 DEF RegistryTypeOK, Rebuild, Go, PCs, map
<1>15. ASSUME NEW th \in Threads, Publish(th)
       PROVE  RegistryTypeOK'
  BY <1>15 DEF RegistryTypeOK, Publish, Go, PCs, map
<1> QED
  BY <1>1, <1>2, <1>3, <1>4, <1>5, <1>6, <1>7, <1>8, <1>9, <1>10, <1>11, <1>12,
     <1>13, <1>14, <1>15 DEF RegistryNext

(* The registry's map, filters and cache always hold what their types say, *)
(* and a tool is always under its own name (tool_registry.rs:16-21).       *)
THEOREM RegistryTypeCorrect == RegistrySpec => []RegistryTypeOK
BY TypeInit, TypeStep, PTL DEF RegistrySpec

-----------------------------------------------------------------------------
Inv == RegistryTypeOK /\ BuilderLocks /\ DenyingAll /\ CacheHonest /\ RebuildHonest

(* No cache has been built yet.                                            *)
LEMMA HonestInit == RegistryInit => Inv
BY TypeInit DEF RegistryInit, Inv, BuilderLocks, DenyingAll, CacheHonest, RebuildHonest

(* Nobody else takes the lock while a rebuild holds it. *)
LEMMA LocksStep == Inv /\ [RegistryNext]_registryVars => BuilderLocks' /\ DenyingAll'
<1> SUFFICES ASSUME Inv, [RegistryNext]_registryVars PROVE BuilderLocks' /\ DenyingAll'
  OBVIOUS
<1> USE DEF Inv, RegistryTypeOK, BuilderLocks, DenyingAll
<1>1. CASE UNCHANGED registryVars
  BY <1>1 DEF registryVars, cache, locals
<1>2. ASSUME NEW th \in Threads, NEW t \in Tools,
             RegisterOrReplace(th, t) \/ Register(th, t) \/ AddNext(th, t)
      PROVE  BuilderLocks' /\ DenyingAll'
  BY <1>2 DEF RegisterOrReplace, Register, AddNext, Store, Go, cache
<1>3. ASSUME NEW th \in Threads, NEW n \in Names,
             UnregisterName(th, n) \/ RemoveKey(th, n) \/ CollectKey(th, n) \/ Visit(th, n)
      PROVE  BuilderLocks' /\ DenyingAll'
  BY <1>3 DEF UnregisterName, RemoveKey, CollectKey, Visit, Store, Go, cache
<1>4. ASSUME NEW th \in Threads, NEW s \in Sources, NEW batch \in SUBSET Tools,
             UnregisterBySource(th, s) \/ RegisterAll(th, batch)
      PROVE  BuilderLocks' /\ DenyingAll'
  BY <1>4 DEF UnregisterBySource, RegisterAll, Go, cache
<1>5. ASSUME NEW th \in Threads, NEW allow \in SUBSET Patterns, NEW deny \in SUBSET Patterns,
             UpdateFilters(th, allow, deny)
      PROVE  BuilderLocks' /\ DenyingAll'
  BY <1>5 DEF UpdateFilters, Go, cache
<1>6. ASSUME NEW th \in Threads,
             AddDone(th) \/ Collected(th) \/ Removed(th) \/ UpdateDenied(th) \/ Miss(th)
      PROVE  BuilderLocks' /\ DenyingAll'
  BY <1>6 DEF AddDone, Collected, Removed, UpdateDenied, Miss, Go, cache
<1>7. ASSUME NEW th \in Threads, Invalidate(th) \/ Rebuild(th) \/ Publish(th)
      PROVE  BuilderLocks' /\ DenyingAll'
  BY <1>7 DEF Invalidate, Rebuild, Publish, Go
<1> QED
  BY <1>1, <1>2, <1>3, <1>4, <1>5, <1>6, <1>7 DEF RegistryNext

(* A cache that is marked valid is the one of the current tools.           *)
LEMMA HonestStep == Inv /\ [RegistryNext]_registryVars => CacheHonest' /\ RebuildHonest'
<1> SUFFICES ASSUME Inv, [RegistryNext]_registryVars PROVE CacheHonest' /\ RebuildHonest'
  OBVIOUS
<1> USE DEF Inv
<1>1. CASE UNCHANGED registryVars
  BY <1>1 DEF registryVars, map, cache, locals, CacheHonest, RebuildHonest, InFlight, Part,
              Visible, IsToolAllowed
<1>2. ASSUME NEW th \in Threads, NEW n \in Names, NEW v \in Tools \cup {NoTool},
             Store(th, n, v), UNCHANGED <<cache, scan, built>>,
             \A other \in Threads : pc'[other] = "rebuilding" => pc[other] = "rebuilding"
      PROVE  CacheHonest' /\ RebuildHonest'
  BY <1>2, StoreEffect, MutatorStep DEF cache
<1>3. ASSUME NEW th \in Threads, NEW t \in Tools,
             RegisterOrReplace(th, t) \/ Register(th, t)
      PROVE  CacheHonest' /\ RebuildHonest'
  BY <1>2, <1>3 DEF RegisterOrReplace, Register, Go, locals, RegistryTypeOK
<1>4. ASSUME \A other \in Threads : touched'[other] = touched[other],
             UNCHANGED <<map, cache>>,
             \A other \in Threads : pc'[other] = "rebuilding" =>
                 /\ pc[other] = "rebuilding"
                 /\ scan'[other] = scan[other] /\ built'[other] = built[other]
      PROVE  CacheHonest' /\ RebuildHonest'
  <2>1. InFlight' = InFlight
    BY <1>4 DEF InFlight
  <2>2. \A n \in Names : Visible(n)' = Visible(n)
    BY <1>4 DEF Visible, IsToolAllowed, map
  <2> QED
    BY <1>4, <2>1, <2>2, MutatorStep DEF cache
<1>5. ASSUME NEW th \in Threads, NEW t \in Tools, AddNext(th, t)
      PROVE  CacheHonest' /\ RebuildHonest'
  <2>1. CASE Store(th, NameOf[t], t)
    BY <1>2, <1>5, <2>1 DEF AddNext
  <2>2. CASE UNCHANGED <<map, touched, since>>
    BY <1>4, <1>5, <2>2 DEF AddNext
  <2> QED
    BY <1>5, <2>1, <2>2 DEF AddNext
<1>6. ASSUME NEW th \in Threads, NEW n \in Names, UnregisterName(th, n) \/ RemoveKey(th, n)
      PROVE  CacheHonest' /\ RebuildHonest'
  BY <1>2, <1>6 DEF UnregisterName, RemoveKey, Go, locals, RegistryTypeOK
<1>7. ASSUME NEW th \in Threads, NEW n \in Names, CollectKey(th, n)
      PROVE  CacheHonest' /\ RebuildHonest'
  BY <1>4, <1>7 DEF CollectKey, RegistryTypeOK
<1>8. ASSUME NEW th \in Threads, NEW s \in Sources, NEW batch \in SUBSET Tools,
             UnregisterBySource(th, s) \/ RegisterAll(th, batch)
      PROVE  CacheHonest' /\ RebuildHonest'
  BY <1>4, <1>8 DEF UnregisterBySource, RegisterAll, Go, RegistryTypeOK
<1>9. ASSUME NEW th \in Threads,
             AddDone(th) \/ Collected(th) \/ Removed(th) \/ Miss(th)
      PROVE  CacheHonest' /\ RebuildHonest'
  BY <1>4, <1>9 DEF AddDone, Collected, Removed, Miss, Go, locals, RegistryTypeOK
<1>10. ASSUME NEW th \in Threads, NEW allow \in SUBSET Patterns, NEW deny \in SUBSET Patterns,
              UpdateFilters(th, allow, deny) \/ UpdateDenied(th)
       PROVE  CacheHonest' /\ RebuildHonest'
  <2>1. touched'[th] = Names /\ InFlight \subseteq InFlight'
    BY <1>10 DEF UpdateFilters, UpdateDenied, DenyingAll, RegistryTypeOK, InFlight
  <2>2. \A n \in Names : n \in InFlight'
    BY <2>1 DEF InFlight
  <2>3. \A other \in Threads : pc'[other] = "rebuilding" =>
            /\ pc[other] = "rebuilding"
            /\ scan'[other] = scan[other] /\ built'[other] = built[other]
    BY <1>10 DEF UpdateFilters, UpdateDenied, Go, RegistryTypeOK
  <2> QED
    BY <1>10, <2>1, <2>2, <2>3, MutatorStep DEF UpdateFilters, UpdateDenied, cache
<1>11. ASSUME NEW th \in Threads, Invalidate(th)
       PROVE  CacheHonest' /\ RebuildHonest'
  <2>1. \A other \in Threads : pc'[other] # "rebuilding"
    BY <1>11 DEF Invalidate, BuilderLocks, Go, RegistryTypeOK
  <2> QED
    BY <1>11, <2>1 DEF Invalidate, CacheHonest, RebuildHonest
<1>12. ASSUME NEW th \in Threads, Rebuild(th)
       PROVE  CacheHonest' /\ RebuildHonest'
  <2>1. UNCHANGED <<map, touched, cached, specs>>
    BY <1>12 DEF Rebuild
  <2>2. InFlight' = InFlight /\ \A n \in Names : Visible(n)' = Visible(n)
    BY <2>1 DEF InFlight, Visible, IsToolAllowed, map
  <2>3. CacheHonest'
    BY <2>1, <2>2 DEF CacheHonest
  <2>4. ASSUME NEW other \in Threads, pc'[other] = "rebuilding"
        PROVE  other = th /\ scan'[other] = Names /\ built'[other] = {}
    BY <1>12, <2>4 DEF Rebuild, BuilderLocks, Go, RegistryTypeOK
  <2> QED
    BY <2>3, <2>4 DEF RebuildHonest, Part
<1>13. ASSUME NEW th \in Threads, NEW n \in Names, Visit(th, n)
       PROVE  CacheHonest' /\ RebuildHonest'
  <2>1. UNCHANGED <<map, touched, cached, specs, pc>>
    BY <1>13 DEF Visit, cache
  <2>2. InFlight' = InFlight /\ \A m \in Names : Visible(m)' = Visible(m)
    BY <2>1 DEF InFlight, Visible, IsToolAllowed, map
  <2>3. CacheHonest'
    BY <2>1, <2>2 DEF CacheHonest
  <2>4. ASSUME NEW m \in Names
        PROVE  Part(built'[th], m) =
                  IF m = n THEN Part(built[th], n) \cup Visible(n) ELSE Part(built[th], m)
    BY <1>13, VisibleType DEF Visit, Part, RegistryTypeOK
  <2>5. scan'[th] = scan[th] \ {n}
    BY <1>13 DEF Visit, RegistryTypeOK
  <2>6. \A other \in Threads : other # th =>
            scan'[other] = scan[other] /\ built'[other] = built[other]
    BY <1>13 DEF Visit, RegistryTypeOK
  <2>7. Part(built[th], n) = {}
    BY <1>13 DEF Visit, RebuildHonest
  <2>8. ASSUME NEW other \in Threads, pc[other] = "rebuilding", NEW m \in Names
        PROVE  IF m \in scan'[other] THEN Part(built'[other], m) = {}
               ELSE m \in InFlight \/ Part(built'[other], m) = Visible(m)
    <3>1. CASE other = th /\ m = n
      BY <3>1, <2>4, <2>5, <2>7
    <3>2. CASE other = th /\ m # n
      BY <3>2, <2>4, <2>5, <2>8 DEF RebuildHonest
    <3>3. CASE other # th
      BY <3>3, <2>6, <2>8 DEF RebuildHonest
    <3> QED
      BY <3>1, <3>2, <3>3
  <2>9. RebuildHonest'
    BY <2>1, <2>2, <2>8 DEF RebuildHonest, Part
  <2> QED
    BY <2>3, <2>9
<1>14. ASSUME NEW th \in Threads, Publish(th)
       PROVE  CacheHonest' /\ RebuildHonest'
  <2>1. UNCHANGED <<map, touched>> /\ specs' = built[th] /\ scan[th] = {}
    BY <1>14 DEF Publish
  <2>2. InFlight' = InFlight /\ \A n \in Names : Visible(n)' = Visible(n)
    BY <2>1 DEF InFlight, Visible, IsToolAllowed, map
  <2>3. \A n \in Names : n \in InFlight \/ Part(built[th], n) = Visible(n)
    BY <1>14, <2>1 DEF Publish, RebuildHonest
  <2>4. CacheHonest'
    BY <2>1, <2>2, <2>3 DEF CacheHonest, Part
  <2>5. \A other \in Threads : pc'[other] # "rebuilding"
    BY <1>14 DEF Publish, BuilderLocks, Go, RegistryTypeOK
  <2> QED
    BY <2>4, <2>5 DEF RebuildHonest
<1> QED
  BY <1>1, <1>3, <1>5, <1>6, <1>7, <1>8, <1>9, <1>10, <1>11, <1>12, <1>13, <1>14 DEF RegistryNext

(* What tool_specs caches is stale about a name only while the mutator     *)
(* that changed it has not returned (tool_registry.rs:256-270).            *)
THEOREM CacheNeverStale == RegistrySpec => []CacheHonest
<1>1. RegistryInit => Inv
  BY HonestInit
<1>2. Inv /\ [RegistryNext]_registryVars => Inv'
  BY TypeStep, LocksStep, HonestStep DEF Inv
<1>3. Inv => CacheHonest
  BY DEF Inv
<1> QED
  BY <1>1, <1>2, <1>3, PTL DEF RegistrySpec

-----------------------------------------------------------------------------
(* Bulk removal. *)

RemovalInv == RegistryTypeOK /\ Collects /\ KeysScanned

(* What a thread that is not removing does to the map is either nothing or *)
(* a Store that every removal under way takes note of.                     *)
LEMMA OthersNoted ==
    ASSUME RegistryTypeOK, Collects, NEW th \in Threads, NEW n \in Names,
           NEW v \in Tools \cup {NoTool}, Store(th, n, v),
           NEW other \in Threads, other # th,
           pc[other] \in {"collecting", "removing"}, pc'[other] = pc[other],
           UNCHANGED <<scan, source>>, doomed'[other] = doomed[other], NEW m \in Names
    PROVE  \/ m \in since'[other]
           \/ pc'[other] = "collecting" /\ m \in scan'[other]
           \/ m \in doomed'[other] /\ Has(m, source[other])'
           \/ m \notin doomed'[other] /\ ~Has(m, source[other])'
<1>1. since'[other] = since[other] \cup {n}
  BY DEF Store, RegistryTypeOK
<1>2. CASE m = n
  BY <1>1, <1>2
<1>3. CASE m # n
  <2>1. tools'[m] = tools[m]
    BY <1>3 DEF Store, RegistryTypeOK
  <2> QED
    BY <1>1, <2>1 DEF Collects, Has
<1> QED
  BY <1>2, <1>3

(* A removal has collected its source's names among those it scanned, or   *)
(* knows the others changed since.                                         *)
LEMMA CollectsStep == RemovalInv /\ [RegistryNext]_registryVars => Collects' /\ KeysScanned'
<1> SUFFICES ASSUME RemovalInv, [RegistryNext]_registryVars PROVE Collects' /\ KeysScanned'
  OBVIOUS
<1> USE DEF RemovalInv
<1>1. CASE UNCHANGED registryVars
  BY <1>1 DEF registryVars, map, locals, Collects, KeysScanned, Has
<1>2. ASSUME NEW th \in Threads, NEW n \in Names, NEW v \in Tools \cup {NoTool},
             Store(th, n, v), UNCHANGED <<scan, source>>,
             pc'[th] \notin {"collecting", "removing"},
             \A other \in Threads : doomed'[other] = doomed[other]
                                   /\ (other # th => pc'[other] = pc[other])
      PROVE  Collects' /\ KeysScanned'
  BY <1>2, OthersNoted DEF Collects, KeysScanned
<1>3. ASSUME NEW th \in Threads, NEW t \in Tools,
             RegisterOrReplace(th, t) \/ Register(th, t)
      PROVE  Collects' /\ KeysScanned'
  <2>1. NameOf[t] \in Names /\ Store(th, NameOf[t], t)
    BY <1>3 DEF RegisterOrReplace, Register
  <2>2. pc'[th] = "invalidate" /\ \A other \in Threads : other # th => pc'[other] = pc[other]
    BY <1>3 DEF RegisterOrReplace, Register, Go, RegistryTypeOK
  <2> QED
    BY <1>2, <1>3, <2>1, <2>2 DEF RegisterOrReplace, Register, locals
<1>4. ASSUME NEW th \in Threads, NEW n \in Names, UnregisterName(th, n)
      PROVE  Collects' /\ KeysScanned'
  <2>1. pc'[th] = "invalidate" /\ \A other \in Threads : other # th => pc'[other] = pc[other]
    BY <1>4 DEF UnregisterName, Go, RegistryTypeOK
  <2> QED
    BY <1>2, <1>4, <2>1 DEF UnregisterName, locals
(* Steps that neither change the map nor make or advance a removal. *)
<1>5. ASSUME UNCHANGED <<tools, source, doomed>>,
             \A other \in Threads : pc'[other] \in {"collecting", "removing"} =>
                 /\ pc'[other] = pc[other]
                 /\ scan'[other] = scan[other] /\ since'[other] = since[other]
      PROVE  Collects' /\ KeysScanned'
  BY <1>5 DEF Collects, KeysScanned, Has
<1>6. ASSUME NEW th \in Threads, NEW t \in Tools, AddNext(th, t)
      PROVE  Collects' /\ KeysScanned'
  <2>1. CASE Store(th, NameOf[t], t)
    <3>1. NameOf[t] \in Names
      OBVIOUS
    <3> QED
      BY <1>2, <1>6, <2>1, <3>1 DEF AddNext
  <2>2. CASE UNCHANGED <<map, touched, since>>
    BY <1>5, <1>6, <2>2 DEF AddNext, map
  <2> QED
    BY <1>6, <2>1, <2>2 DEF AddNext
<1>7. ASSUME NEW th \in Threads, NEW batch \in SUBSET Tools, RegisterAll(th, batch)
      PROVE  Collects' /\ KeysScanned'
  BY <1>5, <1>7 DEF RegisterAll, Go, RegistryTypeOK, map
<1>8. ASSUME NEW th \in Threads, NEW allow \in SUBSET Patterns, NEW deny \in SUBSET Patterns,
             UpdateFilters(th, allow, deny) \/ UpdateDenied(th)
      PROVE  Collects' /\ KeysScanned'
  BY <1>5, <1>8 DEF UpdateFilters, UpdateDenied, Go, RegistryTypeOK
<1>9. ASSUME NEW th \in Threads, AddDone(th) \/ Removed(th) \/ Miss(th)
      PROVE  Collects' /\ KeysScanned'
  BY <1>5, <1>9 DEF AddDone, Removed, Miss, Go, RegistryTypeOK, map, locals
<1>10. ASSUME NEW th \in Threads, Invalidate(th) \/ Publish(th)
       PROVE  Collects' /\ KeysScanned'
  BY <1>5, <1>10 DEF Invalidate, Publish, Go, RegistryTypeOK, map, locals
<1>11. ASSUME NEW th \in Threads, Rebuild(th)
       PROVE  Collects' /\ KeysScanned'
  BY <1>5, <1>11 DEF Rebuild, Go, RegistryTypeOK, map
<1>12. ASSUME NEW th \in Threads, NEW n \in Names, Visit(th, n)
       PROVE  Collects' /\ KeysScanned'
  BY <1>5, <1>12 DEF Visit, RegistryTypeOK, map
<1>13. ASSUME NEW th \in Threads, NEW s \in Sources, UnregisterBySource(th, s)
       PROVE  Collects' /\ KeysScanned'
  <2>1. UNCHANGED tools /\ scan'[th] = Names /\ doomed'[th] = {} /\ pc'[th] = "collecting"
    BY <1>13 DEF UnregisterBySource, Go, RegistryTypeOK, map
  <2>2. \A other \in Threads : other # th =>
            /\ pc'[other] = pc[other] /\ scan'[other] = scan[other]
            /\ doomed'[other] = doomed[other] /\ source'[other] = source[other]
            /\ since'[other] = since[other]
    BY <1>13 DEF UnregisterBySource, Go, RegistryTypeOK
  <2> QED
    BY <2>1, <2>2 DEF Collects, KeysScanned, Has
<1>14. ASSUME NEW th \in Threads, NEW n \in Names, CollectKey(th, n)
       PROVE  Collects' /\ KeysScanned'
  <2>1. /\ UNCHANGED <<tools, source, since, pc>>
        /\ pc[th] = "collecting" /\ n \in scan[th]
        /\ scan'[th] = scan[th] \ {n}
        /\ doomed'[th] = IF Has(n, source[th]) THEN doomed[th] \cup {n} ELSE doomed[th]
    BY <1>14 DEF CollectKey, RegistryTypeOK, map
  <2>2. \A other \in Threads : other # th =>
            scan'[other] = scan[other] /\ doomed'[other] = doomed[other]
    BY <1>14 DEF CollectKey, RegistryTypeOK
  <2>3. n \notin doomed[th]
    BY <2>1 DEF KeysScanned
  <2>4. KeysScanned'
    BY <2>1, <2>2 DEF KeysScanned
  <2>5. \A m \in Names, s \in Sources : Has(m, s)' <=> Has(m, s)
    BY <2>1 DEF Has
  <2>6. ASSUME NEW other \in Threads, NEW m \in Names,
               pc[other] \in {"collecting", "removing"}
        PROVE  \/ m \in since[other]
               \/ pc[other] = "collecting" /\ m \in scan'[other]
               \/ m \in doomed'[other] /\ Has(m, source[other])
               \/ m \notin doomed'[other] /\ ~Has(m, source[other])
    <3>1. CASE other # th \/ m # n
      BY <2>1, <2>2, <2>6, <3>1 DEF Collects
    <3>2. CASE other = th /\ m = n
      BY <2>1, <2>3, <3>2
    <3> QED
      BY <3>1, <3>2
  <2>7. Collects'
    BY <2>1, <2>6 DEF Collects, Has
  <2> QED
    BY <2>4, <2>7
<1>15. ASSUME NEW th \in Threads, Collected(th)
       PROVE  Collects' /\ KeysScanned'
  <2>1. UNCHANGED <<tools, source, doomed, scan>> /\ scan[th] = {}
    BY <1>15 DEF Collected, map, locals
  <2>2. pc'[th] = IF doomed[th] = {} THEN "idle" ELSE "removing"
    BY <1>15 DEF Collected, Go, RegistryTypeOK
  <2>3. /\ pc[th] = "collecting"
        /\ doomed[th] # {} => since' = since
        /\ \A other \in Threads : other # th =>
               pc'[other] = pc[other] /\ since'[other] = since[other]
    BY <1>15 DEF Collected, Go, RegistryTypeOK
  <2> QED
    BY <2>1, <2>2, <2>3 DEF Collects, KeysScanned, Has
<1>16. ASSUME NEW th \in Threads, NEW n \in Names, RemoveKey(th, n)
       PROVE  Collects' /\ KeysScanned'
  <2>1. /\ UNCHANGED <<scan, source, pc>> /\ Store(th, n, NoTool)
        /\ pc[th] = "removing" /\ n \in doomed[th]
        /\ doomed'[th] = doomed[th] \ {n}
        /\ \A other \in Threads : other # th => doomed'[other] = doomed[other]
    BY <1>16 DEF RemoveKey, RegistryTypeOK
  <2>2. since'[th] = since[th] /\ tools'[n] = NoTool
        /\ \A m \in Names : m # n => tools'[m] = tools[m]
    BY <2>1 DEF Store, RegistryTypeOK
  <2>3. KeysScanned'
    BY <2>1 DEF KeysScanned
  <2>4. ASSUME NEW m \in Names
        PROVE  \/ m \in since'[th]
               \/ m \in doomed'[th] /\ Has(m, source[th])'
               \/ m \notin doomed'[th] /\ ~Has(m, source[th])'
    <3>1. CASE m = n
      BY <2>1, <2>2, <3>1 DEF Has
    <3>2. CASE m # n
      BY <2>1, <2>2, <3>2 DEF Has, Collects
    <3> QED
      BY <3>1, <3>2
  <2>5. Collects'
    BY <2>1, <2>4, OthersNoted DEF Collects
  <2> QED
    BY <2>3, <2>5
<1> QED
  BY <1>1, <1>3, <1>4, <1>6, <1>7, <1>8, <1>9, <1>10, <1>11, <1>12, <1>13, <1>14,
     <1>15, <1>16 DEF RegistryNext

(* The invariant of removals holds of every state.                         *)
LEMMA RemovalInvariant == RegistrySpec => []RemovalInv
<1>1. RegistryInit => RemovalInv
  BY TypeInit DEF RegistryInit, RemovalInv, Collects, KeysScanned
<1>2. RemovalInv /\ [RegistryNext]_registryVars => RemovalInv'
  BY TypeStep, CollectsStep DEF RemovalInv
<1> QED
  BY <1>1, <1>2, PTL DEF RegistrySpec

(* unregister_by_source leaves no tool of its source behind, but under a   *)
(* name somebody else changed meanwhile (tool_registry.rs:169-185).        *)
THEOREM BulkRemovalComplete == RegistrySpec => []RemovesAllOwn
<1>1. RemovalInv => RemovesAllOwn
  BY DEF RemovalInv, Collects, RemovesAllOwn, Has
<1> QED
  BY <1>1, RemovalInvariant, PTL

(* It removes no other source's tool, but under such a name.               *)
THEOREM BulkRemovalExact == RegistrySpec => RemovesOnlyOwn
<1>1. ASSUME RemovalInv, NEW th \in Threads, NEW n \in Names, RemoveKey(th, n)
      PROVE  tools[n] = NoTool \/ Has(n, source[th]) \/ n \in since[th]
  BY <1>1 DEF RemovalInv, Collects, RemoveKey
<1>2. RemovalInv /\ [RegistryNext]_registryVars =>
        [\A th \in Threads, n \in Names :
            RemoveKey(th, n) => tools[n] = NoTool \/ Has(n, source[th]) \/ n \in since[th]]_registryVars
  BY <1>1
<1> QED
  BY <1>2, RemovalInvariant, PTL DEF RegistrySpec, RemovesOnlyOwn
=============================================================================
