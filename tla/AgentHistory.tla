----------------------------- MODULE AgentHistory -----------------------------
(***************************************************************************)
(* What an agent keeps of its conversation for the next request: the       *)
(* history of crates/clawseed-agent/src/agent/state.rs, grown by the loop  *)
(* of agent/turn.rs, cut by trim_history or shortened by                   *)
(* maybe_compact_context, and made again from the stored rows when a       *)
(* connection opens (seed_history, ws.rs).                                 *)
(*                                                                         *)
(* A compaction replaces the beginning of the history by a summary and     *)
(* remembers how many stored messages that stands for: a count, by which a *)
(* new connection skips rows it has never compared with the summary.       *)
(* Whether the trigger is reached, how much of the tail fits the budget    *)
(* and whether the provider's summary comes are free choices.              *)
(*                                                                         *)
(* One connection at a time writes the session (Conversation has the       *)
(* others).  The system message, always first and always kept, is left out.*)
(***************************************************************************)
EXTENDS Naturals, FiniteSets, Sequences, SequencesExt

CONSTANTS
    MaxTurns,      \* bound
    MaxIterations, \* max_tool_iterations
    KeepTurns,     \* compaction_keep_recent_turns
    NativeTools    \* tool results are no chat messages

ASSUME AgentHistoryAssumption ==
    /\ MaxTurns \in Nat /\ MaxIterations \in Nat \ {0} /\ KeepTurns \in Nat \ {0}
    /\ NativeTools \in BOOLEAN

VARIABLES
    mode,     \* which of the two bounds the history: "compact" or "trim"
    history,  \* the agent's
    folded,   \* context_compaction: its count and, as a ghost, what the summary tells
    rows,     \* the stored messages
    saved,    \* the stored compaction
    stage,    \* of the connection and its turn
    number,   \* of the turn
    round,    \* iterations of the tool loop
    partial,  \* partial_saved
    turns,    \* turns so far
    clean     \* ghost: every turn so far ended well

histVars == <<mode, history, folded, rows, saved, stage, number, round, partial, turns, clean>>

Entry == [role : {"user", "assistant", "part", "calls", "results"}, turn : 1 .. MaxTurns]
Summary == [role |-> "summary", turn |-> 0]
NoCompaction == [count |-> 0, tells |-> {}]

HistTypeOK ==
    /\ mode \in {"compact", "trim"}
    /\ history \in Seq(Entry \cup {Summary})
    /\ rows \in Seq(Entry)
    /\ folded.count \in Nat /\ saved.count \in Nat
    /\ folded.tells \subseteq Entry /\ saved.tells \subseteq Entry
    /\ stage \in {"off", "idle", "start", "top", "asked"}
    /\ number \in 0 .. MaxTurns /\ turns \in 0 .. MaxTurns
    /\ round \in 0 .. MaxIterations
    /\ partial \in BOOLEAN /\ clean \in BOOLEAN
    /\ mode = "trim" => folded = NoCompaction

HistInit ==
    /\ mode \in {"compact", "trim"}
    /\ history = <<>> /\ rows = <<>>
    /\ folded = NoCompaction /\ saved = NoCompaction
    /\ stage = "off" /\ number = 0 /\ round = 0
    /\ partial = FALSE /\ turns = 0 /\ clean = TRUE

-----------------------------------------------------------------------------
(* trim_history. *)

Message(role, t) == [role |-> role, turn |-> t]

Room == 4 * MaxIterations

(* Mutant: the cut may come between calls and their results. *)
TrimmedAnywhere(h) ==
    IF mode = "compact" \/ Len(h) <= Room THEN h
    ELSE SubSeq(h, Len(h) - Room + 1, Len(h))

(* The oldest entries go, and tool results whose calls went with them. *)
Trimmed(h) ==
    IF mode = "compact" \/ Len(h) <= Room THEN h
    ELSE LET cut == CHOOSE n \in Len(h) - Room .. Len(h) :
                 /\ \A m \in Len(h) - Room .. n - 1 : h[m + 1].role = "results"
                 /\ n < Len(h) => h[n + 1].role # "results"
         IN SubSeq(h, cut + 1, Len(h))

-----------------------------------------------------------------------------
(* maybe_compact_context. *)

Items(h) == {i \in DOMAIN h : h[i] # Summary}

(* What chat.role = "user" holds of: with the XML dispatcher a result, too. *)
IsQuestion(e) == e.role = "user" \/ (~NativeTools /\ e.role = "results")

Questions(h) == {i \in Items(h) : IsQuestion(h[i])}

(* The KeepTurns-th question from the end, or the first item. *)
KeptFrom(h) ==
    IF Cardinality(Questions(h)) < KeepTurns THEN Min(Items(h))
    ELSE CHOOSE i \in Questions(h) : Cardinality({j \in Questions(h) : j >= i}) = KeepTurns

(* The question at or before i, or the first item. *)
TurnStart(h, i) ==
    Max({j \in Items(h) : j <= i /\ (IsQuestion(h[j]) \/ j = Min(Items(h)))})

(* Mutant: the fallback keeps one turn less. *)
BoundariesOff(h) ==
    IF Cardinality(Items(h)) <= 1 THEN {}
    ELSE LET first == Min(Items(h))
             starts == {TurnStart(h, i) : i \in {j \in Items(h) : j <= KeptFrom(h)}}
         IN {IF s > first THEN s ELSE Len(h) : s \in starts} \ {first}

(* Where the raw tail may begin: the budget decides how far before the     *)
(* turns that are kept in any case it reaches, and a budget that holds all *)
(* of it still gives way.                                                  *)
Boundaries(h) ==
    IF Cardinality(Items(h)) <= 1 THEN {}
    ELSE LET first == Min(Items(h))
             starts == {TurnStart(h, i) : i \in {j \in Items(h) : j <= KeptFrom(h)}}
         IN {IF s > first THEN s ELSE KeptFrom(h) : s \in starts} \ {first}

(* Is it stored?  As the dispatcher has it: a chat message is. *)
Stored(e) == e.role \in {"user", "assistant", "part"} \/ IsQuestion(e)

(* Mutant: every item counts. *)
FoldedAll(h, n) ==
    [count |-> folded.count + Cardinality({i \in Items(h) : i < n}),
     tells |-> folded.tells \cup {h[i] : i \in {j \in Items(h) : j < n}}]

FoldedTo(h, n) ==
    [count |-> folded.count + Cardinality({i \in Items(h) : i < n /\ Stored(h[i])}),
     tells |-> folded.tells \cup {h[i] : i \in {j \in Items(h) : j < n}}]

(* The summary came; without one the history is left as it is. *)
Compact ==
    /\ mode = "compact"
    /\ \/ stage = "start" /\ stage' = "top"
       \/ stage = "top" /\ stage' = "asked"
    /\ \E n \in Boundaries(history) :
          /\ folded' = FoldedTo(history, n)
          /\ history' = <<Summary>> \o SubSeq(history, n, Len(history))
    /\ UNCHANGED <<mode, rows, saved, number, round, partial, turns, clean>>

NoCompact ==
    /\ \/ stage = "start" /\ stage' = "top"
       \/ stage = "top" /\ stage' = "asked"
    /\ UNCHANGED <<mode, history, folded, rows, saved, number, round, partial, turns, clean>>

-----------------------------------------------------------------------------
(* The connection. *)

(* Mutant: the rows the summary stands for come back with it. *)
SeededWhole(table, c) ==
    IF c.count = 0 THEN table ELSE <<Summary>> \o table

(* seed_history: the newest row is never skipped. *)
Seeded(table, c) ==
    IF c.count = 0 THEN table
    ELSE LET skip == IF c.count < Len(table) THEN c.count ELSE Len(table) - 1
         IN <<Summary>> \o SubSeq(table, skip + 1, Len(table))

Connect ==
    /\ stage = "off" /\ stage' = "idle"
    /\ folded' = IF rows = <<>> THEN NoCompaction ELSE saved
    /\ history' = IF rows = <<>> THEN <<>> ELSE Seeded(rows, saved)
    /\ UNCHANGED <<mode, rows, saved, number, round, partial, turns, clean>>

(* The agent goes with its connection: the client left, or the process     *)
(* died, in a turn or not.                                                 *)
Gone ==
    /\ stage # "off" /\ stage' = "off"
    /\ history' = <<>> /\ folded' = NoCompaction
    /\ number' = 0 /\ round' = 0 /\ partial' = FALSE
    /\ clean' = (clean /\ stage = "idle")
    /\ UNCHANGED <<mode, rows, saved, turns>>

Begin(question, h) ==
    /\ turns < MaxTurns /\ turns' = turns + 1
    /\ stage = "idle" /\ stage' = "start"
    /\ number' = question.turn
    /\ history' = Append(h, question)
    /\ UNCHANGED <<mode, folded, saved, round, partial, clean>>

Ask ==
    /\ Begin(Message("user", turns + 1), history)
    /\ rows' = Append(rows, Message("user", turns + 1))

IsUserEntry(e) == e.role = "user" \/ e = Summary \/ IsQuestion(e)
IsUserRow(e) == e.role = "user"

(* remove_last_assistant_turn of the agent and of the table, then a turn   *)
(* for the same question.                                                  *)
Regenerate ==
    LET u == SelectLastInSeq(history, IsUserEntry)
        t == SelectLastInSeq(rows, IsUserRow)
    IN  /\ u # 0
        /\ Begin(history[u], SubSeq(history, 1, u - 1))
        /\ rows' = IF t = 0 THEN rows ELSE SubSeq(rows, 1, t)

(* The model answers with tool calls; they are run. *)
CallTools ==
    /\ stage = "asked" /\ round < MaxIterations
    /\ history' = Trimmed(history \o <<Message("calls", number), Message("results", number)>>)
    /\ round' = round + 1 /\ stage' = "top"
    /\ UNCHANGED <<mode, folded, rows, saved, number, partial, turns, clean>>

SavePartial ==
    /\ stage = "asked" /\ ~partial
    /\ partial' = TRUE
    /\ rows' = Append(rows, Message("part", number))
    /\ UNCHANGED <<mode, history, folded, saved, stage, number, round, turns, clean>>

(* The answer, or what there is of it, overwrites what was saved of it. *)
WithAnswer(role) == Append(IF partial THEN Front(rows) ELSE rows, Message(role, number))

Over == stage' = "idle" /\ number' = 0 /\ round' = 0 /\ partial' = FALSE

Answer ==
    /\ stage = "asked" /\ round < MaxIterations
    /\ history' = Trimmed(Append(history, Message("assistant", number)))
    /\ rows' = WithAnswer("assistant")
    /\ saved' = IF folded.count = 0 THEN saved ELSE folded
    /\ Over
    /\ UNCHANGED <<mode, folded, turns, clean>>

(* ToolLoopCancelled: the partial answer is stored, the history has none.  *)
Cancelled ==
    /\ stage \in {"top", "asked"} /\ round < MaxIterations
    /\ rows' = WithAnswer("part")
    /\ Over /\ clean' = FALSE
    /\ UNCHANGED <<mode, history, folded, saved, turns>>

(* The provider fails, or the iterations are used up. *)
Failed ==
    /\ stage = "asked" \/ (stage = "top" /\ round = MaxIterations)
    /\ Over /\ clean' = FALSE
    /\ UNCHANGED <<mode, history, folded, rows, saved, turns>>

HistNext ==
    \/ Connect \/ Gone \/ Ask \/ Regenerate
    \/ Compact \/ NoCompact \/ CallTools \/ SavePartial
    \/ Answer \/ Cancelled \/ Failed

HistSpec == HistInit /\ [][HistNext]_histVars

-----------------------------------------------------------------------------
(* The question a turn answers is in every request, word for word, however *)
(* often the history is cut or compacted on the way: state.rs:917, "while  *)
(* the current user request remains verbatim".                             *)
QuestionVerbatim ==
    stage \in {"start", "top", "asked"} =>
        \E i \in DOMAIN history : history[i] = Message("user", number)

(* Every tool result comes right after its calls, and no calls are without *)
(* results: providers refuse a history that breaks this.                   *)
Paired ==
    /\ \A i \in DOMAIN history : history[i].role = "results" =>
          i > 1 /\ history[i - 1] = Message("calls", history[i].turn)
    /\ \A i \in DOMAIN history : history[i].role = "calls" =>
          i < Len(history) /\ history[i + 1] = Message("results", history[i].turn)

(* A question or answer that a new connection would skip is told by the    *)
(* summary it loads.  An answer cut short the agent itself never saw.      *)
SkippedAreTold ==
    \A i \in DOMAIN rows : i <= saved.count /\ i < Len(rows) =>
        rows[i] \in saved.tells \/ rows[i].role = "part"

(* What a reconnect makes is what the agent has, tool traffic apart, as    *)
(* long as all turns ended well (history.rs:18, "to rebuild the same       *)
(* request view after a reconnect").                                       *)
SameView ==
    clean /\ stage = "idle" /\ mode = "compact" =>
        LET seen == {i \in DOMAIN history : history[i].role \notin {"calls", "results"}}
            made == Seeded(rows, saved)
        IN  /\ Cardinality(seen) = Len(made)
            /\ \A i \in seen : history[i] = made[Cardinality({j \in seen : j <= i})]
=============================================================================
