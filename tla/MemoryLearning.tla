---------------------------- MODULE MemoryLearning ----------------------------
(***************************************************************************)
(* Memories that agents store, change and learn at the same time           *)
(* (crates/clawseed-agent/src/knowledge_coordinator.rs, crates/clawseed-   *)
(* memory/src/{consolidation,conflict,sqlite}.rs and the memory_store,     *)
(* memory_update and memory_forget tools).                                 *)
(*                                                                         *)
(* After each good answer an agent submits the turn to its own bounded     *)
(* queue, which one worker per agent empties.  What is worth keeping gets  *)
(* a row under a fresh key, after the rows it contradicts are marked as    *)
(* superseded: they are recalled, and later stored again with a prefix.    *)
(* The tools of other turns change the same rows meanwhile, and a process  *)
(* that starts fills in missing embeddings.  Every SQL statement runs      *)
(* under the connection's mutex or the file's lock: one step.              *)
(*                                                                         *)
(* A content is the text's author and, once marked, the superseding key.   *)
(* All texts are about one subject; which of them a recall finds and the   *)
(* similarity calls a conflict is any choice.                              *)
(***************************************************************************)
EXTENDS Naturals, Sequences, FiniteSets, FiniteSetsExt, Functions

CONSTANTS
    Agents,      \* agents, each with its queue and worker
    Lessons,     \* turns submitted for learning; a lesson's row has its own key
    Calls,       \* calls of the memory tools
    OldKeys,     \* rows stored before embeddings were configured
    QueueCap,    \* LEARNING_QUEUE_CAPACITY (16)
    Batch,       \* batch_size of backfill_embeddings (100)
    Backfill,    \* backfill_on_startup
    MaxExits,    \* bound: process exits
    Nothing      \* no row, no key, no lesson, no embedding

ASSUME MemoryAssumption ==
    /\ QueueCap \in Nat \ {0} /\ Batch \in Nat \ {0} /\ MaxExits \in Nat
    /\ IsFiniteSet(OldKeys)
    /\ Nothing \notin Lessons \cup Calls \cup OldKeys
    /\ Lessons \cap (Calls \cup OldKeys) = {}     \* a lesson's key is a fresh uuid

VARIABLES
    memories,    \* the table memories: content, embedding and id of each key
    ids,         \* ids given so far
    alive,       \* agents not dropped
    queue,       \* each agent's channel
    worker,      \* the lesson its worker is at
    lesson,      \* how far each lesson is
    conflicts,   \* the rows a lesson found, as it found them
    call,        \* each tool call: "fresh", "storing", "updating", "done"
    targetKey,   \* the key it is about
    written,     \* the text that a tool or a lesson stored last, for each key
    fill,        \* backfill: "off", "selecting", "filling", "done"
    fillBatch,   \* its rows, as it selected them
    exits

tableVars == <<memories, ids, written>>
learnVars == <<alive, queue, worker, lesson, conflicts>>
toolVars == <<call, targetKey>>
fillVars == <<fill, fillBatch>>
memVars == <<tableVars, learnVars, toolVars, fillVars, exits>>

Keys == Lessons \cup OldKeys \cup Calls
Contents == [text : Keys, by : Keys \cup {Nothing}]
Rows == [content : Contents, vec : Contents \cup {Nothing}, id : Nat]
Stored == {k \in Keys : memories[k] # Nothing}
Plain(t) == [text |-> t, by |-> Nothing]

MemTypeOK ==
    /\ memories \in [Keys -> Rows \cup {Nothing}] /\ ids \in Nat
    /\ alive \subseteq Agents /\ worker \in [Agents -> Lessons \cup {Nothing}]
    /\ \A a \in Agents : queue[a] \in Seq(Lessons) /\ Len(queue[a]) <= QueueCap
    /\ lesson \in [Lessons -> {"fresh", "queued", "dropped", "working", "marking", "over", "lost"}]
    /\ \A j \in Lessons : DOMAIN conflicts[j] \subseteq Keys
    /\ call \in [Calls -> {"fresh", "storing", "updating", "done"}]
    /\ targetKey \in [Calls -> Keys \cup {Nothing}]
    /\ written \in [Keys -> Keys \cup {Nothing}]
    /\ fill \in {"off", "selecting", "filling", "done"} /\ exits \in 0 .. MaxExits

MemInit ==
    \E order \in [OldKeys -> 1 .. Cardinality(OldKeys)] :
        /\ IsInjective(order)
        /\ memories = [k \in Keys |-> IF k \in OldKeys
                     THEN [content |-> Plain(k), vec |-> Nothing, id |-> order[k]]
                     ELSE Nothing]
        /\ ids = Cardinality(OldKeys)
        /\ written = [k \in Keys |-> IF k \in OldKeys THEN k ELSE Nothing]
        /\ alive = Agents /\ queue = [a \in Agents |-> <<>>]
        /\ worker = [a \in Agents |-> Nothing] /\ lesson = [j \in Lessons |-> "fresh"]
        /\ conflicts = [j \in Lessons |-> <<>>]
        /\ call = [c \in Calls |-> "fresh"] /\ targetKey = [c \in Calls |-> Nothing]
        /\ fill = "off" /\ fillBatch = {} /\ exits = 0

-----------------------------------------------------------------------------
(* store_with_metadata, once the embedding of the content has come: the    *)
(* row of the key is inserted, or keeps its id and gets content and        *)
(* embedding.                                                              *)
Upsert(k, content) ==
    LET id == IF memories[k] = Nothing THEN ids + 1 ELSE memories[k].id IN
    /\ memories' = [memories EXCEPT ![k] = [content |-> content, vec |-> content, id |-> id]]
    /\ ids' = IF memories[k] = Nothing THEN ids + 1 ELSE ids

(* The tools.  memory_store looks that the key is free, memory_update that *)
(* it is not, both store in a later step; a superseded memory may be       *)
(* updated, for nothing sets the column that memory_update looks at.       *)
LookFirst(c, k) ==
    /\ call[c] = "fresh"
    /\ \/ memories[k] = Nothing /\ k = c /\ call' = [call EXCEPT ![c] = "storing"]
       \/ memories[k] # Nothing /\ call' = [call EXCEPT ![c] = "updating"]
    /\ targetKey' = [targetKey EXCEPT ![c] = k]
    /\ UNCHANGED <<tableVars, learnVars, fillVars, exits>>

ToolStores(c) ==
    /\ call[c] \in {"storing", "updating"}
    /\ \/ Upsert(targetKey[c], Plain(c)) /\ written' = [written EXCEPT ![targetKey[c]] = c]
       \/ UNCHANGED tableVars          \* the embedding or the statement fails
    /\ call' = [call EXCEPT ![c] = "done"]
    /\ UNCHANGED <<targetKey, learnVars, fillVars, exits>>

ToolForgets(c, k) ==
    /\ call[c] = "fresh" /\ memories[k] # Nothing
    /\ memories' = [memories EXCEPT ![k] = Nothing]
    /\ written' = [written EXCEPT ![k] = Nothing]
    /\ call' = [call EXCEPT ![c] = "done"]
    /\ UNCHANGED <<ids, targetKey, learnVars, fillVars, exits>>

-----------------------------------------------------------------------------
(* Learning. *)

(* submit: try_send drops the newest lesson when the channel is full. *)
Submit(a, j) ==
    /\ a \in alive /\ lesson[j] = "fresh"
    /\ \/ /\ Len(queue[a]) < QueueCap
          /\ queue' = [queue EXCEPT ![a] = Append(@, j)]
          /\ lesson' = [lesson EXCEPT ![j] = "queued"]
       \/ /\ Len(queue[a]) >= QueueCap
          /\ lesson' = [lesson EXCEPT ![j] = "dropped"] /\ UNCHANGED queue
    /\ UNCHANGED <<tableVars, alive, worker, conflicts, toolVars, fillVars, exits>>

TakeLessonAlive(a) ==     \* mutant of TakeLesson: the worker ends with its agent
    /\ a \in alive /\ worker[a] = Nothing /\ queue[a] # <<>>
    /\ worker' = [worker EXCEPT ![a] = Head(queue[a])]
    /\ queue' = [queue EXCEPT ![a] = Tail(@)]
    /\ lesson' = [lesson EXCEPT ![Head(queue[a])] = "working"]
    /\ UNCHANGED <<tableVars, alive, conflicts, toolVars, fillVars, exits>>

(* The worker goes on after its agent is dropped: the channel is closed    *)
(* and still drained.                                                      *)
TakeLesson(a) ==
    /\ worker[a] = Nothing /\ queue[a] # <<>>
    /\ worker' = [worker EXCEPT ![a] = Head(queue[a])]
    /\ queue' = [queue EXCEPT ![a] = Tail(@)]
    /\ lesson' = [lesson EXCEPT ![Head(queue[a])] = "working"]
    /\ UNCHANGED <<tableVars, alive, conflicts, toolVars, fillVars, exits>>

LessonOver(a) ==
    /\ lesson' = [lesson EXCEPT ![worker[a]] = "over"]
    /\ worker' = [worker EXCEPT ![a] = Nothing]
    /\ UNCHANGED <<alive, queue, toolVars, fillVars, exits>>

(* Not a turn to learn from, or its Daily entry could not be stored. *)
Pass(a) ==
    /\ worker[a] # Nothing /\ lesson[worker[a]] = "working"
    /\ LessonOver(a) /\ UNCHANGED <<tableVars, conflicts>>

(* check_and_resolve_conflicts recalls, and keeps what it found. *)
Current(j) == {k \in Stored \ {j} : memories[k].content.by = Nothing}

LearnFirst(a) ==      \* mutant of Recall: the new memory is stored before the check
    LET j == worker[a] IN
    /\ j # Nothing /\ lesson[j] = "working"
    /\ \/ /\ memories[j] = Nothing /\ Upsert(j, Plain(j))
          /\ written' = [written EXCEPT ![j] = j]
          /\ UNCHANGED <<conflicts, lesson>>
       \/ /\ memories[j] # Nothing /\ UNCHANGED tableVars
          /\ \E found \in SUBSET Current(j) :
               conflicts' = [conflicts EXCEPT ![j] = [k \in found |-> memories[k].content.text]]
          /\ lesson' = [lesson EXCEPT ![j] = "marking"]
    /\ UNCHANGED <<alive, queue, worker, toolVars, fillVars, exits>>

Recall(a) ==
    LET j == worker[a] IN
    /\ j # Nothing /\ lesson[j] = "working"
    /\ \E found \in SUBSET Current(j) :
         conflicts' = [conflicts EXCEPT ![j] = [k \in found |-> memories[k].content.text]]
    /\ lesson' = [lesson EXCEPT ![j] = "marking"]
    /\ UNCHANGED <<tableVars, alive, queue, worker, toolVars, fillVars, exits>>

(* One of them is stored again with the prefix [SUPERSEDED by 'j'].  When  *)
(* that fails the others are left, and the lesson's own row is stored.     *)
MarkOld(a) ==
    LET j == worker[a] IN
    /\ j # Nothing /\ lesson[j] = "marking"
    /\ \E k \in DOMAIN conflicts[j] :
         \/ /\ Upsert(k, [text |-> conflicts[j][k], by |-> j])
            /\ conflicts' = [conflicts EXCEPT ![j] = Restrict(@, DOMAIN @ \ {k})]
         \/ UNCHANGED <<memories, ids>> /\ conflicts' = [conflicts EXCEPT ![j] = <<>>]
    /\ UNCHANGED <<written, alive, queue, worker, lesson, toolVars, fillVars, exits>>

Learn(a) ==
    LET j == worker[a] IN
    /\ j # Nothing /\ lesson[j] = "marking" /\ DOMAIN conflicts[j] = {}
    /\ \/ Upsert(j, Plain(j)) /\ written' = [written EXCEPT ![j] = j]
       \/ UNCHANGED tableVars
    /\ LessonOver(a) /\ UNCHANGED conflicts

DropAgent(a) ==
    /\ a \in alive /\ alive' = alive \ {a}
    /\ UNCHANGED <<tableVars, queue, worker, lesson, conflicts, toolVars, fillVars, exits>>

-----------------------------------------------------------------------------
(* backfill_embeddings, run by a process that starts.  A row is updated by *)
(* its id, whatever its content is by then.                                *)
StartFill ==
    /\ Backfill /\ fill = "off" /\ fill' = "selecting"
    /\ UNCHANGED <<fillBatch, tableVars, learnVars, toolVars, exits>>

Bare == {k \in Stored : memories[k].vec = Nothing}

SelectBatch ==
    /\ fill = "selecting"
    /\ \/ Bare = {} /\ fill' = "done" /\ UNCHANGED fillBatch
       \/ \E some \in kSubset(IF Cardinality(Bare) < Batch
                              THEN Cardinality(Bare) ELSE Batch, Bare) :
            /\ some # {} /\ fill' = "filling"
            /\ fillBatch' = {[key |-> k, row |-> memories[k], fails |-> FALSE] : k \in some}
    /\ UNCHANGED <<tableVars, learnVars, toolVars, exits>>

Untried == {e \in fillBatch : ~e.fails /\ e.row.vec = Nothing}

FillGuarded ==     \* mutant of FillOne: the update asks for a hash these rows do not have
    /\ fill = "filling"
    /\ \E e \in Untried :
         \/ /\ fillBatch' = (fillBatch \ {e}) \cup {[e EXCEPT !.row.vec = e.row.content]}
            /\ UNCHANGED memories
         \/ /\ fillBatch' = (fillBatch \ {e}) \cup {[e EXCEPT !.fails = TRUE]}
            /\ UNCHANGED memories
    /\ UNCHANGED <<fill, ids, written, learnVars, toolVars, exits>>

FillOne ==
    /\ fill = "filling"
    /\ \E e \in Untried :
         \/ /\ fillBatch' = (fillBatch \ {e}) \cup {[e EXCEPT !.row.vec = e.row.content]}
            /\ memories' = [k \in Keys |->
                 IF k \in Stored /\ memories[k].id = e.row.id
                 THEN [memories[k] EXCEPT !.vec = e.row.content] ELSE memories[k]]
         \/ /\ fillBatch' = (fillBatch \ {e}) \cup {[e EXCEPT !.fails = TRUE]}
            /\ UNCHANGED memories
    /\ UNCHANGED <<fill, ids, written, learnVars, toolVars, exits>>

(* A full batch is followed by another one, be it of the same rows. *)
EndBatch ==
    /\ fill = "filling" /\ Untried = {}
    /\ fill' = IF Cardinality(fillBatch) < Batch THEN "done" ELSE "selecting"
    /\ fillBatch' = {}
    /\ UNCHANGED <<tableVars, learnVars, toolVars, exits>>

(* The process ends, by itself or not; what was queued is lost. *)
Exit ==
    /\ exits < MaxExits /\ exits' = exits + 1
    /\ alive' = Agents /\ queue' = [a \in Agents |-> <<>>]
    /\ worker' = [a \in Agents |-> Nothing] /\ conflicts' = [j \in Lessons |-> <<>>]
    /\ lesson' = [j \in Lessons |-> IF lesson[j] \in {"queued", "working", "marking"}
                              THEN "lost" ELSE lesson[j]]
    /\ call' = [c \in Calls |-> IF call[c] = "fresh" THEN "fresh" ELSE "done"]
    /\ fill' = "off" /\ fillBatch' = {}
    /\ UNCHANGED <<tableVars, targetKey>>

MemNext ==
    \/ \E c \in Calls : \/ ToolStores(c)
                        \/ \E k \in Keys : LookFirst(c, k) \/ ToolForgets(c, k)
    \/ \E a \in Agents : \/ TakeLesson(a) \/ Pass(a) \/ Recall(a) \/ MarkOld(a) \/ Learn(a)
                         \/ DropAgent(a) \/ \E j \in Lessons : Submit(a, j)
    \/ StartFill \/ SelectBatch \/ FillOne \/ EndBatch \/ Exit

(* The runtime polls the workers; embedding requests have a timeout. *)
Work(a) == TakeLesson(a) \/ Pass(a) \/ Recall(a) \/ MarkOld(a) \/ Learn(a)

MemFairness ==
    /\ \A a \in Agents : WF_memVars(Work(a))
    /\ WF_memVars(SelectBatch \/ FillOne \/ EndBatch)

MemSpec == MemInit /\ [][MemNext]_memVars /\ MemFairness

-----------------------------------------------------------------------------
(* Whatever two workers and the tools do at the same time, no memories     *)
(* supersede each other in a circle: of facts learnt at once and marked by *)
(* one another, none would be left standing.                               *)
NoCircle ==
    ~\E circle \in (SUBSET Stored) \ {{}} :
        \A k \in circle : memories[k].content.by \in circle

(* A lesson that submit accepted is worked on to its end, also when its    *)
(* agent is dropped first ("The detached worker drains queued jobs before  *)
(* it exits", knowledge_coordinator.rs:100): only an exit loses it.        *)
AcceptedIsLearnt ==
    \A j \in Lessons : lesson[j] = "queued" ~> lesson[j] \in {"over", "lost"}

(* Filling in embeddings at start-up, which the process waits for, ends,   *)
(* with one exception: a full batch of rows whose embedding fails is       *)
(* selected again.                                                         *)
Hopeless == Cardinality(fillBatch) = Batch /\ \A e \in fillBatch : e.fails

BackfillEnds ==
    fill \in {"selecting", "filling"} ~> (fill \in {"off", "done"} \/ Hopeless)

(* docs/en/modules/memory.md:211: the "Older entry" is "marked             *)
(* `[SUPERSEDED by 'newer_key'] {original_content}` (audit trail           *)
(* preserved)": a marked row holds what was stored under its key last.     *)
AuditTrail ==
    \A k \in Stored : memories[k].content.by # Nothing /\ written[k] # Nothing =>
        memories[k].content.text = written[k]
=============================================================================
