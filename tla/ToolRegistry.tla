----------------------------- MODULE ToolRegistry ----------------------------
(***************************************************************************)
(* The tool registry shared by concurrent tasks: DefaultToolRegistry in    *)
(* crates/clawseed-agent/src/tool_registry.rs.                             *)
(*                                                                         *)
(* Tools are in a concurrent map whose operations are atomic one key at a  *)
(* time and whose iterators visit keys one by one while others change      *)
(* them.  The specs of the visible tools are cached under a read-write     *)
(* lock of their own.  A mutator changes the map first and empties the     *)
(* cache afterwards; a reader that misses the cache rebuilds it while it   *)
(* holds the lock for writing, "to prevent stale-cache race".              *)
(*                                                                         *)
(* A spec is the tool it describes; a list of specs is a set, since the    *)
(* code sorts it by name.  Filter patterns are names of sets of tool       *)
(* names: what a glob matches is a constant.                               *)
(***************************************************************************)
EXTENDS Naturals, FiniteSets

CONSTANTS
    Threads,
    Names,        \* tool names, the keys of the map
    Tools,        \* tool objects
    Sources,
    NameOf,       \* Tool::name
    SourceOf,     \* the ToolSource each tool is registered with
    Patterns,
    Matches,      \* the names a pattern matches
    McpHidden,    \* tools the filter of their MCP server excludes
    NoTool, Nobody

ASSUME ToolsAssumption ==
    /\ NameOf \in [Tools -> Names]
    /\ SourceOf \in [Tools -> Sources]
    /\ Matches \in [Patterns -> SUBSET Names]
    /\ McpHidden \subseteq Tools
    /\ Sources # {}

ASSUME NullAssumption == NoTool \notin Tools /\ Nobody \notin Threads

VARIABLES
    tools,     \* the map: the tool under each name
    allowedPatterns, deniedPatterns,
    cached,    \* cached_specs is Some
    specs,     \* what it holds then
    writer,    \* the thread that holds cached_specs for writing across steps
    pc,        \* where each thread is
    scan,      \* names an iteration has still to visit
    adding,    \* tools register_all has still to insert
    doomed,    \* keys_to_remove
    source,    \* the source unregister_by_source was called with
    built,     \* specs a rebuild has collected
    filters,   \* denied patterns update_filters has still to store
    touched,   \* names a thread has changed and not yet invalidated the cache for
    since      \* names changed by others since unregister_by_source was called

map == <<tools, allowedPatterns, deniedPatterns>>
cache == <<cached, specs, writer>>
locals == <<scan, adding, doomed, source, built, filters>>
registryVars == <<map, cache, pc, locals, touched, since>>

PCs == {"idle", "adding", "collecting", "removing", "denying", "invalidate",
        "missed", "rebuilding"}

(* is_tool_allowed: denied wins; no allowed pattern allows all but what    *)
(* MCP servers hide.                                                       *)
Listed(patterns, t) == \E p \in patterns : NameOf[t] \in Matches[p]
IsToolAllowed(t) ==
    /\ ~Listed(deniedPatterns, t)
    /\ IF allowedPatterns = {} THEN t \notin McpHidden ELSE Listed(allowedPatterns, t)

(* What the specs say of a name, and what they should say. *)
Part(set, n) == {t \in set : NameOf[t] = n}
Visible(n) == {t \in {tools[n]} \ {NoTool} : IsToolAllowed(t)}

RegistryTypeOK ==
    /\ tools \in [Names -> Tools \cup {NoTool}]
    /\ \A n \in Names : tools[n] # NoTool => NameOf[tools[n]] = n
    /\ allowedPatterns \subseteq Patterns /\ deniedPatterns \subseteq Patterns
    /\ cached \in BOOLEAN /\ specs \subseteq Tools
    /\ writer \in Threads \cup {Nobody}
    /\ pc \in [Threads -> PCs]
    /\ scan \in [Threads -> SUBSET Names]
    /\ adding \in [Threads -> SUBSET Tools]
    /\ doomed \in [Threads -> SUBSET Names]
    /\ source \in [Threads -> Sources]
    /\ built \in [Threads -> SUBSET Tools]
    /\ filters \in [Threads -> SUBSET Patterns]
    /\ touched \in [Threads -> SUBSET Names]
    /\ since \in [Threads -> SUBSET Names]

RegistryInit ==
    /\ tools = [n \in Names |-> NoTool]
    /\ allowedPatterns = {} /\ deniedPatterns = {}
    /\ cached = FALSE /\ specs = {} /\ writer = Nobody
    /\ pc = [th \in Threads |-> "idle"]
    /\ scan = [th \in Threads |-> {}] /\ adding = [th \in Threads |-> {}]
    /\ doomed = [th \in Threads |-> {}] /\ source = [th \in Threads |-> CHOOSE s \in Sources : TRUE]
    /\ built = [th \in Threads |-> {}] /\ filters = [th \in Threads |-> {}]
    /\ touched = [th \in Threads |-> {}] /\ since = [th \in Threads |-> {}]

Go(th, where) == pc' = [pc EXCEPT ![th] = where]

(* Thread th stores v under name n: one atomic operation of the map. *)
Store(th, n, v) ==
    /\ tools' = [tools EXCEPT ![n] = v]
    /\ touched' = [touched EXCEPT ![th] = @ \cup {n}]
    /\ since' = [other \in Threads |->
                  IF other # th /\ pc[other] \in {"collecting", "removing"}
                  THEN since[other] \cup {n} ELSE since[other]]
    /\ UNCHANGED <<allowedPatterns, deniedPatterns>>

-----------------------------------------------------------------------------
(* Mutators. *)

RegisterOrReplace(th, t) ==
    /\ pc[th] = "idle"
    /\ Store(th, NameOf[t], t)
    /\ Go(th, "invalidate")
    /\ UNCHANGED <<cache, locals>>

(* register, register_arc: nothing happens if the name is taken. *)
Register(th, t) ==
    /\ pc[th] = "idle" /\ tools[NameOf[t]] = NoTool
    /\ Store(th, NameOf[t], t)
    /\ Go(th, "invalidate")
    /\ UNCHANGED <<cache, locals>>

(* register_all, register_all_arc: one entry after the other. *)
RegisterAll(th, batch) ==
    /\ pc[th] = "idle"
    /\ adding' = [adding EXCEPT ![th] = batch]
    /\ Go(th, "adding")
    /\ UNCHANGED <<map, cache, scan, doomed, source, built, filters, touched, since>>

AddNext(th, t) ==
    /\ pc[th] = "adding" /\ t \in adding[th]
    /\ adding' = [adding EXCEPT ![th] = @ \ {t}]
    /\ \/ tools[NameOf[t]] = NoTool /\ Store(th, NameOf[t], t)
       \/ tools[NameOf[t]] # NoTool /\ UNCHANGED <<map, touched, since>>
    /\ UNCHANGED <<cache, pc, scan, doomed, source, built, filters>>

AddDone(th) ==
    /\ pc[th] = "adding" /\ adding[th] = {}
    /\ Go(th, IF touched[th] = {} THEN "idle" ELSE "invalidate")
    /\ UNCHANGED <<map, cache, locals, touched, since>>

UnregisterName(th, n) ==
    /\ pc[th] = "idle" /\ tools[n] # NoTool
    /\ Store(th, n, NoTool)
    /\ Go(th, "invalidate")
    /\ UNCHANGED <<cache, locals>>

(* unregister_by_source collects the keys of the source's tools, then      *)
(* removes them by key, whatever is under the key by then.                 *)
UnregisterBySource(th, s) ==
    /\ pc[th] = "idle"
    /\ source' = [source EXCEPT ![th] = s]
    /\ scan' = [scan EXCEPT ![th] = Names]
    /\ doomed' = [doomed EXCEPT ![th] = {}]
    /\ since' = [since EXCEPT ![th] = {}]
    /\ Go(th, "collecting")
    /\ UNCHANGED <<map, cache, adding, built, filters, touched>>

Has(n, s) == tools[n] # NoTool /\ SourceOf[tools[n]] = s

CollectAny(th, n) ==       \* mutant of CollectKey: the source is not compared
    /\ pc[th] = "collecting" /\ n \in scan[th]
    /\ scan' = [scan EXCEPT ![th] = @ \ {n}]
    /\ doomed' = [doomed EXCEPT ![th] = IF tools[n] # NoTool THEN @ \cup {n} ELSE @]
    /\ UNCHANGED <<map, cache, pc, adding, source, built, filters, touched, since>>

CollectFirst(th, n) ==     \* mutant of CollectKey: one key only
    /\ pc[th] = "collecting" /\ n \in scan[th]
    /\ scan' = [scan EXCEPT ![th] = @ \ {n}]
    /\ doomed' = [doomed EXCEPT ![th] = IF Has(n, source[th]) THEN {n} ELSE @]
    /\ UNCHANGED <<map, cache, pc, adding, source, built, filters, touched, since>>

CollectKey(th, n) ==
    /\ pc[th] = "collecting" /\ n \in scan[th]
    /\ scan' = [scan EXCEPT ![th] = @ \ {n}]
    /\ doomed' = [doomed EXCEPT ![th] = IF Has(n, source[th]) THEN @ \cup {n} ELSE @]
    /\ UNCHANGED <<map, cache, pc, adding, source, built, filters, touched, since>>

Collected(th) ==
    /\ pc[th] = "collecting" /\ scan[th] = {}
    /\ Go(th, IF doomed[th] = {} THEN "idle" ELSE "removing")
    /\ since' = IF doomed[th] = {} THEN [since EXCEPT ![th] = {}] ELSE since
    /\ UNCHANGED <<map, cache, locals, touched>>

RemoveKey(th, n) ==
    /\ pc[th] = "removing" /\ n \in doomed[th]
    /\ Store(th, n, NoTool)
    /\ doomed' = [doomed EXCEPT ![th] = @ \ {n}]
    /\ UNCHANGED <<cache, pc, scan, adding, source, built, filters>>

Removed(th) ==
    /\ pc[th] = "removing" /\ doomed[th] = {}
    /\ Go(th, "invalidate")
    /\ UNCHANGED <<map, cache, locals, touched, since>>

(* update_filters replaces the two lists one after the other. *)
UpdateFilters(th, allow, deny) ==
    /\ pc[th] = "idle"
    /\ allowedPatterns' = allow
    /\ filters' = [filters EXCEPT ![th] = deny]
    /\ touched' = [touched EXCEPT ![th] = Names]
    /\ Go(th, "denying")
    /\ UNCHANGED <<tools, deniedPatterns, cache, scan, adding, doomed, source, built, since>>

UpdateDenied(th) ==
    /\ pc[th] = "denying"
    /\ deniedPatterns' = filters[th]
    /\ filters' = [filters EXCEPT ![th] = {}]
    /\ Go(th, "invalidate")
    /\ UNCHANGED <<tools, allowedPatterns, cache, scan, adding, doomed, source, built, touched, since>>

(* *self.cached_specs.write() = None, the last thing every mutator does. *)
InvalidateUnlocked(th) ==      \* mutant of Invalidate: it does not wait for a rebuild
    /\ pc[th] = "invalidate"
    /\ cached' = FALSE /\ specs' = {}
    /\ touched' = [touched EXCEPT ![th] = {}]
    /\ since' = [since EXCEPT ![th] = {}]
    /\ Go(th, "idle")
    /\ UNCHANGED <<map, writer, locals>>

Invalidate(th) ==
    /\ pc[th] = "invalidate" /\ writer = Nobody
    /\ cached' = FALSE /\ specs' = {}
    /\ touched' = [touched EXCEPT ![th] = {}]
    /\ since' = [since EXCEPT ![th] = {}]
    /\ Go(th, "idle")
    /\ UNCHANGED <<map, writer, locals>>

-----------------------------------------------------------------------------
(* tool_specs. *)

(* The read lock: a full cache is returned, an empty one is not waited on. *)
Miss(th) ==
    /\ pc[th] = "idle" /\ writer = Nobody /\ ~cached
    /\ Go(th, "missed")
    /\ UNCHANGED <<map, cache, locals, touched, since>>

(* The write lock, and the second look. *)
Rebuild(th) ==
    /\ pc[th] = "missed" /\ writer = Nobody
    /\ \/ cached /\ Go(th, "idle") /\ UNCHANGED <<writer, scan, built>>
       \/ /\ ~cached
          /\ Go(th, "rebuilding") /\ writer' = th
          /\ scan' = [scan EXCEPT ![th] = Names]
          /\ built' = [built EXCEPT ![th] = {}]
    /\ UNCHANGED <<map, cached, specs, adding, doomed, source, filters, touched, since>>

Visit(th, n) ==
    /\ pc[th] = "rebuilding" /\ n \in scan[th]
    /\ scan' = [scan EXCEPT ![th] = @ \ {n}]
    /\ built' = [built EXCEPT ![th] = @ \cup Visible(n)]
    /\ UNCHANGED <<map, cache, pc, adding, doomed, source, filters, touched, since>>

Publish(th) ==
    /\ pc[th] = "rebuilding" /\ scan[th] = {}
    /\ cached' = TRUE /\ specs' = built[th] /\ writer' = Nobody
    /\ built' = [built EXCEPT ![th] = {}]
    /\ Go(th, "idle")
    /\ UNCHANGED <<map, scan, adding, doomed, source, filters, touched, since>>

RegistryNext ==
    \E th \in Threads :
        \/ \E t \in Tools : RegisterOrReplace(th, t) \/ Register(th, t) \/ AddNext(th, t)
        \/ \E batch \in SUBSET Tools : RegisterAll(th, batch)
        \/ \E n \in Names : UnregisterName(th, n) \/ CollectKey(th, n) \/ RemoveKey(th, n) \/ Visit(th, n)
        \/ \E s \in Sources : UnregisterBySource(th, s)
        \/ \E allow, deny \in SUBSET Patterns : UpdateFilters(th, allow, deny)
        \/ AddDone(th) \/ Collected(th) \/ Removed(th) \/ UpdateDenied(th)
        \/ Invalidate(th) \/ Miss(th) \/ Rebuild(th) \/ Publish(th)

RegistrySpec == RegistryInit /\ [][RegistryNext]_registryVars

-----------------------------------------------------------------------------
InFlight == UNION {touched[th] : th \in Threads}

(* A cached list of specs is never wrong about a name for longer than the  *)
(* mutator that changed it is under way: whatever rebuilds overlapped its  *)
(* change, the specs agree with the map and the filters once it returned.  *)
CacheHonest ==
    cached => \A n \in Names \ InFlight : Part(specs, n) = Visible(n)

(* unregister_by_source removes tools of its source only, except under a   *)
(* name that another thread changed since the call began.                  *)
RemovesOnlyOwn ==
    [][\A th \in Threads, n \in Names :
          RemoveKey(th, n) => tools[n] = NoTool \/ Has(n, source[th]) \/ n \in since[th]]_registryVars

(* When it has removed its keys no tool of the source is left, except      *)
(* under a name that another thread changed since the call began.          *)
RemovesAllOwn ==
    \A th \in Threads, n \in Names :
        (pc[th] = "removing" /\ doomed[th] = {}) =>
            \/ tools[n] = NoTool \/ SourceOf[tools[n]] # source[th]
            \/ n \in since[th]
=============================================================================
