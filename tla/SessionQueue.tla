---------------------------- MODULE SessionQueue ----------------------------
(***************************************************************************)
(* The per-session actor queue of the gateway                              *)
(* (crates/clawseed-gateway/src/session_queue.rs): a map from session to a *)
(* slot, a slot being a one-permit semaphore and a counter of pending      *)
(* requests.  A connection calls acquire, runs one turn while it holds the *)
(* guard, and drops the guard.  The slots map is behind an async mutex, so *)
(* what runs under it is one step; the counter is atomic, so each of its   *)
(* updates is one step; everything between two of them interleaves.        *)
(*                                                                         *)
(* tokio's Semaphore is external: acquire_owned queues in FIFO order, a    *)
(* release hands the permit to the first waiter before its task runs, and  *)
(* dropping an acquire future gives back a permit it was already handed.   *)
(* Time is abstracted: a timer may fire at any moment after it is armed.   *)
(***************************************************************************)
EXTENDS Naturals, FiniteSets, SequencesExt

CONSTANTS
    Conns,          \* websocket connections, each running one request at a time
    Sessions,       \* session keys
    Slots,          \* identities of Arc<SessionSlot> allocations
    SessionOf,      \* the session a connection is bound to
    MaxQueueDepth,  \* max_queue_depth (8 in the gateway)
    Nobody,         \* no owner of a permit
    NoSlot          \* no slot

ASSUME SessionOfAssumption == SessionOf \in [Conns -> Sessions]
ASSUME ConnsAssumption == IsFiniteSet(Conns)
ASSUME DepthAssumption == MaxQueueDepth \in Nat
ASSUME NullAssumption == Nobody \notin Conns /\ NoSlot \notin Slots

VARIABLES
    slots,    \* SessionActorQueue.slots: session -> slot in the map, if any
    pending,  \* SessionSlot.pending
    permit,   \* who owns, or has been handed, the slot's only permit
    waiters,  \* the semaphore's FIFO queue
    stale,    \* last_active is older than idle_ttl
    pc,       \* where each connection is in acquire, its turn, or drop
    slot      \* the Arc<SessionSlot> the connection's acquire or guard holds

vars == <<slots, pending, permit, waiters, stale, pc, slot>>

PCs == {"out",       \* not in the queue
        "cloned",    \* has the slot's Arc, has not counted itself yet
        "refused",   \* fetch_add saw a full queue, fetch_sub is next
        "counted",   \* admitted, acquire_owned not polled yet
        "queued",    \* awaiting the permit
        "expired",   \* the timer fired, the acquire future is not dropped yet
        "leaving",   \* acquire future dropped, fetch_sub is next
        "holding",   \* has the SessionGuard: its turn runs
        "dropping"}  \* guard's fetch_sub done, the permit field drops next

TypeOK ==
    /\ slots \in [Sessions -> Slots \cup {NoSlot}]
    /\ pending \in [Slots -> Nat]
    /\ permit \in [Slots -> Conns \cup {Nobody}]
    /\ waiters \in [Slots -> Seq(Conns)]
    /\ stale \in [Slots -> BOOLEAN]
    /\ pc \in [Conns -> PCs]
    /\ slot \in [Conns -> Slots \cup {NoSlot}]

Init ==
    /\ slots = [s \in Sessions |-> NoSlot]
    /\ pending = [sl \in Slots |-> 0]
    /\ permit = [sl \in Slots |-> Nobody]
    /\ waiters = [sl \in Slots |-> <<>>]
    /\ stale = [sl \in Slots |-> FALSE]
    /\ pc = [c \in Conns |-> "out"]
    /\ slot = [c \in Conns |-> NoSlot]

-----------------------------------------------------------------------------
(* The semaphore.  A definition named ...Mutant is wrong on purpose: with   *)
(* it in place of the definition that follows, a run has to fail.          *)

(* served in the wrong order *)
HandOverMutant(sl) ==
    IF waiters[sl] = <<>>
    THEN permit' = [permit EXCEPT ![sl] = Nobody] /\ UNCHANGED waiters
    ELSE /\ permit' = [permit EXCEPT ![sl] = Last(waiters[sl])]
         /\ waiters' = [waiters EXCEPT ![sl] = Front(@)]

HandOver(sl) ==
    IF waiters[sl] = <<>>
    THEN permit' = [permit EXCEPT ![sl] = Nobody] /\ UNCHANGED waiters
    ELSE /\ permit' = [permit EXCEPT ![sl] = Head(waiters[sl])]
         /\ waiters' = [waiters EXCEPT ![sl] = Tail(@)]

(* a future that was handed the permit and is dropped keeps it *)
AbandonMutant(c, sl) ==
    /\ waiters' = [waiters EXCEPT ![sl] = SelectSeq(@, LAMBDA d : d # c)]
    /\ UNCHANGED permit

(* Dropping an acquire future gives back the permit it was handed, or      *)
(* leaves the queue.                                                       *)
Abandon(c, sl) ==
    \/ permit[sl] = c /\ HandOver(sl)
    \/ /\ permit[sl] # c
       /\ \E i \in DOMAIN waiters[sl] :
             /\ waiters[sl][i] = c
             /\ waiters' = [waiters EXCEPT ![sl] = RemoveAt(@, i)]
       /\ UNCHANGED permit

-----------------------------------------------------------------------------
(* An Arc lives while the map or a connection refers to it. *)
Unreferenced(sl) ==
    /\ \A s \in Sessions : slots[s] # sl
    /\ \A c \in Conns : slot[c] # sl

(* acquire: the entry of the session is cloned under the slots lock ...    *)
CloneSlot(c) ==
    /\ pc[c] = "out"
    /\ slots[SessionOf[c]] # NoSlot
    /\ slot' = [slot EXCEPT ![c] = slots[SessionOf[c]]]
    /\ pc' = [pc EXCEPT ![c] = "cloned"]
    /\ UNCHANGED <<slots, pending, permit, waiters, stale>>

(* ... or inserted and cloned, when the session has none. *)
InsertSlot(c) ==
    /\ pc[c] = "out"
    /\ slots[SessionOf[c]] = NoSlot
    /\ \E new \in Slots :
          /\ Unreferenced(new)
          /\ slots' = [slots EXCEPT ![SessionOf[c]] = new]
          /\ slot' = [slot EXCEPT ![c] = new]
          /\ pending' = [pending EXCEPT ![new] = 0]
          /\ permit' = [permit EXCEPT ![new] = Nobody]
          /\ waiters' = [waiters EXCEPT ![new] = <<>>]
          /\ stale' = [stale EXCEPT ![new] = FALSE]
    /\ pc' = [pc EXCEPT ![c] = "cloned"]

FullMutant(n) == n > MaxQueueDepth

Full(n) == n >= MaxQueueDepth

(* acquire: pending.fetch_add, whose old value decides admission. *)
Count(c) ==
    /\ pc[c] = "cloned"
    /\ pending' = [pending EXCEPT ![slot[c]] = @ + 1]
    /\ pc' = [pc EXCEPT ![c] = IF Full(pending[slot[c]]) THEN "refused" ELSE "counted"]
    /\ UNCHANGED <<slots, permit, waiters, stale, slot>>

(* acquire: the fetch_sub of a request that ends in QueueFull or Timeout. *)
GiveUp(c) ==
    /\ pc[c] \in {"refused", "leaving"}
    /\ pending' = [pending EXCEPT ![slot[c]] = @ - 1]
    /\ pc' = [pc EXCEPT ![c] = "out"]
    /\ slot' = [slot EXCEPT ![c] = NoSlot]
    /\ UNCHANGED <<slots, permit, waiters, stale>>

(* acquire: the first poll of acquire_owned takes a free permit or queues. *)
Enqueue(c) ==
    LET sl == slot[c] IN
    /\ pc[c] = "counted"
    /\ pc' = [pc EXCEPT ![c] = "queued"]
    /\ IF permit[sl] = Nobody
       THEN permit' = [permit EXCEPT ![sl] = c] /\ UNCHANGED waiters
       ELSE waiters' = [waiters EXCEPT ![sl] = Append(@, c)] /\ UNCHANGED permit
    /\ UNCHANGED <<slots, pending, stale, slot>>

(* an elapsed timeout is taken for a success *)
OwnsMutant(c) == pc[c] = "queued"

Owns(c) == pc[c] = "queued" /\ permit[slot[c]] = c

(* acquire: the task finds it was handed the permit, refreshes last_active *)
(* and returns the guard.                                                  *)
Start(c) ==
    /\ Owns(c)
    /\ stale' = [stale EXCEPT ![slot[c]] = FALSE]
    /\ pc' = [pc EXCEPT ![c] = "holding"]
    /\ UNCHANGED <<slots, pending, permit, waiters, slot>>

(* the wait for the permit has no timeout *)
ExpireMutant(c) == FALSE /\ pc[c] = "queued" /\ UNCHANGED vars

(* acquire: lock_timeout elapses while the permit was not there when the   *)
(* future was polled; until the future is dropped it can still be handed   *)
(* the permit.                                                             *)
Expire(c) ==
    /\ pc[c] = "queued" /\ ~Owns(c)
    /\ pc' = [pc EXCEPT ![c] = "expired"]
    /\ UNCHANGED <<slots, pending, permit, waiters, stale, slot>>

(* acquire: the timed out future is dropped. *)
DropFuture(c) ==
    /\ pc[c] = "expired"
    /\ Abandon(c, slot[c])
    /\ pc' = [pc EXCEPT ![c] = "leaving"]
    /\ UNCHANGED <<slots, pending, stale, slot>>

(* SessionGuard::drop runs first ... *)
DropGuard(c) ==
    /\ pc[c] = "holding"
    /\ pending' = [pending EXCEPT ![slot[c]] = @ - 1]
    /\ pc' = [pc EXCEPT ![c] = "dropping"]
    /\ UNCHANGED <<slots, permit, waiters, stale, slot>>

(* ... and its fields, the permit among them, drop after it. *)
DropPermit(c) ==
    /\ pc[c] = "dropping"
    /\ HandOver(slot[c])
    /\ pc' = [pc EXCEPT ![c] = "out"]
    /\ slot' = [slot EXCEPT ![c] = NoSlot]
    /\ UNCHANGED <<slots, pending, stale>>

-----------------------------------------------------------------------------
(* idle_ttl passes since the slot's last_active. *)
Age(sl) ==
    /\ \E s \in Sessions : slots[s] = sl
    /\ ~stale[sl]
    /\ stale' = [stale EXCEPT ![sl] = TRUE]
    /\ UNCHANGED <<slots, pending, permit, waiters, pc, slot>>

(* evict_idle, under the slots lock, for one idle entry. *)
EvictIdle(s) ==
    /\ slots[s] # NoSlot
    /\ stale[slots[s]] /\ pending[slots[s]] = 0
    /\ slots' = [slots EXCEPT ![s] = NoSlot]
    /\ UNCHANGED <<pending, permit, waiters, stale, pc, slot>>

(* queue_depth *)
QueueDepth(s) == IF slots[s] = NoSlot THEN 0 ELSE pending[slots[s]]

-----------------------------------------------------------------------------
Step(c) ==
    \/ CloneSlot(c) \/ InsertSlot(c) \/ Count(c) \/ GiveUp(c) \/ Enqueue(c)
    \/ Start(c) \/ Expire(c) \/ DropFuture(c) \/ DropGuard(c) \/ DropPermit(c)

(* The gateway: nothing in it calls evict_idle. *)
Next == (\E c \in Conns : Step(c)) \/ (\E sl \in Slots : Age(sl))

Spec == Init /\ [][Next]_vars

(* A gateway that runs evict_idle periodically, as its tests do once. *)
NextEvicting == Next \/ (\E s \in Sessions : EvictIdle(s))

SpecEvicting == Init /\ [][NextEvicting]_vars

(* The runtime runs every ready task and fires every timer.  Nothing says  *)
(* that a turn ends: DropGuard is not fair.                                *)
Progress(c) ==
    Count(c) \/ GiveUp(c) \/ Enqueue(c) \/ Start(c) \/ Expire(c)
        \/ DropFuture(c) \/ DropPermit(c)

Fairness == \A c \in Conns : WF_vars(Progress(c))

FairSpec == Spec /\ Fairness

-----------------------------------------------------------------------------
(* Properties. *)

Counted(c) == pc[c] \in {"refused", "counted", "queued", "expired", "leaving", "holding"}
Admitted(c) == Counted(c) /\ pc[c] # "refused"

(* session_queue.rs:3, "Each session gets at most one concurrent turn":    *)
(* two connections of one session never hold a guard together.             *)
MutualExclusion ==
    \A c, d \in Conns :
        (SessionOf[c] = SessionOf[d] /\ pc[c] = "holding" /\ pc[d] = "holding") => c = d

(* A slot's permit is with nobody only when nobody waits for it, and is    *)
(* otherwise with a connection that will use it or give it back: no race   *)
(* of a timeout with a hand-over loses it.                                 *)
PermitKept ==
    \A sl \in Slots :
        IF permit[sl] = Nobody
        THEN waiters[sl] = <<>>
        ELSE /\ slot[permit[sl]] = sl
             /\ pc[permit[sl]] \in {"queued", "expired", "holding", "dropping"}

(* queue_depth is the number of requests that are inside acquire or hold   *)
(* the session: no path of acquire or drop leaks or loses a count.         *)
DepthIsExact ==
    \A s \in Sessions :
        QueueDepth(s) = Cardinality({c \in Conns : SessionOf[c] = s /\ Counted(c)})

(* Neither the permit nor the count of a session goes astray, on any path: *)
(* what either loses makes the session busy for good.                      *)
NothingLeaks == PermitKept /\ DepthIsExact

(* max_queue_depth bounds what is admitted (running and waiting together), *)
(* whatever the interleaving of the counter's updates.                     *)
DepthBounded ==
    \A sl \in Slots :
        Cardinality({c \in Conns : slot[c] = sl /\ Admitted(c)}) <= MaxQueueDepth

(* Whoever waits is answered, with the guard or an error, even if the turn *)
(* it waits for never ends: that is what lock_timeout is for.              *)
Answered == \A c \in Conns : pc[c] = "cloned" ~> pc[c] \in {"holding", "out"}

-----------------------------------------------------------------------------
(* What is promised of the queue: a session's active connection is the one *)
(* that holds its guard, and its line is the semaphore's, with the one who *)
(* was handed the permit but does not run yet in front.                    *)

Holders(s) == {c \in Conns : SessionOf[c] = s /\ pc[c] = "holding"}

OneOf(S) == CHOOSE e \in S : TRUE

activeBar == [s \in Sessions |-> IF Holders(s) = {} THEN Nobody ELSE OneOf(Holders(s))]

HandedTo(sl) ==
    IF permit[sl] # Nobody /\ pc[permit[sl]] \in {"queued", "expired"}
    THEN <<permit[sl]>> ELSE <<>>

Line(sl) == HandedTo(sl) \o waiters[sl]

lineBar == [s \in Sessions |-> IF slots[s] = NoSlot THEN <<>> ELSE Line(slots[s])]

Turns == INSTANCE SessionTurns WITH active <- activeBar, line <- lineBar

(* The queue implements SessionTurns: one turn at a time per session,      *)
(* served in the order of arrival, the line bounded by max_queue_depth.    *)
ImplementsSessionTurns == Turns!TurnsSpec
=============================================================================
