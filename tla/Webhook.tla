------------------------------- MODULE Webhook -------------------------------
(***************************************************************************)
(* POST /webhook: handle_webhook in crates/clawseed-gateway/src/handlers.rs *)
(* with the sliding window and the idempotency store of ratelimit.rs.      *)
(*                                                                         *)
(* A request is counted in its client's window, its idempotency key is     *)
(* recorded, and only then is the agent's turn run; a client that hangs up *)
(* takes the handler with it.  Both maps hold a bounded number of keys and *)
(* evict the one that was used longest ago.  What the turn writes to its   *)
(* session is the subject of Conversation.                                 *)
(*                                                                         *)
(* The limiter's periodic sweep removes only what every call ignores, or   *)
(* removes itself before it evicts; it is left out.                        *)
(***************************************************************************)
EXTENDS Naturals, FiniteSets, Sequences, SequencesExt

CONSTANTS
    Clients,     \* client_key_from_request
    IdemKeys,    \* values of X-Idempotency-Key
    Limit,       \* limit_per_window
    Window,      \* window
    MaxClients,  \* max_keys of the limiter
    Ttl,         \* ttl of the store
    MaxKeys,     \* max_keys of the store
    MaxRequests, \* bound
    HookTime     \* bound

NoKey == "none"

(* limit_per_window 0 stands for no limit and no limiter; new() makes each *)
(* max_keys one at least.                                                  *)
ASSUME WebhookAssumption ==
    /\ Limit \in Nat \ {0} /\ Window \in Nat /\ MaxClients \in Nat \ {0}
    /\ Ttl \in Nat /\ MaxKeys \in Nat \ {0} /\ NoKey \notin IdemKeys
    /\ MaxRequests \in Nat /\ HookTime \in Nat

VARIABLES
    clock,
    window,   \* requests: the times kept for each client; <<>>: no entry
    keys,     \* when each key was recorded; Never: no entry
    arrived,  \* requests so far
    between,  \* requests between the two looks, with their keys
    \* ghosts
    allowed,  \* <<client, time>> of each request that passed the limiter
    recorded  \* <<key, time>> of each request that passed the store

hookVars == <<clock, window, keys, arrived, between, allowed, recorded>>

Never == HookTime + 1

HookTypeOK ==
    /\ clock \in 0 .. HookTime /\ arrived \in 0 .. MaxRequests
    /\ window \in [Clients -> Seq(0 .. HookTime)]
    /\ keys \in [IdemKeys -> 0 .. Never]
    /\ between \subseteq (1 .. MaxRequests) \X IdemKeys
    /\ Cardinality({c \in Clients : window[c] # <<>>}) <= MaxClients
    /\ Cardinality({k \in IdemKeys : keys[k] # Never}) <= MaxKeys

HookInit ==
    /\ clock = 0 /\ arrived = 0 /\ between = {}
    /\ window = [c \in Clients |-> <<>>]
    /\ keys = [k \in IdemKeys |-> Never]
    /\ allowed = <<>> /\ recorded = <<>>

-----------------------------------------------------------------------------
(* SlidingWindowRateLimiter::allow, under its mutex.  The clock is read    *)
(* just before the mutex is taken; a tick is longer than that.             *)

(* retain keeps the times younger than the window.  They are in the order  *)
(* they came in, so these are the last ones.                               *)
Recent(times) ==
    LET old == {i \in DOMAIN times : clock >= times[i] + Window}
    IN  SubSeq(times, Cardinality(old) + 1, Len(times))

Entries(w) == {c \in Clients : w[c] # <<>>}

Pruned == [c \in Clients |-> Recent(window[c])]

(* Mutant: the client seen last is evicted. *)
EvictedNewest(w) ==
    {[w EXCEPT ![c] = <<>>] : c \in {d \in Entries(w) :
        \A e \in Entries(w) : Last(w[d]) >= Last(w[e])}}

(* The maps that may be left when the client not seen for longest is removed. *)
Evicted(w) ==
    {[w EXCEPT ![c] = <<>>] : c \in {d \in Entries(w) :
        \A e \in Entries(w) : Last(w[d]) <= Last(w[e])}}

(* What the maps may be when c's entry is looked up. *)
WithRoom(c) ==
    IF window[c] # <<>> \/ Cardinality(Entries(window)) < MaxClients THEN {window}
    ELSE IF Cardinality(Entries(Pruned)) < MaxClients THEN {Pruned}
    ELSE Evicted(Pruned)

(* A request comes with any client and key.  Most of what may happen to it *)
(* here ends it: too many requests, no key, or a key that is known.        *)
Allow(c) ==
    /\ arrived < MaxRequests /\ arrived' = arrived + 1
    /\ \E k \in IdemKeys \cup {NoKey} : \E w \in WithRoom(c) :
          LET times == Recent(w[c])
              pass == Len(times) < Limit
          IN /\ window' = [w EXCEPT ![c] = IF pass THEN Append(times, clock) ELSE times]
             /\ between' = IF pass /\ k # NoKey THEN between \cup {<<arrived', k>>} ELSE between
             /\ allowed' = IF pass THEN Append(allowed, <<c, clock>>) ELSE allowed
    /\ UNCHANGED <<clock, keys, recorded>>

-----------------------------------------------------------------------------
(* IdempotencyStore::record_if_new, under its mutex; then the turn. *)

Fresh ==
    [k \in IdemKeys |-> IF keys[k] # Never /\ clock < keys[k] + Ttl THEN keys[k] ELSE Never]

Recorded(s) == {k \in IdemKeys : s[k] # Never}

(* The tables that may be left when an oldest key is removed. *)
WithoutOldest(s) ==
    {[s EXCEPT ![k] = Never] : k \in {l \in Recorded(s) : \A m \in Recorded(s) : s[l] <= s[m]}}

(* Mutant: a full store is emptied. *)
RoomMadeAll ==
    IF Cardinality(Recorded(Fresh)) < MaxKeys THEN {Fresh} ELSE {[k \in IdemKeys |-> Never]}

RoomMade ==
    IF Cardinality(Recorded(Fresh)) < MaxKeys THEN {Fresh} ELSE WithoutOldest(Fresh)

Record(r, k) ==
    /\ <<r, k>> \in between
    /\ between' = between \ {<<r, k>>}
    /\ \/ Fresh[k] # Never /\ keys' = Fresh /\ UNCHANGED recorded
       \/ /\ Fresh[k] = Never
          /\ \E s \in RoomMade : keys' = [s EXCEPT ![k] = clock]
          /\ recorded' = Append(recorded, <<k, clock>>)
    /\ UNCHANGED <<clock, window, arrived, allowed>>

HookTick ==
    /\ clock < HookTime
    /\ clock' = clock + 1
    /\ UNCHANGED <<window, keys, arrived, between, allowed, recorded>>

HookNext ==
    \/ \E c \in Clients : Allow(c)
    \/ \E r \in 1 .. arrived, k \in IdemKeys : Record(r, k)
    \/ HookTick

HookSpec == HookInit /\ [][HookNext]_hookVars

-----------------------------------------------------------------------------
(* Those of a log, but x, from the time of its entry i to its entry j. *)
OthersBetween(log, x, i, j) ==
    {log[m][1] : m \in {n \in 1 .. j : log[n][2] >= log[i][2]}} \ {x}

(* No client passes the limiter more than limit_per_window times within a  *)
(* window, unless max_keys others came meanwhile and pushed its entry out. *)
RateHolds ==
    \A c \in Clients, i \in DOMAIN allowed, j \in DOMAIN allowed :
        /\ i <= j /\ allowed[i][1] = c /\ allowed[j][1] = c
        /\ allowed[j][2] < allowed[i][2] + Window
        /\ Cardinality({m \in i .. j : allowed[m][1] = c}) > Limit
        => Cardinality(OthersBetween(allowed, c, i, j)) >= MaxClients

(* A key that is sent again within the ttl is not worked on again, unless  *)
(* max_keys others came meanwhile and pushed it out.                       *)
WorkedOnOnce ==
    \A i \in DOMAIN recorded, j \in DOMAIN recorded :
        /\ i < j /\ recorded[i][1] = recorded[j][1]
        /\ recorded[j][2] < recorded[i][2] + Ttl
        => Cardinality(OthersBetween(recorded, recorded[i][1], i, j)) >= MaxKeys

=============================================================================
