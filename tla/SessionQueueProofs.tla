------------------------- MODULE SessionQueueProofs -------------------------
(***************************************************************************)
(* The session queue for every set of connections, sessions and slots and  *)
(* every max_queue_depth.  Inductive invariants, the later resting on the  *)
(* earlier ones: the shape of the state (Shape), what the pending counter  *)
(* counts (Counts), the slot a connection uses being the one in the map    *)
(* (Mapped), which evict_idle alone can break, and, when it does not, a    *)
(* slot's permit and waiters being its users, each once (Lined), so that   *)
(* the queue implements SessionTurns.                                      *)
(***************************************************************************)
EXTENDS SessionQueue, FiniteSetTheorems, SequenceLemmas, TLAPS

(* Everything TypeOK says but that pending is not negative, and who has a  *)
(* slot: the connections that are inside acquire or hold a guard.          *)
Shape ==
    /\ slots \in [Sessions -> Slots \cup {NoSlot}]
    /\ pending \in [Slots -> Int]
    /\ permit \in [Slots -> Conns \cup {Nobody}]
    /\ waiters \in [Slots -> Seq(Conns)]
    /\ stale \in [Slots -> BOOLEAN]
    /\ pc \in [Conns -> PCs]
    /\ slot \in [Conns -> Slots \cup {NoSlot}]
    /\ \A c \in Conns : pc[c] = "out" <=> slot[c] = NoSlot

(* A guard is held with the permit of its slot. *)
Owned ==
    \A c \in Conns : pc[c] \in {"holding", "dropping"} => permit[slot[c]] = c

(* Whoever is inside acquire or holds a guard uses the slot of the map. *)
Mapped ==
    \A c \in Conns : pc[c] # "out" => slot[c] = slots[SessionOf[c]]

-----------------------------------------------------------------------------
USE SessionOfAssumption, DepthAssumption, NullAssumption

(* Leaving a queue gives a queue.                                          *)
LEMMA RemoveAtType ==
    ASSUME NEW S, NEW s \in Seq(S), NEW i \in 1 .. Len(s)
    PROVE  RemoveAt(s, i) \in Seq(S)
<1>1. \A j \in 1 .. i-1 : s[j] \in S
  BY ElementOfSeq, LenProperties
<1>2. \A j \in i+1 .. Len(s) : s[j] \in S
  BY ElementOfSeq, LenProperties
<1>3. SubSeq(s, 1, i-1) \in Seq(S)
  BY <1>1, SubSeqProperties, LenProperties
<1>4. SubSeq(s, i+1, Len(s)) \in Seq(S)
  BY <1>2, SubSeqProperties, LenProperties
<1> QED
  BY <1>3, <1>4, ConcatProperties DEF RemoveAt

(* Handing a permit over keeps permits and waiters in their types.         *)
LEMMA HandOverType ==
    ASSUME Shape, NEW sl \in Slots, HandOver(sl)
    PROVE  /\ permit' \in [Slots -> Conns \cup {Nobody}]
           /\ waiters' \in [Slots -> Seq(Conns)]
<1>1. CASE waiters[sl] = <<>>
  BY <1>1 DEF HandOver, Shape
<1>2. CASE waiters[sl] # <<>>
  <2>1. /\ Head(waiters[sl]) \in Conns
        /\ Tail(waiters[sl]) \in Seq(Conns)
    BY <1>2, HeadTailProperties DEF Shape
  <2>2. /\ permit' = [permit EXCEPT ![sl] = Head(waiters[sl])]
        /\ waiters' = [waiters EXCEPT ![sl] = Tail(waiters[sl])]
    BY <1>2 DEF HandOver
  <2>3. permit' \in [Slots -> Conns \cup {Nobody}]
    BY <2>1, <2>2 DEF Shape
  <2> DEFINE t == Tail(waiters[sl])
  <2>4. waiters' = [waiters EXCEPT ![sl] = t] /\ t \in Seq(Conns)
    BY <2>1, <2>2
  <2> HIDE DEF t
  <2>5. waiters' \in [Slots -> Seq(Conns)]
    BY <2>4 DEF Shape
  <2> QED
    BY <2>3, <2>5
<1> QED
  BY <1>1, <1>2

(* So does giving one up.                                                  *)
LEMMA AbandonType ==
    ASSUME Shape, NEW c \in Conns, NEW sl \in Slots, Abandon(c, sl)
    PROVE  /\ permit' \in [Slots -> Conns \cup {Nobody}]
           /\ waiters' \in [Slots -> Seq(Conns)]
<1>1. CASE permit[sl] = c /\ HandOver(sl)
  BY <1>1, HandOverType
<1>2. CASE \E i \in DOMAIN waiters[sl] :
             /\ waiters' = [waiters EXCEPT ![sl] = RemoveAt(@, i)]
             /\ UNCHANGED permit
  <2>1. PICK i \in DOMAIN waiters[sl] :
             /\ waiters' = [waiters EXCEPT ![sl] = RemoveAt(@, i)]
             /\ UNCHANGED permit
    BY <1>2
  <2>2. RemoveAt(waiters[sl], i) \in Seq(Conns)
    BY RemoveAtType, LenProperties DEF Shape
  <2> QED
    BY <2>1, <2>2 DEF Shape
<1> QED
  BY <1>1, <1>2 DEF Abandon

(* The queue starts empty.                                                 *)
LEMMA ShapeInit == Init => Shape
  BY EmptySeq DEF Init, Shape, PCs

(* Every step keeps the shape of the state.                                *)
LEMMA ShapeStep == Shape /\ [NextEvicting]_vars => Shape'
<1> SUFFICES ASSUME Shape, [NextEvicting]_vars PROVE Shape'
  OBVIOUS
<1> USE DEF Shape, PCs
<1>1. ASSUME NEW c \in Conns, CloneSlot(c) PROVE Shape'
  BY <1>1 DEF CloneSlot
<1>2. ASSUME NEW c \in Conns, InsertSlot(c) PROVE Shape'
  <2>1. PICK new \in Slots :
          /\ slots' = [slots EXCEPT ![SessionOf[c]] = new]
          /\ slot' = [slot EXCEPT ![c] = new]
          /\ pending' = [pending EXCEPT ![new] = 0]
          /\ permit' = [permit EXCEPT ![new] = Nobody]
          /\ waiters' = [waiters EXCEPT ![new] = <<>>]
          /\ stale' = [stale EXCEPT ![new] = FALSE]
    BY <1>2 DEF InsertSlot
  <2>2. <<>> \in Seq(Conns)
    BY EmptySeq
  <2>3. waiters' \in [Slots -> Seq(Conns)]
    BY <2>1, <2>2
  <2>4. pending' \in [Slots -> Int]
    BY <2>1
  <2>7. permit' \in [Slots -> Conns \cup {Nobody}]
    BY <2>1
  <2>5. stale' \in [Slots -> BOOLEAN] /\ slots' \in [Sessions -> Slots \cup {NoSlot}]
    BY <2>1
  <2>6. /\ pc' \in [Conns -> PCs] /\ slot' \in [Conns -> Slots \cup {NoSlot}]
        /\ \A d \in Conns : pc'[d] = "out" <=> slot'[d] = NoSlot
    BY <1>2, <2>1 DEF InsertSlot
  <2> QED
    BY <2>3, <2>4, <2>5, <2>6, <2>7
<1>3. ASSUME NEW c \in Conns, Count(c) PROVE Shape'
  BY <1>3 DEF Count
<1>4. ASSUME NEW c \in Conns, GiveUp(c) PROVE Shape'
  BY <1>4 DEF GiveUp
<1>5. ASSUME NEW c \in Conns, Enqueue(c) PROVE Shape'
  <2>1. slot[c] \in Slots
    BY <1>5 DEF Enqueue
  <2> DEFINE q == Append(waiters[slot[c]], c)
  <2>2. q \in Seq(Conns)
    BY <2>1, AppendProperties
  <2>3. \/ waiters' = [waiters EXCEPT ![slot[c]] = q]
        \/ UNCHANGED waiters
    BY <1>5 DEF Enqueue
  <2> HIDE DEF q
  <2>4. waiters' \in [Slots -> Seq(Conns)]
    BY <2>1, <2>2, <2>3
  <2>5. permit' = [permit EXCEPT ![slot[c]] = c] \/ permit' = permit
    BY <1>5 DEF Enqueue
  <2>7. permit' \in [Slots -> Conns \cup {Nobody}]
    BY <2>1, <2>5
  <2>6. /\ UNCHANGED <<slots, pending, stale, slot>>
        /\ pc' = [pc EXCEPT ![c] = "queued"] /\ pc[c] # "out"
    BY <1>5 DEF Enqueue
  <2> QED
    BY <2>4, <2>6, <2>7
<1>6. ASSUME NEW c \in Conns, Start(c) PROVE Shape'
  BY <1>6 DEF Start, Owns
<1>7. ASSUME NEW c \in Conns, Expire(c) PROVE Shape'
  BY <1>7 DEF Expire
<1>8. ASSUME NEW c \in Conns, DropFuture(c) PROVE Shape'
  <2>1. slot[c] \in Slots
    BY <1>8 DEF DropFuture
  <2>2. /\ permit' \in [Slots -> Conns \cup {Nobody}]
        /\ waiters' \in [Slots -> Seq(Conns)]
    BY <1>8, <2>1, AbandonType DEF DropFuture
  <2> QED
    BY <1>8, <2>2 DEF DropFuture
<1>9. ASSUME NEW c \in Conns, DropGuard(c) PROVE Shape'
  BY <1>9 DEF DropGuard
<1>10. ASSUME NEW c \in Conns, DropPermit(c) PROVE Shape'
  <2>1. slot[c] \in Slots
    BY <1>10 DEF DropPermit
  <2>2. /\ permit' \in [Slots -> Conns \cup {Nobody}]
        /\ waiters' \in [Slots -> Seq(Conns)]
    BY <1>10, <2>1, HandOverType DEF DropPermit
  <2> QED
    BY <1>10, <2>2 DEF DropPermit
<1>11. ASSUME NEW sl \in Slots, Age(sl) PROVE Shape'
  BY <1>11 DEF Age
<1>12. ASSUME NEW s \in Sessions, EvictIdle(s) PROVE Shape'
  BY <1>12 DEF EvictIdle
<1>13. CASE UNCHANGED vars
  BY <1>13 DEF vars
<1> QED
  BY <1>1, <1>2, <1>3, <1>4, <1>5, <1>6, <1>7, <1>8, <1>9, <1>10, <1>11,
     <1>12, <1>13 DEF NextEvicting, Next, Step

-----------------------------------------------------------------------------
(* Mutual exclusion.  Two guards of one session have the same slot (Mapped)*)
(* and own its permit (Owned), so they are one.                            *)

(* A release changes the permit of no other slot.                          *)
LEMMA HandOverOwner ==
    ASSUME Shape, NEW sl \in Slots, HandOver(sl)
    PROVE  \A t \in Slots : t # sl => permit'[t] = permit[t]
  BY DEF HandOver, Shape

(* Nobody loses a permit while holding a guard.                            *)
LEMMA OwnedStep == Shape /\ Owned /\ [NextEvicting]_vars => Owned'
<1> SUFFICES ASSUME Shape, Owned, [NextEvicting]_vars PROVE Owned'
  OBVIOUS
<1> USE DEF Shape, Owned
<1>1. ASSUME NEW c \in Conns, CloneSlot(c) PROVE Owned'
  BY <1>1 DEF CloneSlot
<1>2. ASSUME NEW c \in Conns, InsertSlot(c) PROVE Owned'
  <2>1. PICK new \in Slots :
          /\ \A d \in Conns : slot[d] # new
          /\ slot' = [slot EXCEPT ![c] = new]
          /\ permit' = [permit EXCEPT ![new] = Nobody]
    BY <1>2 DEF InsertSlot, Unreferenced
  <2> QED
    BY <1>2, <2>1 DEF InsertSlot
<1>3. ASSUME NEW c \in Conns, Count(c) PROVE Owned'
  BY <1>3 DEF Count
<1>4. ASSUME NEW c \in Conns, GiveUp(c) PROVE Owned'
  BY <1>4 DEF GiveUp
<1>5. ASSUME NEW c \in Conns, Enqueue(c) PROVE Owned'
  <2>1. /\ slot[c] \in Slots /\ slot' = slot
        /\ pc' = [pc EXCEPT ![c] = "queued"]
    BY <1>5 DEF Enqueue
  <2>2. \/ permit[slot[c]] = Nobody /\ permit' = [permit EXCEPT ![slot[c]] = c]
        \/ permit' = permit
    BY <1>5 DEF Enqueue
  <2> QED
    BY <2>1, <2>2
<1>6. ASSUME NEW c \in Conns, Start(c) PROVE Owned'
  BY <1>6 DEF Start, Owns
<1>7. ASSUME NEW c \in Conns, Expire(c) PROVE Owned'
  BY <1>7 DEF Expire
<1>8. ASSUME NEW c \in Conns, DropFuture(c) PROVE Owned'
  <2>1. /\ slot[c] \in Slots /\ slot' = slot
        /\ pc' = [pc EXCEPT ![c] = "leaving"]
    BY <1>8 DEF DropFuture
  <2>2. \/ permit[slot[c]] = c /\ HandOver(slot[c])
        \/ permit' = permit
    BY <1>8 DEF DropFuture, Abandon
  <2>3. \/ permit[slot[c]] = c /\ \A t \in Slots : t # slot[c] => permit'[t] = permit[t]
        \/ permit' = permit
    BY <2>1, <2>2, HandOverOwner
  <2> QED
    BY <1>8, <2>1, <2>3 DEF DropFuture
<1>9. ASSUME NEW c \in Conns, DropGuard(c) PROVE Owned'
  BY <1>9 DEF DropGuard
<1>10. ASSUME NEW c \in Conns, DropPermit(c) PROVE Owned'
  <2>1. /\ slot[c] \in Slots /\ permit[slot[c]] = c
        /\ slot' = [slot EXCEPT ![c] = NoSlot]
        /\ pc' = [pc EXCEPT ![c] = "out"]
    BY <1>10 DEF DropPermit
  <2>2. \A t \in Slots : t # slot[c] => permit'[t] = permit[t]
    BY <1>10, <2>1, HandOverOwner DEF DropPermit
  <2> QED
    BY <2>1, <2>2
<1>11. ASSUME NEW sl \in Slots, Age(sl) PROVE Owned'
  BY <1>11 DEF Age
<1>12. ASSUME NEW s \in Sessions, EvictIdle(s) PROVE Owned'
  BY <1>12 DEF EvictIdle
<1>13. CASE UNCHANGED vars
  BY <1>13 DEF vars
<1> QED
  BY <1>1, <1>2, <1>3, <1>4, <1>5, <1>6, <1>7, <1>8, <1>9, <1>10, <1>11,
     <1>12, <1>13 DEF NextEvicting, Next, Step

(* Without evictions, a slot in use stays in the map.                      *)
LEMMA MappedStep == Shape /\ Mapped /\ [Next]_vars => Mapped'
<1> SUFFICES ASSUME Shape, Mapped, [Next]_vars PROVE Mapped'
  OBVIOUS
<1> USE DEF Shape, Mapped
<1>1. ASSUME NEW c \in Conns, CloneSlot(c) PROVE Mapped'
  BY <1>1 DEF CloneSlot
<1>2. ASSUME NEW c \in Conns, InsertSlot(c) PROVE Mapped'
  <2>1. PICK new \in Slots :
          /\ slots' = [slots EXCEPT ![SessionOf[c]] = new]
          /\ slot' = [slot EXCEPT ![c] = new]
    BY <1>2 DEF InsertSlot
  <2>2. \A d \in Conns : SessionOf[d] = SessionOf[c] => pc[d] = "out"
    BY <1>2 DEF InsertSlot
  <2> QED
    BY <1>2, <2>1, <2>2 DEF InsertSlot
<1>3. ASSUME NEW c \in Conns,
             \/ Count(c) \/ GiveUp(c) \/ Enqueue(c) \/ Start(c) \/ Expire(c)
             \/ DropFuture(c) \/ DropGuard(c) \/ DropPermit(c)
      PROVE  Mapped'
  <2>1. slots' = slots /\ pc[c] # "out"
    BY <1>3 DEF Count, GiveUp, Enqueue, Start, Owns, Expire, DropFuture, DropGuard, DropPermit
  <2>2. \/ slot' = slot /\ \E p \in PCs : pc' = [pc EXCEPT ![c] = p]
        \/ slot' = [slot EXCEPT ![c] = NoSlot] /\ pc' = [pc EXCEPT ![c] = "out"]
    BY <1>3 DEF Count, GiveUp, Enqueue, Start, Expire, DropFuture, DropGuard,
                DropPermit, PCs
  <2> QED
    BY <2>1, <2>2
<1>4. ASSUME NEW sl \in Slots, Age(sl) PROVE Mapped'
  BY <1>4 DEF Age
<1>5. CASE UNCHANGED vars
  BY <1>5 DEF vars
<1> QED
  BY <1>1, <1>2, <1>3, <1>4, <1>5 DEF Next, Step

(* session_queue.rs:3: as long as nothing evicts slots, which is the       *)
(* gateway as it is, a session has at most one guard, whatever the number  *)
(* of connections and whichever of them time out or are refused.           *)
THEOREM QueueSerializesTurns == Spec => []MutualExclusion
<1>1. Init => Shape /\ Owned /\ Mapped
  <2>1. Init => Owned /\ Mapped
    BY DEF Init, Owned, Mapped
  <2> QED
    BY <2>1, ShapeInit
<1>2. Shape /\ Owned /\ Mapped /\ [Next]_vars => (Shape /\ Owned /\ Mapped)'
  <2>1. [Next]_vars => [NextEvicting]_vars
    BY DEF NextEvicting
  <2> QED
    BY <2>1, ShapeStep, OwnedStep, MappedStep
<1>3. Shape /\ Owned /\ Mapped => MutualExclusion
  <2> SUFFICES ASSUME Owned, Mapped,
                      NEW c \in Conns, NEW d \in Conns,
                      SessionOf[c] = SessionOf[d],
                      pc[c] = "holding", pc[d] = "holding"
               PROVE  c = d
    BY DEF MutualExclusion
  <2>1. slot[c] = slot[d]
    BY DEF Mapped
  <2> QED
    BY <2>1 DEF Owned
<1> QED
  BY <1>1, <1>2, <1>3, PTL DEF Spec

-----------------------------------------------------------------------------
(* The pending counter.  It counts the connections that are counted on the *)
(* slot, so it never goes below zero, and what is admitted is within the   *)
(* depth: the check in acquire reads a value that can only be too large.   *)

CountedOn(sl) == {c \in Conns : slot[c] = sl /\ Counted(c)}
AdmittedOn(sl) == {c \in Conns : slot[c] = sl /\ Admitted(c)}

Counts ==
    \A sl \in Slots :
        /\ pending[sl] = Cardinality(CountedOn(sl))
        /\ Cardinality(AdmittedOn(sl)) <= MaxQueueDepth

(* The connections of a slot can be counted.                               *)
LEMMA OnFinite ==
    ASSUME NEW sl
    PROVE  /\ IsFiniteSet(CountedOn(sl)) /\ Cardinality(CountedOn(sl)) \in Nat
           /\ IsFiniteSet(AdmittedOn(sl)) /\ Cardinality(AdmittedOn(sl)) \in Nat
           /\ Cardinality(AdmittedOn(sl)) <= Cardinality(CountedOn(sl))
<1>1. CountedOn(sl) \in SUBSET Conns
  BY DEF CountedOn
<1>2. AdmittedOn(sl) \in SUBSET CountedOn(sl)
  BY DEF CountedOn, AdmittedOn, Admitted
<1>3. IsFiniteSet(CountedOn(sl))
  BY <1>1, FS_Subset, ConnsAssumption
<1>4. /\ IsFiniteSet(AdmittedOn(sl))
      /\ Cardinality(AdmittedOn(sl)) <= Cardinality(CountedOn(sl))
  BY <1>2, <1>3, FS_Subset
<1> QED
  BY <1>3, <1>4, FS_CardinalityType

(* A step that counts nobody in or out leaves Counts alone. *)
LEMMA CountsSame ==
    ASSUME Counts, UNCHANGED pending,
           \A sl \in Slots : /\ CountedOn(sl)' = CountedOn(sl)
                             /\ AdmittedOn(sl)' = AdmittedOn(sl)
    PROVE  Counts'
  BY DEF Counts

(* A step that counts one connection out of its slot. *)
LEMMA CountsOut ==
    ASSUME Shape, Counts, NEW c \in Conns, slot[c] \in Slots, Counted(c),
           pending' = [pending EXCEPT ![slot[c]] = @ - 1],
           \A sl \in Slots : /\ CountedOn(sl)' = CountedOn(sl) \ {c}
                             /\ AdmittedOn(sl)' = AdmittedOn(sl) \ {c}
    PROVE  Counts'
<1> SUFFICES ASSUME NEW sl \in Slots
             PROVE  /\ pending'[sl] = Cardinality(CountedOn(sl) \ {c})
                    /\ Cardinality(AdmittedOn(sl) \ {c}) <= MaxQueueDepth
  BY DEF Counts
<1>1. c \in CountedOn(sl) <=> sl = slot[c]
  BY DEF CountedOn
<1>2. /\ Cardinality(CountedOn(sl) \ {c}) =
            IF sl = slot[c] THEN Cardinality(CountedOn(sl)) - 1
                            ELSE Cardinality(CountedOn(sl))
      /\ Cardinality(AdmittedOn(sl) \ {c}) <= Cardinality(AdmittedOn(sl))
  <2>1. Cardinality(CountedOn(sl) \ {c}) =
            IF c \in CountedOn(sl) THEN Cardinality(CountedOn(sl)) - 1
                                  ELSE Cardinality(CountedOn(sl))
    BY OnFinite, FS_RemoveElement
  <2>2. Cardinality(AdmittedOn(sl) \ {c}) <= Cardinality(AdmittedOn(sl))
    BY OnFinite, FS_Subset, AdmittedOn(sl) \ {c} \in SUBSET AdmittedOn(sl)
  <2> QED
    BY <1>1, <2>1, <2>2
<1>3. pending'[sl] = IF sl = slot[c] THEN pending[sl] - 1 ELSE pending[sl]
  BY DEF Shape
<1>4. /\ Cardinality(AdmittedOn(sl) \ {c}) \in Nat
      /\ Cardinality(AdmittedOn(sl)) \in Nat
  BY OnFinite, FS_RemoveElement, FS_CardinalityType
<1> QED
  BY <1>2, <1>3, <1>4, OnFinite DEF Counts

(* Every step that moves a connection in or out moves the counter.         *)
LEMMA CountsStep == Shape /\ Counts /\ [NextEvicting]_vars => Counts'
<1> SUFFICES ASSUME Shape, Counts, [NextEvicting]_vars PROVE Counts'
  OBVIOUS
<1> USE DEF Shape
<1>1. ASSUME NEW c \in Conns, CloneSlot(c) PROVE Counts'
  <2>1. \A sl \in Slots : /\ CountedOn(sl)' = CountedOn(sl)
                          /\ AdmittedOn(sl)' = AdmittedOn(sl)
    BY <1>1 DEF CloneSlot, CountedOn, AdmittedOn, Admitted, Counted
  <2> QED
    BY <1>1, <2>1, CountsSame DEF CloneSlot
<1>2. ASSUME NEW c \in Conns, InsertSlot(c) PROVE Counts'
  <2>1. PICK new \in Slots :
          /\ \A d \in Conns : slot[d] # new
          /\ slot' = [slot EXCEPT ![c] = new]
          /\ pending' = [pending EXCEPT ![new] = 0]
    BY <1>2 DEF InsertSlot, Unreferenced
  <2>2. \A sl \in Slots : /\ CountedOn(sl)' = CountedOn(sl)
                          /\ AdmittedOn(sl)' = AdmittedOn(sl)
    BY <1>2, <2>1 DEF InsertSlot, CountedOn, AdmittedOn, Admitted, Counted
  <2>3. CountedOn(new) = {}
    BY <2>1 DEF CountedOn
  <2>4. pending' = pending
    BY <2>1, <2>3, FS_EmptySet DEF Counts
  <2> QED
    BY <2>2, <2>4, CountsSame
<1>3. ASSUME NEW c \in Conns, Count(c) PROVE Counts'
  <2>1. /\ slot[c] \in Slots /\ slot' = slot /\ pc[c] = "cloned"
        /\ pending' = [pending EXCEPT ![slot[c]] = @ + 1]
        /\ pc' = [pc EXCEPT ![c] = IF Full(pending[slot[c]]) THEN "refused" ELSE "counted"]
    BY <1>3 DEF Count
  <2> SUFFICES ASSUME NEW sl \in Slots
               PROVE  /\ pending'[sl] = Cardinality(CountedOn(sl)')
                      /\ Cardinality(AdmittedOn(sl)') <= MaxQueueDepth
    BY DEF Counts
  <2>2. CASE sl # slot[c]
    <3>1. CountedOn(sl)' = CountedOn(sl) /\ AdmittedOn(sl)' = AdmittedOn(sl)
      BY <2>1, <2>2 DEF CountedOn, AdmittedOn, Admitted, Counted
    <3> QED
      BY <2>1, <2>2, <3>1 DEF Counts
  <2>3. CASE sl = slot[c]
    <3>1. CountedOn(sl)' = CountedOn(sl) \cup {c} /\ c \notin CountedOn(sl)
      BY <2>1, <2>3 DEF CountedOn, Counted
    <3>5. Cardinality(CountedOn(sl) \cup {c}) = Cardinality(CountedOn(sl)) + 1
      BY <3>1, OnFinite, FS_AddElement
    <3>6. pending'[sl] = pending[sl] + 1
      BY <2>1, <2>3
    <3>2. pending'[sl] = Cardinality(CountedOn(sl)')
      BY <3>1, <3>5, <3>6 DEF Counts
    <3>3. CASE Full(pending[sl])
      <4>1. AdmittedOn(sl)' = AdmittedOn(sl)
        BY <2>1, <2>3, <3>3 DEF AdmittedOn, Admitted, Counted
      <4> QED
        BY <3>2, <4>1 DEF Counts
    <3>4. CASE ~Full(pending[sl])
      <4>1. AdmittedOn(sl)' = AdmittedOn(sl) \cup {c} /\ c \notin AdmittedOn(sl)
        BY <2>1, <2>3, <3>4 DEF AdmittedOn, Admitted, Counted
      <4>2. Cardinality(AdmittedOn(sl)') = Cardinality(AdmittedOn(sl)) + 1
        BY <4>1, OnFinite, FS_AddElement
      <4>3. Cardinality(AdmittedOn(sl)) < MaxQueueDepth
        BY <3>4, OnFinite DEF Counts, Full
      <4> QED
        BY <3>2, <4>2, <4>3, OnFinite
    <3> QED
      BY <3>3, <3>4
  <2> QED
    BY <2>2, <2>3
<1>4. ASSUME NEW c \in Conns, GiveUp(c) PROVE Counts'
  <2>1. /\ slot[c] \in Slots /\ pc[c] \in {"refused", "leaving"}
        /\ slot' = [slot EXCEPT ![c] = NoSlot] /\ pc' = [pc EXCEPT ![c] = "out"]
        /\ pending' = [pending EXCEPT ![slot[c]] = @ - 1]
    BY <1>4 DEF GiveUp
  <2>2. \A sl \in Slots : /\ CountedOn(sl)' = CountedOn(sl) \ {c}
                          /\ AdmittedOn(sl)' = AdmittedOn(sl) \ {c}
    BY <2>1 DEF CountedOn, AdmittedOn, Admitted, Counted
  <2> QED
    BY <2>1, <2>2, CountsOut DEF Counted
<1>5. ASSUME NEW c \in Conns,
             \/ Enqueue(c) \/ Start(c) \/ Expire(c) \/ DropFuture(c)
      PROVE  Counts'
  <2>1. pending' = pending /\ slot' = slot
    BY <1>5 DEF Enqueue, Start, Expire, DropFuture
  <2>2. \E p \in {"queued", "holding", "expired", "leaving"} :
            /\ pc[c] \in {"counted", "queued", "expired"}
            /\ pc' = [pc EXCEPT ![c] = p]
    BY <1>5 DEF Enqueue, Start, Owns, Expire, DropFuture
  <2>3. \A sl \in Slots : /\ CountedOn(sl)' = CountedOn(sl)
                          /\ AdmittedOn(sl)' = AdmittedOn(sl)
    BY <2>1, <2>2 DEF CountedOn, AdmittedOn, Admitted, Counted
  <2> QED
    BY <2>1, <2>3, CountsSame
<1>6. ASSUME NEW c \in Conns, DropGuard(c) PROVE Counts'
  <2>1. /\ slot[c] \in Slots /\ pc[c] = "holding" /\ slot' = slot
        /\ pc' = [pc EXCEPT ![c] = "dropping"]
        /\ pending' = [pending EXCEPT ![slot[c]] = @ - 1]
    BY <1>6 DEF DropGuard
  <2>2. \A sl \in Slots : /\ CountedOn(sl)' = CountedOn(sl) \ {c}
                          /\ AdmittedOn(sl)' = AdmittedOn(sl) \ {c}
    BY <2>1 DEF CountedOn, AdmittedOn, Admitted, Counted
  <2> QED
    BY <2>1, <2>2, CountsOut DEF Counted
<1>7. ASSUME NEW c \in Conns, DropPermit(c) PROVE Counts'
  <2>1. \A sl \in Slots : /\ CountedOn(sl)' = CountedOn(sl)
                          /\ AdmittedOn(sl)' = AdmittedOn(sl)
    BY <1>7 DEF DropPermit, CountedOn, AdmittedOn, Admitted, Counted
  <2> QED
    BY <1>7, <2>1, CountsSame DEF DropPermit
<1>8. CASE UNCHANGED <<pending, pc, slot>>
  <2>1. \A sl \in Slots : /\ CountedOn(sl)' = CountedOn(sl)
                          /\ AdmittedOn(sl)' = AdmittedOn(sl)
    BY <1>8 DEF CountedOn, AdmittedOn, Admitted, Counted
  <2> QED
    BY <1>8, <2>1, CountsSame
<1>9. (\E sl \in Slots : Age(sl)) \/ (\E s \in Sessions : EvictIdle(s)) \/ UNCHANGED vars
        => UNCHANGED <<pending, pc, slot>>
  BY DEF Age, EvictIdle, vars
<1> QED
  BY <1>1, <1>2, <1>3, <1>4, <1>5, <1>6, <1>7, <1>8, <1>9 DEF NextEvicting, Next, Step

(* Nobody is counted yet.                                                  *)
LEMMA CountsInit == Init => Counts
<1> SUFFICES ASSUME Init, NEW sl \in Slots
             PROVE  /\ pending[sl] = Cardinality(CountedOn(sl))
                    /\ Cardinality(AdmittedOn(sl)) <= MaxQueueDepth
  BY DEF Counts
<1>1. CountedOn(sl) = {} /\ AdmittedOn(sl) = {}
  BY DEF Init, CountedOn, AdmittedOn, Admitted, Counted
<1> QED
  BY <1>1, FS_EmptySet DEF Init

(* The pending counter counts the connections that are admitted or queued, *)
(* evicted slots included.                                                 *)
THEOREM CountsInvariant == SpecEvicting => [](Shape /\ Counts)
<1>1. Init => Shape /\ Counts
  BY ShapeInit, CountsInit
<1>2. Shape /\ Counts /\ [NextEvicting]_vars => (Shape /\ Counts)'
  BY ShapeStep, CountsStep
<1> QED
  BY <1>1, <1>2, PTL DEF SpecEvicting

(* Every step keeps the variables in their types; in particular no path    *)
(* of acquire or drop takes the unsigned pending counter below zero, even  *)
(* with evict_idle running.                                                *)
THEOREM TypeCorrect == SpecEvicting => []TypeOK
<1>1. Shape /\ Counts => TypeOK
  <2> SUFFICES ASSUME Shape, Counts PROVE \A sl \in Slots : pending[sl] \in Nat
    BY DEF Shape, TypeOK
  <2> QED
    BY OnFinite DEF Counts
<1> QED
  BY <1>1, CountsInvariant, PTL

(* max_queue_depth bounds the requests admitted to a slot, running and     *)
(* waiting together, although admission is one fetch_add that is undone    *)
(* later when it fails.                                                    *)
THEOREM AdmissionBounded == SpecEvicting => []DepthBounded
<1>1. Counts => DepthBounded
  BY DEF Counts, DepthBounded, AdmittedOn
<1> QED
  BY <1>1, CountsInvariant, PTL

-----------------------------------------------------------------------------
(* The line.  A slot's permit and its semaphore's waiters are the          *)
(* connections that wait or use it, each once (Lined); and no two sessions *)
(* share a slot (Apart).                                                   *)

Waits(c) == pc[c] \in {"queued", "expired"}

Free == \A sl \in Slots : permit[sl] = Nobody => waiters[sl] = <<>>

Granted ==
    \A sl \in Slots : permit[sl] # Nobody =>
        /\ slot[permit[sl]] = sl
        /\ pc[permit[sl]] \in {"queued", "expired", "holding", "dropping"}

Listed ==
    \A sl \in Slots, c \in Conns :
        c \in Range(waiters[sl]) <=> slot[c] = sl /\ Waits(c) /\ permit[sl] # c

Distinct ==
    \A sl \in Slots : \A i, k \in 1 .. Len(waiters[sl]) :
        waiters[sl][i] = waiters[sl][k] => i = k

Lined == Free /\ Granted /\ Listed /\ Distinct

Apart ==
    \A s, t \in Sessions : slots[s] = slots[t] /\ slots[s] # NoSlot => s = t

(* Only a first acquire maps a session to a slot, and to one nobody uses.   *)
LEMMA ApartStep == Shape /\ Apart /\ [Next]_vars => Apart'
<1> SUFFICES ASSUME Shape, Apart, [Next]_vars PROVE Apart'
  OBVIOUS
<1> USE DEF Shape, Apart
<1>1. ASSUME NEW c \in Conns, InsertSlot(c) PROVE Apart'
  <2>1. PICK new \in Slots :
          /\ \A s \in Sessions : slots[s] # new
          /\ slots' = [slots EXCEPT ![SessionOf[c]] = new]
    BY <1>1 DEF InsertSlot, Unreferenced
  <2> QED
    BY <2>1
<1>2. CASE slots' = slots
  BY <1>2
<1> QED
  BY <1>1, <1>2 DEF Next, Step, CloneSlot, Count, GiveUp, Enqueue, Start, Expire, DropFuture,
     DropGuard, DropPermit, Age, vars

(* A release hands the permit to the first who waits. *)
LEMMA HandsOver ==
    ASSUME Shape, Lined, NEW sl \in Slots, HandOver(sl)
    PROVE  \/ /\ waiters[sl] = <<>> /\ Range(waiters[sl]) = {}
              /\ permit' = [permit EXCEPT ![sl] = Nobody] /\ waiters' = waiters
           \/ \E w \in Conns, t \in Seq(Conns) :
                 /\ permit' = [permit EXCEPT ![sl] = w]
                 /\ waiters' = [waiters EXCEPT ![sl] = t]
                 /\ waiters[sl] = <<w>> \o t
                 /\ slot[w] = sl /\ Waits(w) /\ permit[sl] # w
                 /\ Range(t) = Range(waiters[sl]) \ {w}
                 /\ \A i, k \in 1 .. Len(t) : t[i] = t[k] => i = k
<1>1. CASE waiters[sl] = <<>>
  BY <1>1, RangeEmpty DEF HandOver
<1>2. CASE waiters[sl] # <<>>
  <2> DEFINE w == Head(waiters[sl])
             t == Tail(waiters[sl])
  <2>1. /\ w \in Conns /\ t \in Seq(Conns) /\ w \in Range(waiters[sl])
        /\ Range(t) = Range(waiters[sl]) \ {w}
        /\ \A i, k \in 1 .. Len(t) : t[i] = t[k] => i = k
    BY <1>2, TailLeaves DEF Shape, Lined, Free, Granted, Listed, Distinct
  <2>2. waiters[sl] = <<w>> \o t
    BY <1>2, HeadThenTail DEF Shape
  <2>3. permit' = [permit EXCEPT ![sl] = w] /\ waiters' = [waiters EXCEPT ![sl] = t]
    BY <1>2 DEF HandOver
  <2> HIDE DEF w, t
  <2>4. slot[w] = sl /\ Waits(w) /\ permit[sl] # w
    BY <2>1 DEF Lined, Listed
  <2> QED
    BY <2>1, <2>2, <2>3, <2>4
<1> QED
  BY <1>1, <1>2

(* A future that was not handed the permit leaves the semaphore's line. *)
LEMMA LeavesLine ==
    ASSUME Shape, Lined, NEW c \in Conns, slot[c] \in Slots, permit[slot[c]] # c,
           Abandon(c, slot[c])
    PROVE  /\ permit' = permit
           /\ \E n \in 1 .. Len(waiters[slot[c]]), t \in Seq(Conns) :
                 /\ t = RemoveAt(waiters[slot[c]], n) /\ waiters[slot[c]][n] = c
                 /\ waiters' = [waiters EXCEPT ![slot[c]] = t]
                 /\ Range(t) = Range(waiters[slot[c]]) \ {c}
                 /\ \A i, k \in 1 .. Len(t) : t[i] = t[k] => i = k
<1> DEFINE s == waiters[slot[c]]
<1>1. s \in Seq(Conns) /\ DOMAIN s = 1 .. Len(s)
  BY LenProperties DEF Shape
<1>2. PICK n \in 1 .. Len(s) : s[n] = c /\ waiters' = [waiters EXCEPT ![slot[c]] = RemoveAt(s, n)]
  BY <1>1 DEF Abandon
<1>3. \A i, k \in 1 .. Len(s) : s[i] = s[k] => i = k
  BY DEF Lined, Distinct
<1>4. /\ RemoveAt(s, n) \in Seq(Conns)
      /\ Range(RemoveAt(s, n)) = Range(s) \ {s[n]}
      /\ \A i, k \in 1 .. Len(RemoveAt(s, n)) : RemoveAt(s, n)[i] = RemoveAt(s, n)[k] => i = k
  BY <1>1, <1>2, <1>3, RemoveLeaves
<1>5. permit' = permit
  BY DEF Abandon
<1> QED
  BY <1>2, <1>4, <1>5

(* Every step keeps the permits and the waiters the users of their slots.   *)
LEMMA LinedStep == Shape /\ Owned /\ Lined /\ [Next]_vars => Lined'
<1> SUFFICES ASSUME Shape, Owned, Lined, [Next]_vars PROVE Lined'
  OBVIOUS
<1> USE DEF Waits
<1>t. /\ permit \in [Slots -> Conns \cup {Nobody}] /\ pc \in [Conns -> PCs]
      /\ slot \in [Conns -> Slots \cup {NoSlot}] /\ DOMAIN waiters = Slots
      /\ \A c \in Conns : pc[c] = "out" <=> slot[c] = NoSlot
      /\ Free /\ Granted /\ Listed /\ Distinct /\ Owned
  BY DEF Shape, Lined
(* Steps of one connection outside the semaphore. *)
<1>0. ASSUME NEW c \in Conns, UNCHANGED <<permit, waiters>>,
             \A d \in Conns \ {c} : pc'[d] = pc[d] /\ slot'[d] = slot[d],
             \/ /\ slot'[c] = slot[c]
                /\ pc[c] = "queued" /\ permit[slot[c]] = c /\ pc'[c] = "holding"
             \/ /\ slot'[c] = slot[c]
                /\ pc[c] = "queued" /\ pc'[c] = "expired"
             \/ /\ slot'[c] = slot[c]
                /\ pc[c] = "holding" /\ pc'[c] = "dropping"
             \/ /\ pc[c] \notin {"queued", "expired", "holding", "dropping"}
                /\ pc'[c] \notin {"queued", "expired", "holding", "dropping"}
      PROVE  Lined'
  <2>1. Free' /\ Distinct'
    BY <1>0, <1>t DEF Free, Distinct
  <2>2. Granted'
    BY <1>0, <1>t DEF Granted
  <2>3. Listed'
    <3> SUFFICES ASSUME NEW sl \in Slots, NEW d \in Conns
                 PROVE  d \in Range(waiters[sl]) <=> slot'[d] = sl /\ Waits(d)' /\ permit[sl] # d
      BY <1>0 DEF Listed
    <3>1. CASE d # c
      BY <1>0, <1>t, <3>1 DEF Listed
    <3>2. CASE d = c
      BY <1>0, <1>t, <3>2 DEF Listed
    <3> QED
      BY <3>1, <3>2
  <2> QED
    BY <2>1, <2>2, <2>3 DEF Lined
<1>1. ASSUME NEW c \in Conns,
             \/ CloneSlot(c) \/ Count(c) \/ GiveUp(c) \/ Start(c) \/ Expire(c) \/ DropGuard(c)
      PROVE  Lined'
  <2>1. UNCHANGED <<permit, waiters>>
    BY <1>1 DEF CloneSlot, Count, GiveUp, Start, Expire, DropGuard
  <2>2. \A d \in Conns \ {c} : pc'[d] = pc[d] /\ slot'[d] = slot[d]
    BY <1>1, <1>t DEF CloneSlot, Count, GiveUp, Start, Expire, DropGuard
  <2>3. CASE CloneSlot(c) \/ Count(c) \/ GiveUp(c)
    <3>1. /\ pc[c] \in {"out", "cloned", "refused", "leaving"}
          /\ pc'[c] \in {"cloned", "refused", "counted", "out"}
      BY <1>t, <2>3 DEF CloneSlot, Count, GiveUp
    <3> QED
      BY <1>0, <2>1, <2>2, <3>1
  <2>4. CASE Start(c) \/ Expire(c) \/ DropGuard(c)
    <3>1. /\ slot' = slot
          /\ \/ pc[c] = "queued" /\ permit[slot[c]] = c /\ pc'[c] = "holding"
             \/ pc[c] = "queued" /\ pc'[c] = "expired"
             \/ pc[c] = "holding" /\ pc'[c] = "dropping"
      BY <1>t, <2>4 DEF Start, Owns, Expire, DropGuard
    <3> QED
      BY <1>0, <2>1, <2>2, <3>1
  <2> QED
    BY <1>1, <2>3, <2>4
<1>2. ASSUME NEW c \in Conns, InsertSlot(c) PROVE Lined'
  <2>1. PICK new \in Slots :
          /\ \A d \in Conns : slot[d] # new
          /\ slot' = [slot EXCEPT ![c] = new]
          /\ permit' = [permit EXCEPT ![new] = Nobody]
          /\ waiters' = [waiters EXCEPT ![new] = <<>>]
    BY <1>2 DEF InsertSlot, Unreferenced
  <2>2. pc[c] = "out" /\ slot[c] = NoSlot /\ pc' = [pc EXCEPT ![c] = "cloned"]
    BY <1>2, <1>t DEF InsertSlot
  <2>3. Range(<<>>) = {} /\ Len(<<>>) = 0
    BY RangeEmpty, EmptySeq
  <2>4. waiters'[new] = <<>> /\ \A sl \in Slots \ {new} : waiters'[sl] = waiters[sl]
    BY <1>t, <2>1
  <2>5. Free' /\ Distinct'
    BY <1>t, <2>1, <2>3, <2>4 DEF Free, Distinct
  <2>6. Granted'
    BY <1>t, <2>1, <2>2 DEF Granted
  <2>7. Listed'
    <3> SUFFICES ASSUME NEW sl \in Slots, NEW d \in Conns
                 PROVE  d \in Range(waiters'[sl]) <=> slot'[d] = sl /\ Waits(d)' /\ permit'[sl] # d
      BY DEF Listed
    <3>1. CASE sl = new
      BY <1>t, <2>1, <2>2, <2>3, <2>4, <3>1 DEF Listed
    <3>2. CASE sl # new
      BY <1>t, <2>1, <2>2, <2>3, <2>4, <3>2 DEF Listed
    <3> QED
      BY <3>1, <3>2
  <2> QED
    BY <2>5, <2>6, <2>7 DEF Lined
<1>3. ASSUME NEW c \in Conns, Enqueue(c) PROVE Lined'
  <2> DEFINE sl == slot[c]
  <2>1. /\ sl \in Slots /\ pc[c] = "counted" /\ slot' = slot
        /\ pc' = [pc EXCEPT ![c] = "queued"]
    BY <1>3, <1>t DEF Enqueue, Shape, PCs
  <2>2. CASE permit[sl] = Nobody
    <3>1. permit' = [permit EXCEPT ![sl] = c] /\ waiters' = waiters
      BY <1>3, <2>2 DEF Enqueue
    <3>2. waiters[sl] = <<>> /\ Range(waiters[sl]) = {}
      BY <1>t, <2>1, <2>2, RangeEmpty DEF Free
    <3>3. Free' /\ Distinct' /\ Granted'
      BY <1>t, <2>1, <2>2, <3>1 DEF Free, Distinct, Granted
    <3>4. Listed'
      BY <1>t, <2>1, <2>2, <3>1, <3>2 DEF Listed
    <3> QED
      BY <3>3, <3>4 DEF Lined
  <2>3. CASE permit[sl] # Nobody
    <3> DEFINE s == waiters[sl]
               t == Append(s, c)
    <3>1. permit' = permit /\ waiters' = [waiters EXCEPT ![sl] = t]
      BY <1>3, <2>3 DEF Enqueue
    <3>0. s \in Seq(Conns)
      BY <2>1 DEF Shape
    <3>2. c \notin Range(s) /\ permit[sl] # c
      BY <1>t, <2>1 DEF Listed, Granted
    <3>3. /\ Range(t) = Range(s) \cup {c}
          /\ \A i, k \in 1 .. Len(t) : t[i] = t[k] => i = k
      <4>1. \A i, k \in 1 .. Len(s) : s[i] = s[k] => i = k
        BY <1>t, <2>1 DEF Distinct
      <4> HIDE DEF s
      <4> QED
        BY <3>0, <3>2, <4>1, AppendJoins
    <3> HIDE DEF t
    <3>4. waiters'[sl] = t /\ \A u \in Slots \ {sl} : waiters'[u] = waiters[u]
      BY <1>t, <2>1, <3>1
    <3>5. Free' /\ Granted'
      BY <1>t, <2>1, <2>3, <3>1, <3>4 DEF Free, Granted
    <3>6. Distinct'
      BY <1>t, <3>3, <3>4 DEF Distinct
    <3>7. Listed'
      BY <1>t, <2>1, <3>1, <3>2, <3>3, <3>4 DEF Listed
    <3> QED
      BY <3>5, <3>6, <3>7 DEF Lined
  <2> QED
    BY <2>2, <2>3
<1>4. ASSUME NEW c \in Conns, slot[c] \in Slots, permit[slot[c]] = c, HandOver(slot[c]),
             \A d \in Conns \ {c} : pc'[d] = pc[d] /\ slot'[d] = slot[d],
             pc'[c] \in {"leaving", "out"}
      PROVE  Lined'
  <2> DEFINE sl == slot[c]
  <2>0. \A u \in Slots : permit[u] = c => u = sl
    BY <1>4, <1>t DEF Granted
  <2>1. CASE /\ waiters[sl] = <<>> /\ Range(waiters[sl]) = {}
             /\ permit' = [permit EXCEPT ![sl] = Nobody] /\ waiters' = waiters
    <3>1. Free' /\ Distinct'
      BY <1>4, <1>t, <2>1 DEF Free, Distinct
    <3>2. Granted'
      BY <1>4, <1>t, <2>0, <2>1 DEF Granted
    <3>3. Listed'
      <4> SUFFICES ASSUME NEW u \in Slots, NEW d \in Conns
                   PROVE  d \in Range(waiters[u]) <=> slot'[d] = u /\ Waits(d)' /\ permit'[u] # d
        BY <2>1 DEF Listed
      <4>1. CASE u = sl
        BY <1>4, <1>t, <2>1, <4>1 DEF Listed
      <4>2. CASE u # sl
        BY <1>4, <1>t, <2>0, <2>1, <4>2 DEF Listed
      <4> QED
        BY <4>1, <4>2
    <3> QED
      BY <3>1, <3>2, <3>3 DEF Lined
  <2>2. ASSUME NEW w \in Conns, NEW t \in Seq(Conns),
               permit' = [permit EXCEPT ![sl] = w],
               waiters' = [waiters EXCEPT ![sl] = t],
               slot[w] = sl, Waits(w), permit[sl] # w,
               Range(t) = Range(waiters[sl]) \ {w},
               \A i, k \in 1 .. Len(t) : t[i] = t[k] => i = k
        PROVE  Lined'
    <3>1. /\ waiters'[sl] = t /\ \A u \in Slots \ {sl} : waiters'[u] = waiters[u]
          /\ permit'[sl] = w /\ \A u \in Slots \ {sl} : permit'[u] = permit[u]
          /\ w # c /\ w # Nobody
      BY <1>4, <1>t, <2>2
    <3>2. Free'
      BY <1>t, <3>1 DEF Free
    <3>3. Distinct'
      BY <1>t, <2>2, <3>1 DEF Distinct
    <3>4. Granted'
      BY <1>4, <1>t, <2>0, <2>2, <3>1 DEF Granted
    <3>5. Listed'
      <4> SUFFICES ASSUME NEW u \in Slots, NEW d \in Conns
                   PROVE  d \in Range(waiters'[u]) <=> slot'[d] = u /\ Waits(d)' /\ permit'[u] # d
        BY DEF Listed
      <4>1. CASE u = sl
        <5>1. d \in Range(t) <=> slot[d] = sl /\ Waits(d) /\ c # d /\ d # w
          BY <1>4, <1>t, <2>2 DEF Listed
        <5> QED
          BY <1>4, <3>1, <4>1, <5>1
      <4>2. CASE u # sl
        <5>1. d \in Range(waiters[u]) <=> slot[d] = u /\ Waits(d) /\ permit[u] # d
          BY <1>t DEF Listed
        <5>2. CASE d = c
          BY <1>4, <2>0, <3>1, <4>2, <5>1, <5>2
        <5>3. CASE d # c
          BY <1>4, <3>1, <4>2, <5>1, <5>3
        <5> QED
          BY <5>2, <5>3
      <4> QED
        BY <4>1, <4>2
    <3> QED
      BY <3>2, <3>3, <3>4, <3>5 DEF Lined
  <2> QED
    BY <1>4, <2>1, <2>2, HandsOver
<1>5. ASSUME NEW c \in Conns, DropFuture(c) PROVE Lined'
  <2> DEFINE sl == slot[c]
  <2>1. /\ sl \in Slots /\ pc[c] = "expired" /\ slot' = slot
        /\ pc' = [pc EXCEPT ![c] = "leaving"] /\ Abandon(c, sl)
    BY <1>5, <1>t DEF DropFuture
  <2>2. CASE permit[sl] = c
    <3>1. HandOver(sl)
      BY <2>1, <2>2 DEF Abandon
    <3> QED
      BY <1>4, <1>t, <2>1, <2>2, <3>1
  <2>3. CASE permit[sl] # c
    <3>1. PICK t \in Seq(Conns) :
              /\ waiters' = [waiters EXCEPT ![sl] = t]
              /\ Range(t) = Range(waiters[sl]) \ {c}
              /\ \A i, k \in 1 .. Len(t) : t[i] = t[k] => i = k
      BY <2>1, <2>3, LeavesLine
    <3>2. permit' = permit
      BY <2>1, <2>3, LeavesLine
    <3>3. waiters'[sl] = t /\ \A u \in Slots \ {sl} : waiters'[u] = waiters[u]
      BY <1>t, <2>1, <3>1
    <3>4. c \in Range(waiters[sl]) /\ permit[sl] # Nobody
      BY <1>t, <2>1, <2>3, RangeEmpty DEF Listed, Free
    <3>5. Free'
      BY <1>t, <3>2, <3>3, <3>4 DEF Free
    <3>6. Distinct'
      BY <1>t, <3>1, <3>3 DEF Distinct
    <3>7. Granted'
      BY <1>t, <2>1, <2>3, <3>2 DEF Granted
    <3>8. Listed'
      BY <1>t, <2>1, <2>3, <3>1, <3>2, <3>3 DEF Listed
    <3> QED
      BY <3>5, <3>6, <3>7, <3>8 DEF Lined
  <2> QED
    BY <2>2, <2>3
<1>6. ASSUME NEW c \in Conns, DropPermit(c) PROVE Lined'
  <2>1. /\ slot[c] \in Slots /\ permit[slot[c]] = c /\ HandOver(slot[c])
        /\ slot' = [slot EXCEPT ![c] = NoSlot] /\ pc' = [pc EXCEPT ![c] = "out"]
    BY <1>6, <1>t DEF DropPermit, Owned
  <2> QED
    BY <1>4, <1>t, <2>1
<1>7. CASE UNCHANGED <<permit, waiters, pc, slot>>
  BY <1>7, <1>t DEF Lined, Free, Granted, Listed, Distinct
<1>8. (\E sl \in Slots : Age(sl)) \/ UNCHANGED vars => UNCHANGED <<permit, waiters, pc, slot>>
  BY DEF Age, vars
<1> QED
  BY <1>1, <1>2, <1>3, <1>5, <1>6, <1>7, <1>8 DEF Next, Step

-----------------------------------------------------------------------------
QueueInv == Shape /\ Counts /\ Owned /\ Mapped /\ Apart /\ Lined

(* The queue starts empty.                                                  *)
LEMMA QueueInvInit == Init => QueueInv
<1> SUFFICES ASSUME Init PROVE QueueInv
  OBVIOUS
<1>1. Owned /\ Mapped /\ Apart
  BY DEF Init, Owned, Mapped, Apart
<1>2. Lined
  <2>1. <<>> \in Seq(Conns) /\ Len(<<>>) = 0
    BY EmptySeq
  <2> QED
    BY <2>1, RangeEmpty DEF Init, Lined, Free, Granted, Listed, Distinct, Waits
<1> QED
  BY <1>1, <1>2, ShapeInit, CountsInit DEF QueueInv

(* Every step of the queue keeps the invariant.                             *)
LEMMA QueueInvStep == QueueInv /\ [Next]_vars => QueueInv'
<1>1. [Next]_vars => [NextEvicting]_vars
  BY DEF NextEvicting
<1> QED
  BY <1>1, ShapeStep, CountsStep, OwnedStep, MappedStep, ApartStep, LinedStep DEF QueueInv

(* The invariant holds of every state of a gateway that evicts nothing. *)
THEOREM QueueInvKept == Spec => []QueueInv
  BY QueueInvInit, QueueInvStep, PTL DEF Spec

(* Neither the permit nor the count of a session goes astray on any path:  *)
(* queue_depth counts the session's requests, and a permit is free only    *)
(* when nobody waits for it, for any connections and time-outs.            *)
THEOREM NeitherLeaks == Spec => []NothingLeaks
<1>1. QueueInv => PermitKept
  BY DEF QueueInv, Lined, Free, Granted, PermitKept
<1>2. QueueInv => DepthIsExact
  <2> SUFFICES ASSUME QueueInv, NEW s \in Sessions
               PROVE  QueueDepth(s) = Cardinality({c \in Conns : SessionOf[c] = s /\ Counted(c)})
    BY DEF DepthIsExact
  <2> USE DEF QueueInv
  <2>0. \A c \in Conns : Counted(c) => pc[c] # "out"
    BY DEF Counted
  <2>1. CASE slots[s] = NoSlot
    <3>1. {c \in Conns : SessionOf[c] = s /\ Counted(c)} = {}
      BY <2>0, <2>1 DEF Mapped, Shape
    <3> QED
      BY <2>1, <3>1, FS_EmptySet DEF QueueDepth
  <2>2. CASE slots[s] # NoSlot
    <3>1. slots[s] \in Slots
      BY <2>2 DEF Shape
    <3>2. \A c \in Conns : Counted(c) => slot[c] = slots[SessionOf[c]] /\ SessionOf[c] \in Sessions
      BY <2>0 DEF Mapped
    <3>3. \A c \in Conns : Counted(c) => (SessionOf[c] = s <=> slot[c] = slots[s])
      BY <2>2, <3>2 DEF Apart
    <3>4. {c \in Conns : SessionOf[c] = s /\ Counted(c)} = CountedOn(slots[s])
      BY <3>3 DEF CountedOn
    <3> QED
      BY <2>2, <3>1, <3>4 DEF QueueDepth, Counts
  <2> QED
    BY <2>1, <2>2
<1> QED
  BY <1>1, <1>2, QueueInvKept, PTL DEF NothingLeaks

-----------------------------------------------------------------------------
(* The refinement. *)

(* At most one connection of a session holds its guard.                     *)
LEMMA OneHolder ==
    ASSUME Owned, Mapped, NEW c \in Conns, NEW d \in Conns,
           SessionOf[c] = SessionOf[d], pc[c] = "holding", pc[d] = "holding"
    PROVE  c = d
<1>1. slot[c] = slot[d]
  BY DEF Mapped
<1> QED
  BY <1>1 DEF Owned

(* A step that moves no guard changes nobody's turn.                        *)
LEMMA ActiveSame ==
    ASSUME \A d \in Conns : pc'[d] = "holding" <=> pc[d] = "holding"
    PROVE  activeBar' = activeBar
<1>1. \A s : Holders(s)' = Holders(s)
  BY DEF Holders
<1> QED
  BY <1>1 DEF activeBar

(* A slot's line: those who wait on it, each once. *)
LEMMA LineIs ==
    ASSUME Shape, Lined, NEW sl \in Slots
    PROVE  /\ Line(sl) \in Seq(Conns)
           /\ \A c \in Conns : c \in Range(Line(sl)) <=> slot[c] = sl /\ Waits(c)
           /\ \A i, k \in 1 .. Len(Line(sl)) : Line(sl)[i] = Line(sl)[k] => i = k
<1> DEFINE w == waiters[sl]
           p == permit[sl]
<1>1. w \in Seq(Conns) /\ p \in Conns \cup {Nobody}
  BY DEF Shape
<1>2. /\ \A c \in Conns : c \in Range(w) <=> slot[c] = sl /\ Waits(c) /\ p # c
      /\ \A i, k \in 1 .. Len(w) : w[i] = w[k] => i = k
      /\ p # Nobody => slot[p] = sl
      /\ p = Nobody => w = <<>>
  BY DEF Lined, Free, Granted, Listed, Distinct
<1>3. CASE p # Nobody /\ Waits(p)
  <2>1. Line(sl) = <<p>> \o w
    BY <1>3 DEF Line, HandedTo, Waits
  <2> HIDE DEF p, w
  <2> DEFINE f == <<p>>
             l == f \o w
  <2>2. p \in Conns /\ f \in Seq(Conns) /\ Len(f) = 1 /\ Range(f) = {p} /\ f[1] = p
    BY <1>1, <1>3 DEF Range
  <2> HIDE DEF f
  <2>3. /\ l \in Seq(Conns) /\ Len(l) = 1 + Len(w)
        /\ \A i \in 1 .. 1 + Len(w) : l[i] = IF i <= 1 THEN f[i] ELSE w[i - 1]
    <3>1. /\ l \in Seq(Conns) /\ Len(l) = Len(f) + Len(w)
          /\ \A i \in 1 .. Len(f) + Len(w) : l[i] = IF i <= Len(f) THEN f[i] ELSE w[i - Len(f)]
      BY <1>1, <2>2, ConcatProperties
    <3> HIDE DEF l
    <3> QED
      BY <2>2, <3>1
  <2>4. \A i \in 1 .. Len(w) : w[i] # p
    BY <1>1, <1>2, <2>2, SeqRange
  <2>5. Range(l) = {p} \cup Range(w)
    BY <1>1, <2>2, RangeConcatenation
  <2>6. Len(w) \in Nat
    BY <1>1, LenProperties
  <2> HIDE DEF l
  <2>7. \A i, k \in 1 .. Len(l) : l[i] = l[k] => i = k
    <3> SUFFICES ASSUME NEW i \in 1 .. Len(l), NEW k \in 1 .. Len(l), l[i] = l[k], i <= k
                 PROVE  i = k
      BY <2>3, <2>6
    <3>1. CASE i = 1 /\ k > 1
      <4>1. l[i] = p /\ l[k] = w[k - 1] /\ k - 1 \in 1 .. Len(w)
        BY <2>2, <2>3, <2>6, <3>1
      <4> QED
        BY <2>4, <4>1
    <3>2. CASE i > 1
      <4>1. /\ l[i] = w[i - 1] /\ i - 1 \in 1 .. Len(w)
            /\ l[k] = w[k - 1] /\ k - 1 \in 1 .. Len(w)
        BY <2>3, <2>6, <3>2
      <4>2. i - 1 = k - 1
        BY <1>2, <4>1
      <4> QED
        BY <2>6, <4>2, <2>3
    <3> QED
      BY <2>3, <2>6, <3>1, <3>2
  <2> QED
    BY <1>2, <1>3, <2>1, <2>2, <2>3, <2>5, <2>7 DEF f, l
<1>4. CASE ~(p # Nobody /\ Waits(p))
  <2>1. Line(sl) = <<>> \o w
    BY <1>4 DEF Line, HandedTo, Waits
  <2> HIDE DEF p, w
  <2>2. Line(sl) = w
    BY <1>1, <2>1, ConcatEmptySeq
  <2>3. p = Nobody => Range(w) = {}
    BY <1>2, RangeEmpty
  <2>4. \A c \in Conns : c \in Range(w) <=> slot[c] = sl /\ Waits(c)
    BY <1>2, <1>4, <2>3
  <2> QED
    BY <1>1, <1>2, <2>2, <2>4
<1> QED
  BY <1>3, <1>4

(* What is admitted bounds the line with the active connection.            *)
LEMMA LineFits ==
    ASSUME QueueInv, NEW c \in Conns, pc[c] = "counted"
    PROVE  Turns!Size(SessionOf[c]) < MaxQueueDepth
<1> DEFINE s == SessionOf[c]
           sl == slot[c]
           l == Line(sl)
           T == AdmittedOn(sl) \ {c}
<1> USE DEF QueueInv
<1>1. sl = slots[s] /\ sl \in Slots /\ s \in Sessions /\ slots[s] # NoSlot
  BY DEF Mapped, Shape
<1>2. /\ Len(l) \in Nat /\ l \in [1 .. Len(l) -> Conns]
      /\ \A d \in Conns : d \in Range(l) <=> slot[d] = sl /\ Waits(d)
      /\ \A i, k \in 1 .. Len(l) : l[i] = l[k] => i = k
      /\ lineBar[s] = l
  <2>1. /\ l \in Seq(Conns)
        /\ \A d \in Conns : d \in Range(l) <=> slot[d] = sl /\ Waits(d)
        /\ \A i, k \in 1 .. Len(l) : l[i] = l[k] => i = k
    BY <1>1, LineIs
  <2>2. lineBar[s] = l
    BY <1>1 DEF lineBar
  <2> QED
    BY <2>1, <2>2, LenProperties
<1>3. /\ IsFiniteSet(T) /\ Cardinality(T) \in Nat
      /\ Cardinality(T) < MaxQueueDepth
  <2>1. c \in AdmittedOn(sl)
    BY DEF AdmittedOn, Admitted, Counted
  <2>2. Cardinality(T) = Cardinality(AdmittedOn(sl)) - 1 /\ IsFiniteSet(T)
    BY <2>1, OnFinite, FS_RemoveElement
  <2>3. Cardinality(AdmittedOn(sl)) \in Nat /\ Cardinality(AdmittedOn(sl)) <= MaxQueueDepth
    BY <1>1, OnFinite DEF Counts
  <2>4. Cardinality(T) \in Nat
    BY <2>2, FS_CardinalityType
  <2> QED
    BY <2>2, <2>3, <2>4
<1> HIDE DEF l
<1>4. \A i \in 1 .. Len(l) : l[i] \in T /\ pc[l[i]] # "holding"
  <2>1. ASSUME NEW i \in 1 .. Len(l) PROVE l[i] \in T /\ pc[l[i]] # "holding"
    <3>1. l[i] \in Conns /\ l[i] \in Range(l)
      BY <1>2 DEF Range
    <3>2. slot[l[i]] = sl /\ Waits(l[i])
      BY <1>2, <3>1
    <3> QED
      BY <3>1, <3>2 DEF Waits, AdmittedOn, Admitted, Counted
  <2> QED
    BY <2>1
<1>5. Cardinality(1 .. Len(l)) = Len(l)
  <2>1. Cardinality(1 .. Len(l)) = IF 1 > Len(l) THEN 0 ELSE Len(l) - 1 + 1
    BY <1>2, FS_Interval
  <2> QED
    BY <1>2, <2>1
<1>6. \A S : (IsFiniteSet(S) /\ \A i \in 1 .. Len(l) : l[i] \in S) => Len(l) <= Cardinality(S)
  <2> SUFFICES ASSUME NEW S, IsFiniteSet(S), \A i \in 1 .. Len(l) : l[i] \in S
               PROVE  Len(l) <= Cardinality(S)
    OBVIOUS
  <2>1. l \in Injection(1 .. Len(l), S)
    BY <1>2 DEF Injection, IsInjective
  <2> QED
    BY <1>5, <2>1, FS_Injection
<1>7. CASE activeBar[s] = Nobody
  <2>1. Turns!Size(s) = Len(l)
    BY <1>2, <1>7 DEF Turns!Size
  <2>2. Len(l) <= Cardinality(T)
    BY <1>3, <1>4, <1>6
  <2> QED
    BY <1>2, <1>3, <2>1, <2>2
<1>8. CASE activeBar[s] # Nobody
  <2>1. Turns!Size(s) = Len(l) + 1
    BY <1>2, <1>8 DEF Turns!Size
  <2>2. PICK a \in Holders(s) : TRUE
    BY <1>1, <1>8 DEF activeBar
  <2>3. a \in T /\ pc[a] = "holding"
    <3>1. a \in Conns /\ SessionOf[a] = s /\ pc[a] = "holding" /\ slot[a] = sl
      BY <1>1, <2>2 DEF Holders, Mapped
    <3> QED
      BY <3>1 DEF AdmittedOn, Admitted, Counted
  <2>4. \A i \in 1 .. Len(l) : l[i] \in T \ {a}
    BY <1>4, <2>3
  <2>5. IsFiniteSet(T \ {a}) /\ Cardinality(T \ {a}) = Cardinality(T) - 1
    BY <1>3, <2>3, FS_RemoveElement
  <2>6. Len(l) <= Cardinality(T \ {a})
    BY <1>6, <2>4, <2>5
  <2> QED
    BY <1>2, <1>3, <2>1, <2>5, <2>6
<1> QED
  BY <1>7, <1>8

(* A step that leaves the semaphores alone, and the waiting to wait. *)
LEMMA LineStill ==
    ASSUME Shape, Lined, UNCHANGED <<slots, permit, waiters>>,
           \A sl \in Slots : permit[sl] # Nobody => (Waits(permit[sl])' <=> Waits(permit[sl]))
    PROVE  lineBar' = lineBar
<1>1. ASSUME NEW sl \in Slots PROVE HandedTo(sl)' = HandedTo(sl)
  BY DEF HandedTo, Waits
<1>2. ASSUME NEW sl \in Slots PROVE Line(sl)' = Line(sl)
  BY <1>1 DEF Line
<1>3. \A s \in Sessions : slots[s] # NoSlot => slots[s] \in Slots
  BY DEF Shape
<1> QED
  BY <1>2, <1>3 DEF lineBar

(* A step that changes one session's line. *)
LEMMA LineChanges ==
    ASSUME QueueInv, NEW c \in Conns, NEW sl \in Slots, slot[c] = sl, slots' = slots,
           \A d \in Conns \ {c} : pc'[d] = pc[d],
           \A t \in Slots \ {sl} : permit'[t] = permit[t] /\ waiters'[t] = waiters[t]
    PROVE  /\ lineBar' = [lineBar EXCEPT ![SessionOf[c]] = Line(sl)']
           /\ lineBar[SessionOf[c]] = Line(sl)
<1> USE DEF QueueInv
<1>0. SessionOf[c] \in Sessions /\ slots[SessionOf[c]] = sl /\ sl # NoSlot
  BY DEF Shape, Mapped
<1>1. ASSUME NEW t \in Slots \ {sl} PROVE Line(t)' = Line(t)
  <2>1. permit[t] # Nobody => permit[t] # c /\ permit[t] \in Conns
    BY DEF Lined, Granted, Shape
  <2>2. HandedTo(t)' = HandedTo(t)
    BY <2>1 DEF HandedTo
  <2> QED
    BY <2>2 DEF Line
<1>2. \A s \in Sessions \ {SessionOf[c]} : slots[s] # NoSlot => slots[s] \in Slots \ {sl}
  BY <1>0 DEF Shape, Apart
<1>3. \A s \in Sessions \ {SessionOf[c]} : lineBar'[s] = lineBar[s]
  BY <1>1, <1>2 DEF lineBar
<1>4. lineBar'[SessionOf[c]] = Line(sl)' /\ lineBar[SessionOf[c]] = Line(sl)
  BY <1>0 DEF lineBar
<1>5. lineBar' = [s \in Sessions |-> lineBar'[s]] /\ lineBar = [s \in Sessions |-> lineBar[s]]
  BY DEF lineBar
<1> QED
  BY <1>0, <1>3, <1>4, <1>5

(* A request that waits in the semaphore joins the line.                    *)
LEMMA JoinStep ==
    ASSUME QueueInv, NEW c \in Conns, Enqueue(c) PROVE Turns!Join(c)
<1>a. PICK sl \in Slots : slot[c] = sl
  BY DEF Enqueue, QueueInv, Shape
<1> DEFINE s == SessionOf[c]
           l == Line(sl)
<1>1. /\ slot[c] = sl /\ s \in Sessions /\ pc[c] = "counted" /\ slots' = slots
      /\ pc' = [pc EXCEPT ![c] = "queued"] /\ pc \in [Conns -> PCs]
      /\ permit[sl] \in Conns \cup {Nobody} /\ waiters[sl] \in Seq(Conns)
      /\ permit \in [Slots -> Conns \cup {Nobody}] /\ DOMAIN waiters = Slots
  BY <1>a DEF Enqueue, QueueInv, Shape, PCs
<1>2. activeBar' = activeBar
  BY <1>1, ActiveSame
<1>3. Line(sl)' = Append(l, c)
  <2>1. CASE permit[sl] = Nobody
    <3>1. permit' = [permit EXCEPT ![sl] = c] /\ waiters' = waiters /\ waiters[sl] = <<>>
      BY <2>1, <1>1 DEF Enqueue, QueueInv, Lined, Free
    <3>2. HandedTo(sl) = <<>> /\ permit'[sl] = c /\ pc'[c] = "queued" /\ slot' = slot
      BY <1>1, <2>1, <3>1 DEF HandedTo, Enqueue
    <3>3. l = <<>> /\ <<c>> \o <<>> = <<c>>
      <4>1. l = <<>> \o <<>>
        BY <3>1, <3>2 DEF Line
      <4>2. <<>> \in Seq(Conns) /\ <<c>> \in Seq(Conns)
        BY EmptySeq
      <4> QED
        BY <4>1, <4>2, ConcatEmptySeq
    <3>4. Line(sl)' = <<c>> \o <<>>
      BY <3>1, <3>2 DEF Line, HandedTo
    <3>5. Append(<<>>, c) = <<c>>
      OBVIOUS
    <3> QED
      BY <3>3, <3>4, <3>5
  <2>2. CASE permit[sl] # Nobody
    <3> DEFINE h == HandedTo(sl)
               w == waiters[sl]
    <3>1. permit' = permit /\ waiters'[sl] = Append(w, c) /\ slot' = slot
      BY <2>2, <1>1 DEF Enqueue
    <3>2. permit[sl] # c
      BY <1>1, <2>2 DEF QueueInv, Lined, Granted
    <3>3. HandedTo(sl)' = h /\ h \in Seq(Conns)
      <4>1. HandedTo(sl)' = h
        BY <1>1, <2>2, <3>1, <3>2 DEF HandedTo
      <4>2. <<>> \in Seq(Conns) /\ <<permit[sl]>> \in Seq(Conns)
        BY <1>1, <2>2, EmptySeq
      <4> QED
        BY <4>1, <4>2 DEF HandedTo
    <3>4. Line(sl)' = h \o Append(w, c)
      BY <3>1, <3>3 DEF Line
    <3>5. l = h \o w /\ w \in Seq(Conns)
      BY <1>1 DEF Line
    <3> HIDE DEF h, w
    <3>6. <<c>> \in Seq(Conns)
      OBVIOUS
    <3>7. Append(w, c) = w \o <<c>> /\ Append(h \o w, c) = (h \o w) \o <<c>>
      BY <3>3, <3>5, AppendIsConcat, ConcatProperties
    <3>8. (h \o w) \o <<c>> = h \o (w \o <<c>>)
      BY <3>3, <3>5, <3>6, ConcatAssociative
    <3> QED
      BY <3>4, <3>5, <3>7, <3>8
  <2> QED
    BY <2>1, <2>2
<1>4. lineBar' = [lineBar EXCEPT ![s] = Line(sl)'] /\ lineBar[s] = l
  <2>1. \A t \in Slots \ {sl} : permit'[t] = permit[t] /\ waiters'[t] = waiters[t]
    BY <1>1 DEF Enqueue
  <2>2. \A d \in Conns \ {c} : pc'[d] = pc[d]
    BY <1>1
  <2> QED
    BY <1>1, <2>1, <2>2, LineChanges
<1>5. ~Turns!InLine(c)
  <2>1. c \notin Range(l)
    BY <1>1, LineIs DEF Waits, QueueInv
  <2> QED
    BY <1>4, <2>1 DEF Turns!InLine, Turns!ToSet, Range
<1>6. activeBar[s] # c
  <2>1. activeBar[s] = Nobody \/ activeBar[s] \in Holders(s)
    BY <1>1 DEF activeBar, OneOf
  <2> QED
    BY <1>1, <2>1 DEF Holders
<1>7. Turns!Size(s) < MaxQueueDepth
  BY <1>1, LineFits
<1> HIDE DEF l
<1>8. lineBar' = [lineBar EXCEPT ![s] = Append(lineBar[s], c)]
  BY <1>3, <1>4
<1> QED
  BY <1>2, <1>5, <1>6, <1>7, <1>8 DEF Turns!Join

(* The connection with the permit begins: it is the first of the line.      *)
LEMMA BeginStep ==
    ASSUME QueueInv, NEW c \in Conns, Start(c) PROVE Turns!Begin(c)
<1>a. PICK sl \in Slots : slot[c] = sl
  BY DEF Start, Owns, QueueInv, Shape
<1> DEFINE s == SessionOf[c]
           w == waiters[sl]
<1>1. /\ slot[c] = sl /\ s \in Sessions /\ pc[c] = "queued" /\ permit[sl] = c
      /\ UNCHANGED <<slots, permit, waiters, slot>> /\ pc \in [Conns -> PCs]
      /\ pc' = [pc EXCEPT ![c] = "holding"] /\ w \in Seq(Conns)
  BY <1>a DEF Start, Owns, QueueInv, Shape, PCs
<1>2. \A d \in Conns : SessionOf[d] = s => pc[d] # "holding"
  <2> SUFFICES ASSUME NEW d \in Conns, SessionOf[d] = s, pc[d] = "holding" PROVE FALSE
    OBVIOUS
  <2>1. slot[d] = sl
    BY <1>1 DEF QueueInv, Mapped
  <2> QED
    BY <1>1, <2>1 DEF QueueInv, Owned
<1>3. Holders(s) = {} /\ Holders(s)' = {c} /\ \A t \in Sessions \ {s} : Holders(t)' = Holders(t)
  BY <1>1, <1>2 DEF Holders
<1>4. activeBar[s] = Nobody /\ activeBar' = [activeBar EXCEPT ![s] = c]
  <2>1. OneOf({c}) = c
    BY DEF OneOf
  <2> QED
    BY <1>1, <1>3, <2>1 DEF activeBar
<1>5. Line(sl) = <<c>> \o w /\ Line(sl)' = w
  <2>1. HandedTo(sl) = <<c>> /\ HandedTo(sl)' = <<>>
    BY <1>1, NullAssumption DEF HandedTo
  <2>2. Line(sl) = <<c>> \o w /\ Line(sl)' = <<>> \o w
    BY <1>1, <2>1 DEF Line
  <2> QED
    BY <1>1, <2>2, ConcatEmptySeq
<1>6. lineBar' = [lineBar EXCEPT ![s] = w] /\ lineBar[s] = <<c>> \o w
  <2>2. \A d \in Conns \ {c} : pc'[d] = pc[d]
    BY <1>1
  <2> QED
    BY <1>1, <1>5, <2>2, LineChanges
<1>7. lineBar[s] # <<>> /\ Head(lineBar[s]) = c /\ Tail(lineBar[s]) = w
  BY <1>1, <1>6, FirstThenRest
<1> HIDE DEF w
<1>8. lineBar' = [lineBar EXCEPT ![s] = Tail(lineBar[s])]
  BY <1>6, <1>7
<1> QED
  BY <1>4, <1>7, <1>8 DEF Turns!Begin

(* Its guard dropped, the session is nobody's turn.                         *)
LEMMA EndStep ==
    ASSUME QueueInv, NEW c \in Conns, DropGuard(c) PROVE Turns!End(c)
<1> DEFINE s == SessionOf[c]
<1>1. /\ s \in Sessions /\ pc[c] = "holding" /\ permit[slot[c]] = c
      /\ UNCHANGED <<slots, permit, waiters, slot>> /\ pc \in [Conns -> PCs]
      /\ pc' = [pc EXCEPT ![c] = "dropping"]
  BY DEF DropGuard, QueueInv, Shape, Owned
<1>2. \A d \in Conns : SessionOf[d] = s /\ pc[d] = "holding" => d = c
  BY <1>1, OneHolder DEF QueueInv
<1>3. Holders(s) = {c} /\ Holders(s)' = {} /\ \A t \in Sessions \ {s} : Holders(t)' = Holders(t)
  BY <1>1, <1>2 DEF Holders
<1>4. activeBar[s] = c /\ activeBar' = [activeBar EXCEPT ![s] = Nobody]
  <2>1. OneOf({c}) = c
    BY DEF OneOf
  <2> QED
    BY <1>1, <1>3, <2>1 DEF activeBar
<1>5. lineBar' = lineBar
  BY <1>1, LineStill DEF QueueInv, Waits, Shape
<1> QED
  BY <1>4, <1>5 DEF Turns!End

(* A time-out or a dropped future leaves the line from where it stood.      *)
LEMMA LeaveStep ==
    ASSUME QueueInv, NEW c \in Conns, DropFuture(c) PROVE Turns!Leave(c)
<1>a. PICK sl \in Slots : slot[c] = sl
  BY DEF DropFuture, QueueInv, Shape
<1> DEFINE s == SessionOf[c]
           l == Line(sl)
           w == waiters[sl]
<1>1. /\ slot[c] = sl /\ s \in Sessions /\ pc[c] = "expired" /\ slots' = slots /\ slot' = slot
      /\ pc' = [pc EXCEPT ![c] = "leaving"] /\ pc \in [Conns -> PCs]
      /\ permit[sl] \in Conns \cup {Nobody} /\ w \in Seq(Conns)
      /\ permit \in [Slots -> Conns \cup {Nobody}] /\ DOMAIN waiters = Slots
      /\ Abandon(c, sl)
  BY <1>a DEF DropFuture, QueueInv, Shape, PCs
<1>2. activeBar' = activeBar
  BY <1>1, ActiveSame
<1>3. \E i \in DOMAIN l : l[i] = c /\ Line(sl)' = RemoveAt(l, i)
  <2>1. CASE permit[sl] = c
    <3>1. HandedTo(sl) = <<c>> /\ l = <<c>> \o w
      BY <1>1, <2>1, NullAssumption DEF HandedTo, Line
    <3>2. Line(sl)' = w
      <4>1. HandOver(sl)
        BY <1>1, <2>1 DEF Abandon
      <4>2. CASE /\ w = <<>> /\ permit' = [permit EXCEPT ![sl] = Nobody] /\ waiters' = waiters
        <5>1. permit'[sl] = Nobody /\ waiters'[sl] = <<>>
          BY <1>1, <4>2
        <5>2. Line(sl)' = <<>> \o <<>>
          BY <5>1 DEF Line, HandedTo
        <5>3. <<>> \in Seq(Conns)
          BY EmptySeq
        <5> QED
          BY <4>2, <5>2, <5>3, ConcatEmptySeq
      <4>3. ASSUME NEW d \in Conns, NEW t \in Seq(Conns),
                   permit' = [permit EXCEPT ![sl] = d], waiters' = [waiters EXCEPT ![sl] = t],
                   w = <<d>> \o t, Waits(d), permit[sl] # d
            PROVE  Line(sl)' = w
        <5>1. permit'[sl] = d /\ waiters'[sl] = t
          BY <1>1, <4>3
        <5>2. pc'[d] \in {"queued", "expired"} /\ d # Nobody
          BY <1>1, <2>1, <4>3, NullAssumption DEF Waits
        <5>3. HandedTo(sl)' = <<d>>
          BY <5>1, <5>2 DEF HandedTo
        <5> HIDE DEF w
        <5> QED
          BY <4>3, <5>1, <5>3 DEF Line
      <4> HIDE DEF w
      <4>4. \/ w = <<>> /\ permit' = [permit EXCEPT ![sl] = Nobody] /\ waiters' = waiters
            \/ \E d \in Conns, t \in Seq(Conns) :
                  /\ permit' = [permit EXCEPT ![sl] = d] /\ waiters' = [waiters EXCEPT ![sl] = t]
                  /\ w = <<d>> \o t /\ Waits(d) /\ permit[sl] # d
        BY <4>1, HandsOver DEF QueueInv, w
      <4> QED
        BY <4>2, <4>3, <4>4
    <3> HIDE DEF l, w
    <3>3. 1 \in DOMAIN l /\ l[1] = c /\ RemoveAt(l, 1) = w
      BY <1>1, <3>1, FirstThenRest
    <3> QED
      BY <3>2, <3>3
  <2>2. CASE permit[sl] # c
    <3> DEFINE h == HandedTo(sl)
    <3>1. /\ permit' = permit
          /\ \E n \in 1 .. Len(w), t \in Seq(Conns) :
                t = RemoveAt(w, n) /\ w[n] = c /\ waiters' = [waiters EXCEPT ![sl] = t]
      BY <1>1, <2>2, LeavesLine DEF QueueInv
    <3>2. PICK n \in 1 .. Len(w) : w[n] = c /\ waiters'[sl] = RemoveAt(w, n)
      BY <1>1, <3>1
    <3>3. HandedTo(sl)' = h /\ h \in Seq(Conns)
      <4>1. HandedTo(sl)' = h
        <5>1. permit'[sl] = permit[sl] /\ (permit[sl] # Nobody => pc'[permit[sl]] = pc[permit[sl]])
          BY <1>1, <2>2, <3>1
        <5> QED
          BY <5>1 DEF HandedTo
      <4>2. <<>> \in Seq(Conns) /\ (permit[sl] # Nobody => <<permit[sl]>> \in Seq(Conns))
        BY <1>1, EmptySeq
      <4> QED
        BY <4>1, <4>2 DEF HandedTo
    <3>4. Line(sl)' = h \o RemoveAt(w, n) /\ l = h \o w
      BY <3>2, <3>3 DEF Line
    <3> HIDE DEF h, w, l
    <3>5. /\ Len(h) + n \in DOMAIN l /\ l[Len(h) + n] = c
          /\ RemoveAt(l, Len(h) + n) = h \o RemoveAt(w, n)
      BY <1>1, <3>2, <3>3, <3>4, RemoveBehind
    <3> QED
      BY <3>4, <3>5
  <2> QED
    BY <2>1, <2>2
<1>4. lineBar' = [lineBar EXCEPT ![s] = Line(sl)'] /\ lineBar[s] = l
  <2>1. \A t \in Slots \ {sl} : permit'[t] = permit[t] /\ waiters'[t] = waiters[t]
    BY <1>1 DEF Abandon, HandOver
  <2>2. \A d \in Conns \ {c} : pc'[d] = pc[d]
    BY <1>1
  <2> QED
    BY <1>1, <2>1, <2>2, LineChanges
<1> HIDE DEF l
<1>5. \E i \in DOMAIN lineBar[s] : lineBar[s][i] = c /\ lineBar' = [lineBar EXCEPT ![s] = RemoveAt(lineBar[s], i)]
  BY <1>3, <1>4
<1>6. c \in Turns!ToSet(lineBar[s])
  BY <1>5 DEF Turns!ToSet
<1>7. \A t, i : Turns!RemoveAt(t, i) = RemoveAt(t, i)
  BY DEF Turns!RemoveAt, RemoveAt
<1> QED
  BY <1>2, <1>5, <1>6, <1>7 DEF Turns!Leave, Turns!InLine

(* The permit goes from whoever drops it to the first in line. *)
LEMMA HandedOnStep ==
    ASSUME QueueInv, NEW c \in Conns, DropPermit(c) PROVE UNCHANGED <<activeBar, lineBar>>
<1>a. PICK sl \in Slots : slot[c] = sl
  BY DEF DropPermit, QueueInv, Shape
<1> DEFINE s == SessionOf[c]
           w == waiters[sl]
<1>1. /\ slot[c] = sl /\ s \in Sessions /\ pc[c] = "dropping" /\ slots' = slots
      /\ pc' = [pc EXCEPT ![c] = "out"] /\ pc \in [Conns -> PCs] /\ permit[sl] = c
      /\ w \in Seq(Conns)
      /\ permit \in [Slots -> Conns \cup {Nobody}] /\ DOMAIN waiters = Slots
      /\ HandOver(sl)
  BY <1>a DEF DropPermit, QueueInv, Shape, PCs, Owned
<1>2. activeBar' = activeBar
  BY <1>1, ActiveSame
<1>3. Line(sl) = w
  <2>1. HandedTo(sl) = <<>>
    BY <1>1 DEF HandedTo
  <2> QED
    BY <1>1, <2>1, ConcatEmptySeq DEF Line
<1>4. Line(sl)' = w
  <2>2. CASE /\ w = <<>> /\ permit' = [permit EXCEPT ![sl] = Nobody] /\ waiters' = waiters
    <3>1. permit'[sl] = Nobody /\ waiters'[sl] = <<>>
      BY <1>1, <2>2
    <3>2. Line(sl)' = <<>> \o <<>>
      BY <3>1 DEF Line, HandedTo
    <3>3. <<>> \in Seq(Conns)
      BY EmptySeq
    <3> QED
      BY <2>2, <3>2, <3>3, ConcatEmptySeq
  <2>3. ASSUME NEW d \in Conns, NEW t \in Seq(Conns),
               permit' = [permit EXCEPT ![sl] = d], waiters' = [waiters EXCEPT ![sl] = t],
               w = <<d>> \o t, Waits(d), permit[sl] # d
        PROVE  Line(sl)' = w
    <3>1. permit'[sl] = d /\ waiters'[sl] = t
      BY <1>1, <2>3
    <3>2. pc'[d] \in {"queued", "expired"} /\ d # Nobody
      BY <1>1, <2>3, NullAssumption DEF Waits
    <3>3. HandedTo(sl)' = <<d>>
      BY <3>1, <3>2 DEF HandedTo
    <3> HIDE DEF w
    <3> QED
      BY <2>3, <3>1, <3>3 DEF Line
  <2> HIDE DEF w
  <2>4. \/ w = <<>> /\ permit' = [permit EXCEPT ![sl] = Nobody] /\ waiters' = waiters
        \/ \E d \in Conns, t \in Seq(Conns) :
              /\ permit' = [permit EXCEPT ![sl] = d] /\ waiters' = [waiters EXCEPT ![sl] = t]
              /\ w = <<d>> \o t /\ Waits(d) /\ permit[sl] # d
    BY <1>1, HandsOver DEF QueueInv, w
  <2> QED
    BY <2>2, <2>3, <2>4
<1>5. lineBar' = [lineBar EXCEPT ![s] = Line(sl)'] /\ lineBar[s] = Line(sl)
  <2>1. \A t \in Slots \ {sl} : permit'[t] = permit[t] /\ waiters'[t] = waiters[t]
    BY <1>1 DEF HandOver
  <2>2. \A d \in Conns \ {c} : pc'[d] = pc[d]
    BY <1>1
  <2> QED
    BY <1>1, <2>1, <2>2, LineChanges
<1>6. lineBar = [lineBar EXCEPT ![s] = lineBar[s]]
  BY DEF lineBar
<1> QED
  BY <1>2, <1>3, <1>4, <1>5, <1>6

(* A session that gets its slot has an empty line.                          *)
LEMMA InsertStep ==
    ASSUME QueueInv, NEW c \in Conns, InsertSlot(c) PROVE UNCHANGED <<activeBar, lineBar>>
<1>1. PICK new \in Slots :
        /\ \A s \in Sessions : slots[s] # new
        /\ slots' = [slots EXCEPT ![SessionOf[c]] = new]
        /\ permit' = [permit EXCEPT ![new] = Nobody]
        /\ waiters' = [waiters EXCEPT ![new] = <<>>]
  BY DEF InsertSlot, Unreferenced
<1>2. /\ slots[SessionOf[c]] = NoSlot /\ pc[c] = "out" /\ pc' = [pc EXCEPT ![c] = "cloned"]
      /\ slot[c] = NoSlot /\ pc \in [Conns -> PCs]
      /\ permit \in [Slots -> Conns \cup {Nobody}] /\ DOMAIN waiters = Slots
      /\ slots \in [Sessions -> Slots \cup {NoSlot}] /\ SessionOf[c] \in Sessions
  BY DEF InsertSlot, QueueInv, Shape
<1>3. activeBar' = activeBar
  BY <1>2, ActiveSame
<1>4. ASSUME NEW sl \in Slots \ {new} PROVE Line(sl)' = Line(sl)
  <2>1. permit'[sl] = permit[sl] /\ waiters'[sl] = waiters[sl]
    BY <1>1, <1>2
  <2>2. permit[sl] # Nobody => permit[sl] \in Conns /\ permit[sl] # c
    BY <1>2 DEF QueueInv, Lined, Granted
  <2>3. HandedTo(sl)' = HandedTo(sl)
    BY <1>2, <2>1, <2>2 DEF HandedTo
  <2> QED
    BY <2>1, <2>3 DEF Line
<1>5. Line(new)' = <<>>
  <2>1. permit'[new] = Nobody /\ waiters'[new] = <<>>
    BY <1>1, <1>2
  <2>2. Line(new)' = <<>> \o <<>>
    BY <2>1 DEF Line, HandedTo
  <2>3. <<>> \in Seq(Conns)
    BY EmptySeq
  <2> QED
    BY <2>2, <2>3, ConcatEmptySeq
<1>6. ASSUME NEW s \in Sessions PROVE lineBar'[s] = lineBar[s]
  <2>1. CASE s = SessionOf[c]
    BY <1>1, <1>2, <1>5, <2>1, NullAssumption DEF lineBar
  <2>2. CASE s # SessionOf[c]
    <3>1. slots'[s] = slots[s] /\ (slots[s] # NoSlot => slots[s] \in Slots \ {new})
      BY <1>1, <1>2, <2>2
    <3> QED
      BY <1>4, <3>1 DEF lineBar
  <2> QED
    BY <2>1, <2>2
<1>7. lineBar' = [s \in Sessions |-> lineBar'[s]] /\ lineBar = [s \in Sessions |-> lineBar[s]]
  BY DEF lineBar
<1> QED
  BY <1>3, <1>6, <1>7

(* Every step of the queue is a step of the line, or none.                  *)
LEMMA TurnsStep == QueueInv /\ [Next]_vars => [Turns!TurnsNext]_(Turns!avars)
<1> SUFFICES ASSUME QueueInv, [Next]_vars
             PROVE  Turns!TurnsNext \/ UNCHANGED <<activeBar, lineBar>>
  BY DEF Turns!avars
<1>1. ASSUME NEW c \in Conns, CloneSlot(c) \/ Count(c) \/ GiveUp(c) \/ Expire(c)
      PROVE  UNCHANGED <<activeBar, lineBar>>
  <2>1. UNCHANGED <<slots, permit, waiters>>
    BY <1>1 DEF CloneSlot, Count, GiveUp, Expire
  <2>2. pc \in [Conns -> PCs] /\ permit \in [Slots -> Conns \cup {Nobody}]
    BY DEF QueueInv, Shape
  <2>3. /\ \A d \in Conns \ {c} : pc'[d] = pc[d]
        /\ pc[c] # "holding" /\ pc'[c] # "holding"
        /\ \/ pc[c] = "queued" /\ pc'[c] = "expired"
           \/ pc[c] \notin {"queued", "expired", "holding", "dropping"}
    BY <1>1, <2>2 DEF CloneSlot, Count, GiveUp, Expire
  <2>4. activeBar' = activeBar
    BY <2>3, ActiveSame
  <2>5. \A sl \in Slots : permit[sl] # Nobody => (Waits(permit[sl])' <=> Waits(permit[sl]))
    BY <2>1, <2>2, <2>3 DEF QueueInv, Lined, Granted, Waits
  <2> QED
    BY <2>1, <2>4, <2>5, LineStill DEF QueueInv
<1>2. CASE UNCHANGED <<slots, permit, waiters, pc>>
  <2>1. activeBar' = activeBar
    BY <1>2, ActiveSame
  <2>2. lineBar' = lineBar
    BY <1>2, LineStill DEF QueueInv, Waits
  <2> QED
    BY <2>1, <2>2
<1>3. (\E sl \in Slots : Age(sl)) \/ UNCHANGED vars => UNCHANGED <<slots, permit, waiters, pc>>
  BY DEF Age, vars
<1>4. ASSUME NEW c \in Conns, Step(c)
      PROVE  Turns!TurnsNext \/ UNCHANGED <<activeBar, lineBar>>
  <2>1. Enqueue(c) => Turns!TurnsNext
    BY JoinStep DEF Turns!TurnsNext
  <2>2. Start(c) => Turns!TurnsNext
    BY BeginStep DEF Turns!TurnsNext
  <2>3. DropGuard(c) => Turns!TurnsNext
    BY EndStep DEF Turns!TurnsNext
  <2>4. DropFuture(c) => Turns!TurnsNext
    BY LeaveStep DEF Turns!TurnsNext
  <2> QED
    BY <1>1, <1>4, <2>1, <2>2, <2>3, <2>4, InsertStep, HandedOnStep DEF Step
<1> QED
  BY <1>2, <1>3, <1>4 DEF Next

(* session_queue.rs:1-6, for any number of connections, sessions and slots *)
(* and any depth: as long as nothing evicts slots, the queue is a line of  *)
(* bounded length that is served in the order of arrival.                  *)
THEOREM QueueImplementsTurns == Spec => ImplementsSessionTurns
<1>1. Init => Turns!TurnsInit
  <2> SUFFICES ASSUME Init PROVE Turns!TurnsInit
    OBVIOUS
  <2>1. \A s : Holders(s) = {}
    BY DEF Init, Holders
  <2>2. activeBar = [s \in Sessions |-> Nobody]
    BY <2>1 DEF activeBar
  <2>3. lineBar = [s \in Sessions |-> <<>>]
    BY DEF Init, lineBar
  <2> QED
    BY <2>2, <2>3 DEF Turns!TurnsInit
<1> QED
  BY <1>1, TurnsStep, QueueInvKept, PTL DEF Spec, ImplementsSessionTurns, Turns!TurnsSpec

=============================================================================
