-------------------------- MODULE UnattendedProofs --------------------------
(***************************************************************************)
(* What goes on while nobody looks, for any jobs, agents and limits: the   *)
(* scheduler and its table (Cron), background jobs (BackgroundJobs) and    *)
(* learning from turns (MemoryLearning).  The three share no name and no   *)
(* state; each has its invariant and its theorems in a section of its own. *)
(***************************************************************************)
EXTENDS Cron, BackgroundJobs, MemoryLearning, FiniteSetTheorems, SequenceLemmas, TLAPS

-----------------------------------------------------------------------------
(***************************************************************************)
(* Background jobs, for any jobs, callers and limits.  The invariant says  *)
(* how a job's record follows its task (Record), that the permits not free *)
(* are those of the tasks that hold one (Permits), that whoever is about   *)
(* to tell a job's end is alone and the first (Tellers), that the waiters  *)
(* of a Notify are the callers that wait (Waiting), and that a job with    *)
(* one caller at a time keeps its wake-up for it (Alone).                  *)
(***************************************************************************)

Before == {"spawned", "waiting", "granted"}
During == {"shell", "reading", "ended", "released"}
After == {"telling", "done"}
OnJob == {"checking", "polling", "waiting"}

Shape ==
    /\ status \in [BgJobs -> {"none", "queued", "running"} \cup Final]
    /\ task \in [BgJobs -> {"none"} \cup Before \cup During \cup After]
    /\ outcome \in [BgJobs -> {"none"} \cup Final]
    /\ cancel \subseteq BgJobs /\ stored \subseteq BgJobs
    /\ callerAt \in [Callers -> {"idle", "telling"} \cup OnJob]
    /\ target \in [Callers -> BgJobs]
    /\ waiters \in [BgJobs -> Seq(Callers)]
    /\ events \in [BgJobs -> Nat]

Recorded ==
    \A j \in BgJobs :
        /\ task[j] = "none" <=> status[j] = "none"
        /\ task[j] \in Before => status[j] \in {"queued", "cancelled"}
        /\ task[j] \in During => status[j] = "running"
        /\ task[j] \in After => Over(j)
        /\ task[j] \in {"reading", "ended", "released"} => outcome[j] \in Final
        /\ task[j] \in {"none", "spawned", "waiting"} /\ j \in cancel => status[j] = "cancelled"

Permits == permits \in Nat /\ permits + Cardinality(Holders) = MaxRunning

Tellers ==
    /\ \A j \in BgJobs : /\ events[j] <= 1
                         /\ ~Over(j) \/ task[j] = "telling" => events[j] = 0
    /\ \A c \in Callers : callerAt[c] = "telling" =>
          /\ status[target[c]] = "cancelled" /\ events[target[c]] = 0
          /\ task[target[c]] \in Before \cup {"done"}
    /\ \A c, d \in Callers : callerAt[c] = "telling" /\ callerAt[d] = "telling"
                             /\ target[c] = target[d] => c = d

Waiting ==
    \A j \in BgJobs :
        /\ Range(waiters[j]) = {c \in Callers : callerAt[c] = "waiting" /\ target[c] = j}
        /\ \A i, k \in 1 .. Len(waiters[j]) : waiters[j][i] = waiters[j][k] => i = k

Alone ==
    /\ \A c \in Callers : callerAt[c] \in OnJob => status[target[c]] \notin {"none", "queued"}
    /\ \A j \in BgJobs \ shared :
          /\ \A c, d \in Callers :
                callerAt[c] \in OnJob /\ callerAt[d] \in OnJob /\ target[c] = j /\ target[d] = j
                    => c = d
          /\ Over(j) => \A c \in Callers : target[c] = j =>
                /\ callerAt[c] # "waiting"
                /\ callerAt[c] = "polling" => j \in stored

-----------------------------------------------------------------------------
USE BackgroundAssumption

-----------------------------------------------------------------------------
IInv == Shape /\ Recorded /\ Permits /\ Tellers /\ Waiting /\ Alone

(* No job has been asked for yet.                                          *)
LEMMA InvInit == JobsInit => IInv
<1> SUFFICES ASSUME JobsInit PROVE IInv
  OBVIOUS
<1> USE DEF JobsInit
<1>1. Shape
  <2>1. (CHOOSE j \in BgJobs : TRUE) \in BgJobs
    OBVIOUS
  <2> QED
    BY <2>1, EmptySeq DEF Shape, Final, Before, During, After, OnJob
<1>2. Recorded
  BY DEF Recorded, Before, During, After
<1>3. Permits
  <2>1. Holders = {}
    BY DEF Holders
  <2> QED
    BY <2>1, FS_EmptySet DEF Permits
<1>4. Tellers
  BY DEF Tellers, Over, Final
<1>5. Waiting
  <2>1. <<>> \in Seq(Callers) /\ Len(<<>>) = 0
    BY EmptySeq
  <2> QED
    BY <2>1, RangeEmpty DEF Waiting
<1>6. Alone
  BY DEF Alone, Over, Final, OnJob
<1> QED
  BY <1>1, <1>2, <1>3, <1>4, <1>5, <1>6 DEF IInv

(* Who notify_one wakes. *)
LEMMA Wakes ==
    ASSUME Shape, Waiting, NEW j \in BgJobs, NotifyOne(j)
    PROVE  \/ /\ stored' = stored \cup {j} /\ UNCHANGED <<waiters, callerAt>>
              /\ \A c \in Callers : target[c] = j => callerAt[c] # "waiting"
           \/ \E w \in Callers :
                 /\ callerAt[w] = "waiting" /\ target[w] = j /\ stored' = stored
                 /\ callerAt' = [callerAt EXCEPT ![w] = "checking"]
                 /\ waiters' = [waiters EXCEPT ![j] = Tail(waiters[j])]
                 /\ Tail(waiters[j]) \in Seq(Callers)
                 /\ Range(Tail(waiters[j])) = Range(waiters[j]) \ {w}
                 /\ \A i, k \in 1 .. Len(Tail(waiters[j])) :
                       Tail(waiters[j])[i] = Tail(waiters[j])[k] => i = k
<1>1. CASE waiters[j] = <<>>
  <2>1. Range(waiters[j]) = {}
    BY <1>1, RangeEmpty
  <2> QED
    BY <1>1, <2>1 DEF NotifyOne, Waiting
<1>2. CASE waiters[j] # <<>>
  <2> DEFINE w == Head(waiters[j])
  <2>1. /\ w \in Callers /\ Tail(waiters[j]) \in Seq(Callers)
        /\ w \in Range(waiters[j]) /\ Range(Tail(waiters[j])) = Range(waiters[j]) \ {w}
        /\ \A i, k \in 1 .. Len(Tail(waiters[j])) :
              Tail(waiters[j])[i] = Tail(waiters[j])[k] => i = k
    BY <1>2, TailLeaves DEF Shape, Waiting
  <2>2. /\ callerAt' = [callerAt EXCEPT ![w] = "checking"] /\ stored' = stored
        /\ waiters' = [waiters EXCEPT ![j] = Tail(waiters[j])]
    BY <1>2 DEF NotifyOne
  <2> HIDE DEF w
  <2>3. callerAt[w] = "waiting" /\ target[w] = j
    BY <2>1 DEF Waiting
  <2> QED
    BY <2>1, <2>2, <2>3
<1> QED
  BY <1>1, <1>2

(* A caller that gives up. *)
LEMMA Leaves ==
    ASSUME Shape, Waiting, NEW c \in Callers, GiveUp(c)
    PROVE  \E t \in Seq(Callers) :
              /\ waiters' = [waiters EXCEPT ![target[c]] = t]
              /\ Range(t) = Range(waiters[target[c]]) \ {c}
              /\ \A i, k \in 1 .. Len(t) : t[i] = t[k] => i = k
<1> DEFINE s == waiters[target[c]]
<1>1. s \in Seq(Callers) /\ DOMAIN s = 1 .. Len(s)
  BY LenProperties DEF Shape
<1>2. PICK n \in 1 .. Len(s) : s[n] = c /\ waiters' = [waiters EXCEPT ![target[c]] = RemoveAt(s, n)]
  BY <1>1 DEF GiveUp
<1>3. \A i, k \in 1 .. Len(s) : s[i] = s[k] => i = k
  BY DEF Shape, Waiting
<1> HIDE DEF s
<1>4. /\ RemoveAt(s, n) \in Seq(Callers)
      /\ Range(RemoveAt(s, n)) = Range(s) \ {s[n]}
      /\ \A i, k \in 1 .. Len(RemoveAt(s, n)) :
                 RemoveAt(s, n)[i] = RemoveAt(s, n)[k] => i = k
  BY <1>1, <1>3, RemoveLeaves
<1> QED
  BY <1>2, <1>4 DEF s

-----------------------------------------------------------------------------
(* A step keeps the variables in their types.                              *)
LEMMA ShapeStep == Shape /\ Recorded /\ Waiting /\ [JobsNext]_jobsVars => Shape'
<1> SUFFICES ASSUME Shape, Recorded, Waiting, [JobsNext]_jobsVars PROVE Shape'
  OBVIOUS
<1> USE DEF Shape, Final, Before, During, After, OnJob, job, caller
<1>1. ASSUME NEW j \in BgJobs, StartJob(j) \/ Join(j) \/ LeaveLine(j) \/ Acquire(j) PROVE Shape'
  BY <1>1 DEF StartJob, Join, LeaveLine, Acquire
<1>2. ASSUME NEW j \in BgJobs, RunJob(j) PROVE Shape'
  BY <1>2 DEF RunJob
<1>3. ASSUME NEW j \in BgJobs, ShellEnds(j) PROVE Shape'
  BY <1>3 DEF ShellEnds
<1>12. ASSUME NEW j \in BgJobs, OutputCloses(j) \/ Release(j) PROVE Shape'
  BY <1>12 DEF OutputCloses, Release
<1>4. ASSUME NEW j \in BgJobs, Record(j) PROVE Shape'
  <2>1. /\ callerAt' \in [Callers -> {"idle", "telling"} \cup OnJob]
        /\ stored' \subseteq BgJobs /\ waiters' \in [BgJobs -> Seq(Callers)]
    <3> DEFINE t == Tail(waiters[j])
    <3>1. \/ stored' = stored \cup {j} /\ UNCHANGED <<waiters, callerAt>>
          \/ \E w \in Callers : /\ callerAt' = [callerAt EXCEPT ![w] = "checking"]
                                /\ waiters' = [waiters EXCEPT ![j] = t]
                                /\ t \in Seq(Callers) /\ stored' = stored
      BY <1>4, Wakes DEF Record
    <3> HIDE DEF t
    <3>2. CASE stored' = stored \cup {j} /\ UNCHANGED <<waiters, callerAt>>
      BY <3>2
    <3>3. ASSUME NEW w \in Callers, callerAt' = [callerAt EXCEPT ![w] = "checking"],
                 waiters' = [waiters EXCEPT ![j] = t], t \in Seq(Callers), stored' = stored
          PROVE  /\ callerAt' \in [Callers -> {"idle", "telling"} \cup OnJob]
                 /\ stored' \subseteq BgJobs /\ waiters' \in [BgJobs -> Seq(Callers)]
      BY <3>3
    <3> QED
      BY <3>1, <3>2, <3>3
  <2>2. outcome[j] \in Final
    BY <1>4 DEF Record, Recorded
  <2> QED
    BY <1>4, <2>1, <2>2 DEF Record
<1>5. ASSUME NEW j \in BgJobs, Tell(j) PROVE Shape'
  BY <1>5 DEF Tell
<1>6. ASSUME NEW c \in Callers, NEW j \in BgJobs, CancelQueued(c, j) PROVE Shape'
  BY <1>6 DEF CancelQueued
<1>13. ASSUME NEW c \in Callers, NEW j \in BgJobs, CancelRunning(c, j) PROVE Shape'
  BY <1>13 DEF CancelRunning
<1>7. ASSUME NEW c \in Callers, TellCancelled(c) PROVE Shape'
  BY <1>7 DEF TellCancelled
<1>8. ASSUME NEW c \in Callers, Check(c) PROVE Shape'
  BY <1>8 DEF Check
<1>9. ASSUME NEW c \in Callers, PollNotified(c) PROVE Shape'
  <2> DEFINE q == Append(waiters[target[c]], c)
  <2>1. q \in Seq(Callers)
    BY AppendProperties
  <2>2. waiters' = waiters \/ waiters' = [waiters EXCEPT ![target[c]] = q]
    BY <1>9 DEF PollNotified
  <2> HIDE DEF q
  <2>3. waiters' \in [BgJobs -> Seq(Callers)]
    BY <2>1, <2>2
  <2> QED
    BY <1>9, <2>3 DEF PollNotified
<1>10. ASSUME NEW c \in Callers, GiveUp(c) PROVE Shape'
  <2>1. waiters' \in [BgJobs -> Seq(Callers)]
    BY <1>10, Leaves
  <2> QED
    BY <1>10, <2>1 DEF GiveUp
<1>11. CASE UNCHANGED jobsVars
  BY <1>11 DEF jobsVars
<1> QED
  BY <1>1, <1>2, <1>3, <1>4, <1>5, <1>6, <1>7, <1>8, <1>9, <1>10, <1>11, <1>12, <1>13
     DEF JobsNext, JobStep, CallerStep

-----------------------------------------------------------------------------
(* A job's status follows its task.                                        *)
LEMMA RecordedStep == Shape /\ Recorded /\ [JobsNext]_jobsVars => Recorded'
<1> SUFFICES ASSUME Shape, Recorded, [JobsNext]_jobsVars PROVE Recorded'
  OBVIOUS
<1> USE DEF Shape, Recorded, Over, Final, Before, During, After, job, caller
<1>0. ASSUME UNCHANGED <<status, task, outcome, cancel>> PROVE Recorded'
  BY <1>0
<1>1. ASSUME NEW j \in BgJobs, StartJob(j) PROVE Recorded'
  BY <1>1 DEF StartJob
<1>2. ASSUME NEW j \in BgJobs, Join(j) \/ LeaveLine(j) \/ Acquire(j) PROVE Recorded'
  BY <1>2 DEF Join, LeaveLine, Acquire
<1>3. ASSUME NEW j \in BgJobs, RunJob(j) PROVE Recorded'
  BY <1>3 DEF RunJob
<1>4. ASSUME NEW j \in BgJobs, ShellEnds(j) PROVE Recorded'
  BY <1>4 DEF ShellEnds
<1>5. ASSUME NEW j \in BgJobs, OutputCloses(j) \/ Release(j) \/ Tell(j) PROVE Recorded'
  BY <1>5 DEF OutputCloses, Release, Tell
<1>6. ASSUME NEW j \in BgJobs, Record(j) PROVE Recorded'
  BY <1>6 DEF Record
<1>7. ASSUME NEW c \in Callers, NEW j \in BgJobs, CancelQueued(c, j) PROVE Recorded'
  BY <1>7 DEF CancelQueued
<1>8. ASSUME NEW c \in Callers, NEW j \in BgJobs, CancelRunning(c, j) PROVE Recorded'
  BY <1>8 DEF CancelRunning
<1>9. ASSUME NEW c \in Callers, CallerStep(c) PROVE Recorded'
  BY <1>0, <1>9 DEF CallerStep, TellCancelled, Check, PollNotified, GiveUp
<1>10. CASE UNCHANGED jobsVars
  BY <1>0, <1>10 DEF jobsVars
<1> QED
  BY <1>1, <1>2, <1>3, <1>4, <1>5, <1>6, <1>7, <1>8, <1>9, <1>10 DEF JobsNext, JobStep

-----------------------------------------------------------------------------
(* The jobs that hold a permit can be counted.                             *)
LEMMA HoldersFinite == IsFiniteSet(Holders)
<1>1. Holders \subseteq BgJobs
  BY DEF Holders
<1> QED
  BY <1>1, FS_Subset

(* A permit is taken and given back once.                                  *)
LEMMA PermitsStep == Shape /\ Recorded /\ Permits /\ [JobsNext]_jobsVars => Permits'
<1> SUFFICES ASSUME Shape, Recorded, Permits, [JobsNext]_jobsVars PROVE Permits'
  OBVIOUS
<1> USE DEF Shape, Holders, Before, During, After, job, caller
<1>0. ASSUME Holders' = Holders, permits' = permits PROVE Permits'
  BY <1>0 DEF Permits
(* The permit of one more task, or of one less. *)
<1>1. ASSUME NEW j \in BgJobs, j \notin Holders, Holders' = Holders \cup {j},
             permits > 0, permits' = permits - 1
      PROVE  Permits'
  <2>1. Cardinality(Holders') = Cardinality(Holders) + 1
    BY <1>1, HoldersFinite, FS_AddElement
  <2>2. Cardinality(Holders) \in Nat
    BY HoldersFinite, FS_CardinalityType
  <2> HIDE DEF Holders
  <2> QED
    BY <1>1, <2>1, <2>2 DEF Permits
<1>2. ASSUME NEW j \in Holders, Holders' = Holders \ {j}, permits' = permits + 1
      PROVE  Permits'
  <2> HIDE DEF Holders
  <2>1. Cardinality(Holders') = Cardinality(Holders) - 1
    BY <1>2, HoldersFinite, FS_RemoveElement
  <2>2. Cardinality(Holders) \in Nat
    BY HoldersFinite, FS_CardinalityType
  <2> QED
    BY <1>2, <2>1, <2>2 DEF Permits
<1>3. ASSUME NEW j \in BgJobs,
             \/ StartJob(j) \/ Join(j) \/ LeaveLine(j) \/ ShellEnds(j) \/ OutputCloses(j)
             \/ Record(j) \/ Tell(j)
      PROVE  Permits'
  <2>1. permits' = permits
    BY <1>3 DEF StartJob, Join, LeaveLine, ShellEnds, OutputCloses, Record, Tell
  <2>2. Holders' = Holders
    <3>1. /\ \E t \in {"none"} \cup Before \cup During \cup After : task' = [task EXCEPT ![j] = t]
          /\ task[j] \in {"granted", "shell", "reading", "ended"} <=>
                task'[j] \in {"granted", "shell", "reading", "ended"}
      <4>1. CASE StartJob(j) \/ Join(j) \/ LeaveLine(j)
        BY <4>1 DEF StartJob, Join, LeaveLine, Recorded
      <4>2. CASE ShellEnds(j) \/ OutputCloses(j) \/ Record(j) \/ Tell(j)
        BY <4>2 DEF ShellEnds, OutputCloses, Record, Tell
      <4> QED
        BY <1>3, <4>1, <4>2
    <3> QED
      BY <3>1
  <2> QED
    BY <1>0, <2>1, <2>2
<1>4. ASSUME NEW j \in BgJobs, Acquire(j) PROVE Permits'
  BY <1>1, <1>4 DEF Acquire
<1>5. ASSUME NEW j \in BgJobs, RunJob(j) PROVE Permits'
  <2>1. CASE status[j] = "cancelled"
    BY <1>2, <1>5, <2>1 DEF RunJob
  <2>2. CASE status[j] # "cancelled"
    BY <1>0, <1>5, <2>2 DEF RunJob
  <2> QED
    BY <2>1, <2>2
<1>6. ASSUME NEW j \in BgJobs, Release(j) PROVE Permits'
  BY <1>2, <1>6 DEF Release
<1>7. ASSUME \/ \E c \in Callers, j \in BgJobs : CancelQueued(c, j) \/ CancelRunning(c, j)
             \/ \E c \in Callers : CallerStep(c)
             \/ UNCHANGED jobsVars
      PROVE  Permits'
  <2>1. UNCHANGED <<task, permits>>
    BY <1>7 DEF CancelQueued, CancelRunning, CallerStep, TellCancelled, Check, PollNotified, GiveUp, jobsVars
  <2> QED
    BY <1>0, <2>1
<1> QED
  BY <1>3, <1>4, <1>5, <1>6, <1>7 DEF JobsNext, JobStep

-----------------------------------------------------------------------------
(* The end of a job is told once, by its task or by who cancelled it.      *)
LEMMA TellersStep == Shape /\ Recorded /\ Tellers /\ Waiting /\ [JobsNext]_jobsVars => Tellers'
<1> SUFFICES ASSUME Shape, Recorded, Tellers, Waiting, [JobsNext]_jobsVars PROVE Tellers'
  OBVIOUS
<1> USE DEF Shape, Tellers, Over, Final, Before, During, After, OnJob, job, caller
<1>0. ASSUME \A c \in Callers : callerAt'[c] = "telling" <=> callerAt[c] = "telling",
             UNCHANGED <<status, task, events, target>>
      PROVE  Tellers'
  BY <1>0
<1>1. ASSUME NEW j \in BgJobs,
             \/ StartJob(j) \/ Join(j) \/ LeaveLine(j) \/ Acquire(j) \/ OutputCloses(j) \/ Release(j)
      PROVE  Tellers'
  <2>1. UNCHANGED <<events, callerAt, target>>
    BY <1>1 DEF StartJob, Join, LeaveLine, Acquire, OutputCloses, Release
  <2>2. /\ \E t \in Before \cup {"done", "ended", "released"} : task' = [task EXCEPT ![j] = t]
        /\ status' = status \/ (status[j] = "none" /\ status' = [status EXCEPT ![j] = "queued"])
        /\ task[j] \in Before => task'[j] \in Before \cup {"done"}
    BY <1>1 DEF StartJob, Join, LeaveLine, Acquire, OutputCloses, Release
  <2>3. task[j] \notin Before => status[j] # "cancelled" \/ task[j] \in After
    BY DEF Recorded
  <2>4. task[j] # "done"
    BY <1>1 DEF StartJob, Join, LeaveLine, Acquire, OutputCloses, Release, Recorded
  <2> QED
    BY <2>1, <2>2, <2>3, <2>4
<1>2. ASSUME NEW j \in BgJobs, RunJob(j) PROVE Tellers'
  <2>1. UNCHANGED <<events, callerAt, target>> /\ task[j] = "granted"
    BY <1>2 DEF RunJob
  <2>2. CASE status[j] = "cancelled"
    <3>1. task' = [task EXCEPT ![j] = "done"] /\ status' = status
      BY <1>2, <2>2 DEF RunJob
    <3> QED
      BY <2>1, <2>2, <3>1
  <2>3. CASE status[j] # "cancelled"
    <3>1. /\ task' = [task EXCEPT ![j] = "shell"] /\ status' = [status EXCEPT ![j] = "running"]
          /\ status[j] = "queued"
      BY <1>2, <2>3 DEF RunJob, Recorded
    <3>2. events[j] = 0 /\ \A c \in Callers : callerAt[c] = "telling" => target[c] # j
      BY <3>1
    <3> QED
      BY <2>1, <3>1, <3>2
  <2> QED
    BY <2>2, <2>3
<1>3. ASSUME NEW j \in BgJobs, ShellEnds(j) PROVE Tellers'
  <2>1. /\ task[j] = "shell" /\ status[j] = "running"
        /\ \E t \in {"ended", "reading"} : task' = [task EXCEPT ![j] = t]
        /\ UNCHANGED <<status, events, callerAt, target>>
    BY <1>3 DEF ShellEnds, Recorded
  <2> QED
    BY <2>1
<1>4. ASSUME NEW j \in BgJobs, Record(j) PROVE Tellers'
  <2>1. /\ task[j] = "released" /\ task' = [task EXCEPT ![j] = "telling"]
        /\ status' = [status EXCEPT ![j] = outcome[j]] /\ UNCHANGED <<events, target>>
        /\ status[j] = "running" /\ outcome[j] \in Final
    BY <1>4 DEF Record, Recorded
  <2>2. \A c \in Callers : callerAt'[c] = "telling" <=> callerAt[c] = "telling"
    <3>1. \/ callerAt' = callerAt
          \/ \E w \in Callers : callerAt[w] = "waiting" /\ callerAt' = [callerAt EXCEPT ![w] = "checking"]
      BY <1>4, Wakes DEF Record
    <3> QED
      BY <3>1
  <2> QED
    BY <2>1, <2>2
<1>5. ASSUME NEW j \in BgJobs, Tell(j) PROVE Tellers'
  <2>1. /\ task[j] = "telling" /\ task' = [task EXCEPT ![j] = "done"] /\ events[j] = 0
        /\ events' = [events EXCEPT ![j] = events[j] + 1] /\ UNCHANGED <<status, callerAt, target>>
        /\ status[j] \in Final
    BY <1>5 DEF Tell, Recorded
  <2>2. \A c \in Callers : callerAt[c] = "telling" => target[c] # j
    BY <2>1
  <2> QED
    BY <2>1, <2>2
<1>6. ASSUME NEW c \in Callers, NEW j \in BgJobs, CancelQueued(c, j) PROVE Tellers'
  <2>1. /\ callerAt[c] = "idle" /\ callerAt' = [callerAt EXCEPT ![c] = "telling"]
        /\ target' = [target EXCEPT ![c] = j] /\ UNCHANGED <<task, events>>
        /\ status[j] = "queued" /\ status' = [status EXCEPT ![j] = "cancelled"]
    BY <1>6 DEF CancelQueued
  <2>2. events[j] = 0 /\ task[j] \in Before
    BY <2>1 DEF Recorded
  <2>3. \A d \in Callers : callerAt[d] = "telling" => d # c /\ target[d] # j
    BY <2>1
  <2>4. \A d \in Callers \ {c} : callerAt'[d] = callerAt[d] /\ target'[d] = target[d]
    BY <2>1
  <2>5. callerAt'[c] = "telling" /\ target'[c] = j
    BY <2>1
  <2>6. \A d \in Callers : callerAt'[d] = "telling" =>
          /\ status'[target'[d]] = "cancelled" /\ events'[target'[d]] = 0
          /\ task'[target'[d]] \in Before \cup {"done"}
    BY <2>1, <2>2, <2>3, <2>4, <2>5
  <2>7. \A d, e \in Callers : callerAt'[d] = "telling" /\ callerAt'[e] = "telling"
                             /\ target'[d] = target'[e] => d = e
    <3> SUFFICES ASSUME NEW d \in Callers, NEW e \in Callers, callerAt'[d] = "telling",
                        callerAt'[e] = "telling", target'[d] = target'[e]
                 PROVE  d = e
      OBVIOUS
    <3>1. CASE d # c /\ e # c
      <4>1. callerAt[d] = "telling" /\ callerAt[e] = "telling" /\ target[d] = target[e]
        BY <2>4, <3>1
      <4> QED
        BY <4>1
    <3>2. CASE d = c /\ e # c
      BY <2>3, <2>4, <2>5, <3>2
    <3>3. CASE d # c /\ e = c
      BY <2>3, <2>4, <2>5, <3>3
    <3> QED
      BY <3>1, <3>2, <3>3
  <2>8. \A k \in BgJobs :
          /\ events'[k] <= 1
          /\ status'[k] \notin Final \/ task'[k] = "telling" => events'[k] = 0
    BY <2>1, <2>2
  <2> QED
    BY <2>6, <2>7, <2>8
<1>7. ASSUME NEW c \in Callers, NEW j \in BgJobs, CancelRunning(c, j) PROVE Tellers'
  <2>1. /\ callerAt[c] = "idle" /\ callerAt' = [callerAt EXCEPT ![c] = "checking"]
        /\ target' = [target EXCEPT ![c] = j] /\ UNCHANGED <<status, task, events>>
    BY <1>7 DEF CancelRunning
  <2> QED
    BY <2>1
<1>8. ASSUME NEW c \in Callers, TellCancelled(c) PROVE Tellers'
  <2> DEFINE j == target[c]
  <2>1. /\ callerAt[c] = "telling" /\ callerAt' = [callerAt EXCEPT ![c] = "idle"]
        /\ events' = [events EXCEPT ![j] = events[j] + 1] /\ UNCHANGED <<status, task, target>>
    BY <1>8 DEF TellCancelled
  <2>2. j \in BgJobs /\ status[j] = "cancelled" /\ events[j] = 0 /\ task[j] # "telling"
    BY <2>1
  <2>3. \A d \in Callers : callerAt'[d] = "telling" =>
            d # c /\ callerAt[d] = "telling" /\ target[d] # j
    BY <2>1
  <2> HIDE DEF j
  <2> QED
    BY <2>1, <2>2, <2>3
<1>9. ASSUME NEW c \in Callers, Check(c) \/ PollNotified(c) \/ GiveUp(c) PROVE Tellers'
  <2>1. UNCHANGED <<status, task, events, target>>
    BY <1>9 DEF Check, PollNotified, GiveUp
  <2>2. /\ callerAt[c] \in OnJob
        /\ \E p \in {"idle"} \cup OnJob : callerAt' = [callerAt EXCEPT ![c] = p]
    BY <1>9 DEF Check, PollNotified, GiveUp
  <2> QED
    BY <1>0, <2>1, <2>2
<1>10. CASE UNCHANGED jobsVars
  BY <1>0, <1>10 DEF jobsVars
<1> QED
  BY <1>1, <1>2, <1>3, <1>4, <1>5, <1>6, <1>7, <1>8, <1>9, <1>10
     DEF JobsNext, JobStep, CallerStep

-----------------------------------------------------------------------------
(* A job's waiters are the callers that wait for it, each once.            *)
LEMMA WaitingStep == Shape /\ Waiting /\ [JobsNext]_jobsVars => Waiting'
<1> SUFFICES ASSUME Shape, Waiting, [JobsNext]_jobsVars PROVE Waiting'
  OBVIOUS
<1> USE DEF Shape, Waiting, OnJob, job, caller
(* The callers that wait are the same, and so is the line of each job. *)
<1>0. ASSUME UNCHANGED waiters,
             \A c \in Callers : (callerAt[c] = "waiting" \/ callerAt'[c] = "waiting") =>
                                 callerAt'[c] = callerAt[c] /\ target'[c] = target[c]
      PROVE  Waiting'
  BY <1>0
<1>1. ASSUME NEW j \in BgJobs,
             \/ StartJob(j) \/ Join(j) \/ LeaveLine(j) \/ Acquire(j) \/ RunJob(j)
             \/ ShellEnds(j) \/ OutputCloses(j) \/ Release(j) \/ Tell(j)
      PROVE  Waiting'
  BY <1>0, <1>1 DEF StartJob, Join, LeaveLine, Acquire, RunJob, ShellEnds, OutputCloses, Release, Tell
<1>2. ASSUME NEW j \in BgJobs, Record(j) PROVE Waiting'
  <2> DEFINE t == Tail(waiters[j])
  <2>1. \/ UNCHANGED <<waiters, callerAt>>
        \/ \E w \in Callers :
                 /\ callerAt[w] = "waiting" /\ target[w] = j
                 /\ callerAt' = [callerAt EXCEPT ![w] = "checking"]
                 /\ waiters' = [waiters EXCEPT ![j] = t]
                 /\ t \in Seq(Callers)
                 /\ Range(t) = Range(waiters[j]) \ {w}
                 /\ \A i, k \in 1 .. Len(t) : t[i] = t[k] => i = k
    BY <1>2, Wakes DEF Record
  <2>2. target' = target
    BY <1>2 DEF Record
  <2> HIDE DEF t
  <2>3. ASSUME NEW w \in Callers,
               /\ callerAt[w] = "waiting" /\ target[w] = j
               /\ callerAt' = [callerAt EXCEPT ![w] = "checking"]
               /\ waiters' = [waiters EXCEPT ![j] = t]
               /\ Range(t) = Range(waiters[j]) \ {w}
               /\ \A i, k \in 1 .. Len(t) : t[i] = t[k] => i = k
        PROVE  Waiting'
    BY <2>2, <2>3
  <2> QED
    BY <1>0, <2>1, <2>2, <2>3
<1>3. ASSUME NEW c \in Callers, NEW j \in BgJobs, CancelQueued(c, j) \/ CancelRunning(c, j)
      PROVE  Waiting'
  BY <1>0, <1>3 DEF CancelQueued, CancelRunning
<1>4. ASSUME NEW c \in Callers, TellCancelled(c) \/ Check(c) PROVE Waiting'
  BY <1>0, <1>4 DEF TellCancelled, Check
<1>5. ASSUME NEW c \in Callers, PollNotified(c) PROVE Waiting'
  <2>1. CASE target[c] \in stored
    BY <1>0, <1>5, <2>1 DEF PollNotified
  <2>2. CASE target[c] \notin stored
    <3> DEFINE s == waiters[target[c]]
               t == Append(s, c)
    <3>1. /\ callerAt[c] = "polling" /\ callerAt' = [callerAt EXCEPT ![c] = "waiting"]
          /\ waiters' = [waiters EXCEPT ![target[c]] = t] /\ target' = target
      BY <1>5, <2>2 DEF PollNotified
    <3>2. s \in Seq(Callers) /\ c \notin Range(s)
      BY <3>1
    <3>3. \A i, k \in 1 .. Len(s) : s[i] = s[k] => i = k
      OBVIOUS
    <3> HIDE DEF s
    <3>6. Range(t) = Range(s) \cup {c}
      BY <3>2, AppendJoins
    <3>7. \A i, k \in 1 .. Len(t) : t[i] = t[k] => i = k
      BY <3>2, <3>3, AppendJoins
    <3> HIDE DEF t
    <3> QED
      BY <3>1, <3>6, <3>7 DEF s
  <2> QED
    BY <2>1, <2>2
<1>6. ASSUME NEW c \in Callers, GiveUp(c) PROVE Waiting'
  <2>1. PICK t \in Seq(Callers) :
              /\ waiters' = [waiters EXCEPT ![target[c]] = t]
              /\ Range(t) = Range(waiters[target[c]]) \ {c}
              /\ \A i, k \in 1 .. Len(t) : t[i] = t[k] => i = k
    BY <1>6, Leaves
  <2>2. callerAt[c] = "waiting" /\ callerAt' = [callerAt EXCEPT ![c] = "idle"] /\ target' = target
    BY <1>6 DEF GiveUp
  <2> QED
    BY <2>1, <2>2
<1>7. CASE UNCHANGED jobsVars
  BY <1>0, <1>7 DEF jobsVars
<1> QED
  BY <1>1, <1>2, <1>3, <1>4, <1>5, <1>6, <1>7 DEF JobsNext, JobStep, CallerStep

-----------------------------------------------------------------------------
(* A caller alone on its job does not wait after the job's end.            *)
LEMMA AloneStep == Shape /\ Recorded /\ Waiting /\ Alone /\ [JobsNext]_jobsVars => Alone'
<1> SUFFICES ASSUME Shape, Recorded, Waiting, Alone, [JobsNext]_jobsVars PROVE Alone'
  OBVIOUS
<1> USE DEF Shape, Alone, Over, Final, OnJob, job, caller
(* Jobs that no caller is at, or that are over as before. *)
<1>0. ASSUME UNCHANGED <<callerAt, target, stored, shared>>,
             \A j \in BgJobs : \/ status'[j] = status[j]
                              \/ (status[j] \in {"none", "queued"} /\ status'[j] \notin Final)
                              \/ status'[j] \notin (Final \cup {"none", "queued"})
      PROVE  Alone'
  <2>1. \A c \in Callers : callerAt'[c] \in OnJob => status'[target'[c]] \notin {"none", "queued"}
    BY <1>0
  <2>2. \A j \in BgJobs : status'[j] \in Final => status[j] \in Final
    BY <1>0
  <2> QED
    BY <1>0, <2>1, <2>2
<1>1. ASSUME NEW j \in BgJobs,
             \/ Join(j) \/ LeaveLine(j) \/ Acquire(j) \/ ShellEnds(j) \/ OutputCloses(j)
             \/ Release(j) \/ Tell(j)
      PROVE  Alone'
  <2>1. UNCHANGED <<callerAt, target, stored, shared, status>>
    BY <1>1 DEF Join, LeaveLine, Acquire, ShellEnds, OutputCloses, Release, Tell
  <2> QED
    BY <2>1
<1>2. ASSUME NEW j \in BgJobs, StartJob(j) PROVE Alone'
  <2>1. /\ status[j] = "none" /\ status' = [status EXCEPT ![j] = "queued"]
        /\ UNCHANGED <<callerAt, target, stored, shared>>
    BY <1>2 DEF StartJob
  <2> QED
    BY <2>1
<1>3. ASSUME NEW j \in BgJobs, RunJob(j) PROVE Alone'
  <2>1. /\ status' = status \/ status' = [status EXCEPT ![j] = "running"]
        /\ UNCHANGED <<callerAt, target, stored, shared>>
    BY <1>3 DEF RunJob
  <2>2. \A k \in BgJobs : status'[k] = status[k] \/ status'[k] = "running"
    BY <2>1
  <2> QED
    BY <1>0, <2>1, <2>2
<1>4. ASSUME NEW j \in BgJobs, Record(j) PROVE Alone'
  <2>1. /\ status' = [status EXCEPT ![j] = outcome[j]] /\ outcome[j] \in Final
        /\ UNCHANGED <<target, shared>>
    BY <1>4 DEF Record, Recorded
  <2>2. \/ /\ stored' = stored \cup {j} /\ UNCHANGED callerAt
           /\ \A c \in Callers : target[c] = j => callerAt[c] # "waiting"
        \/ \E w \in Callers :
              /\ callerAt[w] = "waiting" /\ target[w] = j /\ stored' = stored
              /\ callerAt' = [callerAt EXCEPT ![w] = "checking"]
    BY <1>4, Wakes DEF Record
  <2>3. CASE /\ stored' = stored \cup {j} /\ UNCHANGED callerAt
             /\ \A c \in Callers : target[c] = j => callerAt[c] # "waiting"
    BY <2>1, <2>3
  <2>4. ASSUME NEW w \in Callers,
               /\ callerAt[w] = "waiting" /\ target[w] = j /\ stored' = stored
               /\ callerAt' = [callerAt EXCEPT ![w] = "checking"]
        PROVE  Alone'
    <3>1. \A c \in Callers : callerAt'[c] \in OnJob <=> callerAt[c] \in OnJob
      BY <2>4
    <3>2. j \notin shared => \A c \in Callers : target[c] = j /\ callerAt'[c] \in OnJob => c = w
      BY <2>4, <3>1
    <3>3. \A c \in Callers : c # w => callerAt'[c] = callerAt[c]
      BY <2>4
    <3>4. callerAt'[w] = "checking"
      BY <2>4
    <3> QED
      BY <2>1, <2>4, <3>1, <3>2, <3>3, <3>4
  <2> QED
    BY <2>2, <2>3, <2>4
<1>5. ASSUME NEW c \in Callers, NEW j \in BgJobs, CancelQueued(c, j) PROVE Alone'
  <2>1. /\ callerAt[c] = "idle" /\ callerAt' = [callerAt EXCEPT ![c] = "telling"]
        /\ target' = [target EXCEPT ![c] = j] /\ stored' = stored \cup {j} /\ shared' = shared
        /\ status[j] = "queued" /\ status' = [status EXCEPT ![j] = "cancelled"]
    BY <1>5 DEF CancelQueued
  <2>2. \A d \in Callers : callerAt[d] \in OnJob => d # c /\ target[d] # j
    BY <2>1
  <2>3. /\ \A d \in Callers \ {c} : callerAt'[d] = callerAt[d] /\ target'[d] = target[d]
        /\ callerAt'[c] = "telling"
    BY <2>1
  <2> QED
    BY <2>1, <2>2, <2>3
<1>6. ASSUME NEW c \in Callers, NEW j \in BgJobs, CancelRunning(c, j) PROVE Alone'
  <2>1. /\ callerAt[c] = "idle" /\ callerAt' = [callerAt EXCEPT ![c] = "checking"]
        /\ target' = [target EXCEPT ![c] = j] /\ stored' = stored
        /\ status[j] = "running" /\ status' = status
        /\ shared \subseteq shared' /\ shared' \subseteq shared \cup {j}
        /\ j \notin shared' => \A d \in Callers \ {c} : callerAt[d] # "idle" => target[d] # j
    BY <1>6 DEF CancelRunning
  <2>2. /\ \A d \in Callers \ {c} : callerAt'[d] = callerAt[d] /\ target'[d] = target[d]
        /\ callerAt'[c] = "checking" /\ target'[c] = j
    BY <2>1
  <2> QED
    BY <2>1, <2>2
<1>7. ASSUME NEW c \in Callers, TellCancelled(c) \/ GiveUp(c) PROVE Alone'
  <2>1. callerAt' = [callerAt EXCEPT ![c] = "idle"] /\ UNCHANGED <<status, target, stored, shared>>
    BY <1>7 DEF TellCancelled, GiveUp
  <2> QED
    BY <2>1
<1>8. ASSUME NEW c \in Callers, Check(c) PROVE Alone'
  <2>1. /\ callerAt[c] = "checking" /\ UNCHANGED <<status, target, stored, shared>>
        /\ callerAt' = [callerAt EXCEPT ![c] = IF status[target[c]] \in Final THEN "idle" ELSE "polling"]
    BY <1>8 DEF Check
  <2> QED
    BY <2>1
<1>9. ASSUME NEW c \in Callers, PollNotified(c) PROVE Alone'
  <2>0. callerAt[c] = "polling" /\ UNCHANGED <<status, target, shared>>
    BY <1>9 DEF PollNotified
  <2>1. CASE target[c] \in stored
    <3>1. stored' = stored \ {target[c]} /\ callerAt' = [callerAt EXCEPT ![c] = "checking"]
      BY <1>9, <2>1 DEF PollNotified
    <3>2. /\ \A d \in Callers \ {c} : callerAt'[d] = callerAt[d]
          /\ callerAt'[c] = "checking"
      BY <3>1
    <3>3. target[c] \notin shared =>
            \A d \in Callers \ {c} : target[d] = target[c] => callerAt[d] # "polling"
      BY <2>0
    <3> QED
      BY <2>0, <2>1, <3>1, <3>2, <3>3
  <2>2. CASE target[c] \notin stored
    <3>1. stored' = stored /\ callerAt' = [callerAt EXCEPT ![c] = "waiting"]
      BY <1>9, <2>2 DEF PollNotified
    <3>2. status[target[c]] \in Final => target[c] \in shared
      BY <2>0, <2>2
    <3> QED
      BY <2>0, <3>1, <3>2
  <2> QED
    BY <2>1, <2>2
<1>10. CASE UNCHANGED jobsVars
  <2>1. UNCHANGED <<callerAt, target, stored, shared, status>>
    BY <1>10 DEF jobsVars
  <2> QED
    BY <2>1
<1> QED
  BY <1>1, <1>2, <1>3, <1>4, <1>5, <1>6, <1>7, <1>8, <1>9, <1>10
     DEF JobsNext, JobStep, CallerStep

-----------------------------------------------------------------------------
(* The invariant holds of every state, for any jobs, callers and limits.   *)
THEOREM InvKept == JobsSpec => []IInv
<1>1. IInv /\ [JobsNext]_jobsVars => IInv'
  BY ShapeStep, RecordedStep, PermitsStep, TellersStep, WaitingStep, AloneStep DEF IInv
<1> QED
  BY <1>1, InvInit, PTL DEF JobsSpec

(* Every record, task and permit stays in its type. *)
THEOREM JobsTypeCorrect == JobsSpec => []JobsTypeOK
<1>1. IInv => JobsTypeOK
  <2> SUFFICES ASSUME IInv PROVE JobsTypeOK
    OBVIOUS
  <2>1. permits \in 0 .. MaxRunning
    BY HoldersFinite, FS_CardinalityType DEF IInv, Permits
  <2> QED
    BY <2>1 DEF IInv, Shape, JobsTypeOK, Before, During, After, OnJob
<1> QED
  BY <1>1, InvKept, PTL

(* No way for a job to end or to be cancelled loses or makes a permit, and *)
(* each end is told at most once, and when it is one.                      *)
THEOREM PermitsInvariant == JobsSpec => []PermitsKept
<1>1. IInv => PermitsKept
  BY DEF IInv, Shape, Permits, Tellers, PermitsKept
<1> QED
  BY <1>1, InvKept, PTL

(* However its end came, a job that is over stays so: a cancelled job is   *)
(* not run by the permit that comes too late.                              *)
THEOREM EndStays == JobsSpec => EndIsFinal
<1>1. IInv /\ [JobsNext]_jobsVars =>
          [\A j \in BgJobs : Over(j) => status'[j] = status[j]]_jobsVars
  <2> SUFFICES ASSUME Shape, Recorded, JobsNext, NEW j \in BgJobs, Over(j)
               PROVE  status'[j] = status[j]
    BY DEF IInv
  <2> USE DEF Shape, Over, Final, Before, During, After, job, caller
  <2>1. ASSUME NEW k \in BgJobs, StartJob(k) \/ RunJob(k) PROVE status'[j] = status[j]
    BY <2>1 DEF StartJob, RunJob, Recorded
  <2>2. ASSUME NEW k \in BgJobs, Record(k) PROVE status'[j] = status[j]
    BY <2>2 DEF Record, Recorded
  <2>3. ASSUME NEW k \in BgJobs,
               \/ Join(k) \/ LeaveLine(k) \/ Acquire(k) \/ ShellEnds(k) \/ OutputCloses(k)
               \/ Release(k) \/ Tell(k)
        PROVE  status'[j] = status[j]
    BY <2>3 DEF Join, LeaveLine, Acquire, ShellEnds, OutputCloses, Release, Tell
  <2>4. ASSUME NEW c \in Callers, NEW k \in BgJobs, CancelQueued(c, k) \/ CancelRunning(c, k)
        PROVE  status'[j] = status[j]
    BY <2>4 DEF CancelQueued, CancelRunning
  <2>5. ASSUME NEW c \in Callers, CallerStep(c) PROVE status'[j] = status[j]
    BY <2>5 DEF CallerStep, TellCancelled, Check, PollNotified, GiveUp
  <2> QED
    BY <2>1, <2>2, <2>3, <2>4, <2>5 DEF JobsNext, JobStep
<1> QED
  BY <1>1, InvKept, PTL DEF JobsSpec, EndIsFinal

(* A caller that shares its job with no other is told cancel_timeout only  *)
(* while the job still runs: the wake-up is kept for it.                   *)
LEMMA MisledStep ==
    IInv /\ OnlyPairsMisled /\ [JobsNext]_jobsVars => OnlyPairsMisled'
<1> SUFFICES ASSUME IInv, OnlyPairsMisled, [JobsNext]_jobsVars PROVE OnlyPairsMisled'
  OBVIOUS
<1> USE DEF OnlyPairsMisled, job, caller
<1>1. ASSUME NEW c \in Callers, GiveUp(c) PROVE OnlyPairsMisled'
  <2>1. callerAt[c] = "waiting" /\ target[c] \in BgJobs
    BY <1>1 DEF GiveUp, IInv, Shape
  <2>2. Over(target[c]) => target[c] \in shared
    BY <2>1 DEF IInv, Alone
  <2> QED
    BY <1>1, <2>2 DEF GiveUp
<1>2. ASSUME NEW c \in Callers, NEW j \in BgJobs, CancelQueued(c, j) \/ CancelRunning(c, j)
      PROVE  OnlyPairsMisled'
  BY <1>2 DEF CancelQueued, CancelRunning
<1>3. ASSUME NEW c \in Callers, TellCancelled(c) \/ Check(c) \/ PollNotified(c)
      PROVE  OnlyPairsMisled'
  BY <1>3 DEF TellCancelled, Check, PollNotified
<1>4. ASSUME NEW j \in BgJobs, StartJob(j) \/ JobStep(j) \/ OutputCloses(j)
      PROVE  OnlyPairsMisled'
  BY <1>4 DEF JobStep, StartJob, Join, LeaveLine, Acquire, RunJob, ShellEnds, OutputCloses,
     Release, Record, Tell
<1>5. CASE UNCHANGED jobsVars
  BY <1>5 DEF jobsVars
<1> QED
  BY <1>1, <1>2, <1>3, <1>4, <1>5 DEF JobsNext, CallerStep

(* For any callers: whoever cancels a job alone learns of its end. *)
THEOREM LoneCallersLearn == JobsSpec => []OnlyPairsMisled
<1>1. JobsInit => OnlyPairsMisled
  BY DEF JobsInit, OnlyPairsMisled
<1> QED
  BY <1>1, MisledStep, InvKept, PTL DEF JobsSpec

-----------------------------------------------------------------------------
(***************************************************************************)
(* The scheduler and its table, for any jobs, periods and numbers of edits *)
(* and crashes.  OnceRunsOnce and ScheduleHolds are about what the         *)
(* scheduler holds and what the table has; what makes them inductive is    *)
(* that the two agree (CopiesAgree), that an id is used once (AddedOnce),  *)
(* that an edit under way is the scheduler's own or of a job it leaves     *)
(* alone (Disables, EditsApart), and what is known of rows that are still  *)
(* in an edit's hands (SpentIdles, RowsAgree).                             *)
(***************************************************************************)

(* The copy that the scheduler works from is the row, unless the row is    *)
(* gone: nobody edits a job that the scheduler handles.                    *)
CopiesAgree ==
    \A j \in Jobs : stage[j] # "none" =>
        /\ batch[j] \in Row /\ batch[j].enabled
        /\ table[j] # NoJob => table[j] = batch[j]

(* Jobs of the table, of the batch and of an edit were added; ids are used *)
(* once.                                                                   *)
AddedOnce ==
    /\ \A j \in Jobs : table[j] # NoJob \/ stage[j] # "none" => j \in added
    /\ spent \subseteq added /\ Declared \subseteq added
    /\ edit # NoEdit => edit.id \in added

(* A row that is being disabled is the scheduler's edit; that edit is of a *)
(* row that is being disabled.                                             *)
Disables ==
    /\ \A j \in Jobs : stage[j] = "disabling" =>
          edit # NoEdit /\ edit.id = j /\ edit.by = "scheduler" /\ ~edit.row.enabled
    /\ edit # NoEdit /\ edit.by = "scheduler" => stage[edit.id] = "disabling"

(* A user's edit is of a job the scheduler does not handle. *)
EditsApart == edit # NoEdit /\ edit.by # "scheduler" => stage[edit.id] = "none"

(* What was spent stays off, or is a one-shot no more, until its user      *)
(* wishes otherwise.                                                       *)
Idles(row) == ~row.enabled \/ row.kind = "recurring"

SpentIdles ==
    /\ \A j \in spent : table[j] # NoJob => Idles(table[j])
    /\ edit # NoEdit /\ edit.by # "wish" /\ edit.id \in spent => Idles(edit.row)
    /\ \A j \in spent : stage[j] # "none" => batch[j].kind = "recurring"

(* Every row, enabled or not, and every row being written agrees with its  *)
(* schedule; the schedules of the config file are recurring ones.          *)
Agrees(row) ==
    /\ IF row.kind = "once" THEN row.next = row.at ELSE row.next <= now + Period
    /\ ~row.custom => row.kind = "recurring"

RowsAgree ==
    /\ \A j \in Jobs : table[j] # NoJob => Agrees(table[j])
    /\ edit # NoEdit => Agrees(edit.row)

CronTyped == TypeOK /\ Disables

CronInv == CronTyped /\ CopiesAgree /\ AddedOnce /\ EditsApart /\ SpentIdles /\ RowsAgree

-----------------------------------------------------------------------------
(* How far a job can be. *)
Stages == {"none", "queued", "running", "ended", "disabling"}

(* A next run lies within the time that is modelled. *)
LEMMA NextRunsInTime == TypeOK => NextRuns \subseteq Time /\ (now + 1 .. MaxTime) \subseteq Time
BY CronAssumption DEF TypeOK, NextRuns, Time

(* A schedule that a user gives makes a row. *)
LEMMA ScheduledRow ==
    ASSUME TypeOK, NEW row \in Row PROVE Scheduled(row) \subseteq Row
<1>1. 0 \in Time
  BY CronAssumption DEF Time
<1>2. ASSUME NEW t \in NextRuns
      PROVE  [row EXCEPT !.kind = "recurring", !.at = 0, !.next = t, !.custom = TRUE] \in Row
  BY <1>1, <1>2, NextRunsInTime DEF Row
<1>3. ASSUME NEW t \in now + 1 .. MaxTime
      PROVE  [row EXCEPT !.kind = "once", !.at = t, !.next = t, !.custom = TRUE] \in Row
  BY <1>3, NextRunsInTime DEF Row
<1> QED
  BY <1>2, <1>3 DEF Scheduled

(* A disabled row is a row, with the same schedule. *)
LEMMA OffRow ==
    ASSUME NEW row \in Row
    PROVE  /\ Off(row) \in Row /\ ~Off(row).enabled /\ Off(row).kind = row.kind
           /\ Off(row).next = row.next /\ Off(row).at = row.at /\ Off(row).custom = row.custom
BY DEF Off, Row

(* What update_job makes of a row is a row. *)
LEMMA EditedRow ==
    ASSUME TypeOK, NEW row \in Row PROVE Wishes(row) \cup Others(row) \subseteq Row
<1>1. [row EXCEPT !.enabled = TRUE] \in Row /\ [row EXCEPT !.enabled = FALSE] \in Row
  BY DEF Row
<1> QED
  BY <1>1, ScheduledRow DEF Wishes, Others

(* The debts are jobs. *)
LEMMA OwedJobs == ASSUME NEW still \in SUBSET Jobs, Owing(still) PROVE owed' \subseteq Jobs
BY DEF Owing, Due

(* The scheduler's variables when a job leaves the batch. *)
LEMMA LeaveTyped ==
    ASSUME TypeOK, NEW j \in Jobs, Leave(j)
    PROVE  /\ sched' \in {"idle", "busy"} /\ batch' \in [Jobs -> Row \cup {NoJob}]
           /\ stage' \in [Jobs -> Stages] /\ success' \in [Jobs -> BOOLEAN]
           /\ sched' # "busy" => \A k \in Jobs : stage'[k] = "none"
<1>1. /\ batch \in [Jobs -> Row \cup {NoJob}] /\ stage \in [Jobs -> Stages]
      /\ success \in [Jobs -> BOOLEAN]
  BY DEF TypeOK, Stages
<1>2. success' \in [Jobs -> BOOLEAN]
  BY <1>1 DEF Leave
<1>3. sched' # "busy" => \A k \in Jobs : stage'[k] = "none"
  BY <1>1 DEF Leave
<1> QED
  BY <1>1, <1>2, <1>3 DEF Leave, Stages

(* A table in which one row changes to a row is a table. *)
LEMMA ChangedTable ==
    ASSUME TypeOK, NEW j \in Jobs, NEW row \in Row \cup {NoJob}
    PROVE  [table EXCEPT ![j] = row] \in [Jobs -> Row \cup {NoJob}]
BY DEF TypeOK

(* The rows that synchronising with the config file leaves are rows. *)
LEMMA SyncTable ==
    ASSUME TypeOK, NEW next \in [Declared -> NextRuns]
    PROVE  Sync(next) \in [Jobs -> Row \cup {NoJob}]
<1>1. 0 \in Time
  BY CronAssumption DEF Time
<1>2. table \in [Jobs -> Row \cup {NoJob}]
  BY DEF TypeOK
<1>3. \A j \in Declared : next[j] \in Time
  BY NextRunsInTime
<1>4. \A j \in Declared :
        [kind |-> "recurring", at |-> 0, next |-> next[j],
              enabled |-> TRUE, delete |-> FALSE, custom |-> FALSE] \in Row
  BY <1>1, <1>3 DEF Row
<1>5. ASSUME NEW row \in Row PROVE [row EXCEPT !.enabled = TRUE, !.delete = FALSE] \in Row
  BY DEF Row
<1> QED
  BY <1>2, <1>4, <1>5 DEF Sync

(* Initially the table is empty and the scheduler off. *)
LEMMA CronInitTyped == Init => CronTyped
<1> SUFFICES ASSUME Init PROVE CronTyped
  OBVIOUS
<1>1. TypeOK
  BY CronAssumption DEF Init, TypeOK
<1>2. Disables
  BY DEF Init, Disables
<1> QED
  BY <1>1, <1>2 DEF CronTyped

(* Every step keeps the types. *)
LEMMA CronTypedKept == CronTyped /\ [Next]_vars => TypeOK'
<1> SUFFICES ASSUME CronTyped, [Next]_vars PROVE TypeOK'
  OBVIOUS
<1> USE DEF vars, scheduler, editor
<1>0. TypeOK /\ Disables
  BY DEF CronTyped
<1>1. CASE Tick
  <2>1. now' \in 0 .. MaxTime /\ owed' \subseteq Jobs
    BY <1>0, <1>1, OwedJobs, CronAssumption DEF Tick, TypeOK
  <2> QED
    BY <1>0, <1>1, <2>1 DEF Tick, TypeOK
<1>2. CASE Boot
  <2>1. table' \in [Jobs -> Row \cup {NoJob}] /\ owed' \subseteq Jobs
    BY <1>0, <1>2, SyncTable, OwedJobs DEF Boot, Decided, TypeOK
  <2> QED
    BY <1>0, <1>2, <2>1 DEF Boot, TypeOK
<1>3. ASSUME NEW taken \in SUBSET Jobs, Take(taken), \A j \in taken : table[j] # NoJob
      PROVE  TypeOK'
  <2>1. /\ sched' \in {"idle", "busy"} /\ batch' \in [Jobs -> Row \cup {NoJob}]
        /\ stage' \in [Jobs -> {"none", "queued"}]
        /\ sched' # "busy" => \A j \in Jobs : stage'[j] = "none"
    BY <1>0, <1>3 DEF Take, TypeOK
  <2>2. UNCHANGED <<success, now, table, editor, crashes, owed, spent>>
    BY <1>3 DEF Take
  <2> QED
    BY <1>0, <2>1, <2>2 DEF TypeOK
<1>4. CASE Start
  BY <1>3, <1>4 DEF Start, Due
<1>5. CASE Poll
  BY <1>3, <1>5 DEF Poll, Due
<1>6. ASSUME NEW j \in Jobs, Run(j) PROVE TypeOK'
  <2>1. sched = "busy" /\ stage' \in [Jobs -> Stages]
    BY <1>0, <1>6 DEF Run, TypeOK, Stages
  <2> QED
    BY <1>0, <1>6, <2>1 DEF Run, TypeOK, Stages
<1>7. ASSUME NEW j \in Jobs, Ended(j) PROVE TypeOK'
  <2>1. sched = "busy" /\ stage' \in [Jobs -> Stages] /\ success' \in [Jobs -> BOOLEAN]
    BY <1>0, <1>7 DEF Ended, TypeOK, Stages
  <2>2. owed' \subseteq Jobs
    BY <1>0, <1>7, OwedJobs DEF Ended, TypeOK
  <2>3. UNCHANGED <<now, table, sched, batch, editor, crashes, spent>>
    BY <1>7 DEF Ended
  <2> QED
    BY <1>0, <2>1, <2>2, <2>3 DEF TypeOK, Stages
<1>8. ASSUME NEW j \in Jobs, RemoveSpent(j) PROVE TypeOK'
  <2>1. table' \in [Jobs -> Row \cup {NoJob}] /\ spent' \subseteq Jobs /\ owed' \subseteq Jobs
    BY <1>0, <1>8, ChangedTable, OwedJobs DEF RemoveSpent, TypeOK
  <2>2. Leave(j) /\ UNCHANGED <<now, editor, crashes>>
    BY <1>8 DEF RemoveSpent
  <2> QED
    BY <1>0, <2>1, <2>2, LeaveTyped DEF TypeOK, Stages
<1>9. ASSUME NEW j \in Jobs, DisableSpent(j) PROVE TypeOK'
  <2>1. UNCHANGED <<now, table, edits, added, crashes, owed, spent>>
    BY <1>9 DEF DisableSpent
  <2>2. CASE Leave(j) /\ UNCHANGED edit
    BY <1>0, <2>1, <2>2, LeaveTyped DEF TypeOK, Stages
  <2>3. CASE /\ table[j] # NoJob
             /\ stage' = [stage EXCEPT ![j] = "disabling"]
             /\ edit' = [id |-> j, row |-> Off(table[j]), by |-> "scheduler"]
             /\ UNCHANGED <<sched, batch, success>>
    <3>1. Off(table[j]) \in Row
      <4>1. table[j] \in Row
        BY <1>0, <2>3 DEF TypeOK
      <4> QED
        BY <4>1, OffRow
    <3>2. edit' \in [id : Jobs, row : Row, by : {"user", "wish", "scheduler"}]
      BY <2>3, <3>1
    <3>3. sched = "busy" /\ stage' \in [Jobs -> Stages]
      BY <1>0, <1>9, <2>3 DEF DisableSpent, TypeOK, Stages
    <3> QED
      BY <1>0, <2>1, <2>3, <3>2, <3>3 DEF TypeOK, Stages
  <2> QED
    BY <1>9, <2>2, <2>3 DEF DisableSpent
<1>10. ASSUME NEW j \in Jobs, DisabledSpent(j) PROVE TypeOK'
  <2>1. edit.row \in Row
    BY <1>0, <1>10 DEF DisabledSpent, Disables, TypeOK
  <2>2. table' \in [Jobs -> Row \cup {NoJob}]
    BY <1>0, <1>10, <2>1, ChangedTable DEF DisabledSpent, Change, TypeOK
  <2>3. spent' \subseteq Jobs /\ owed' \subseteq Jobs /\ edit' = NoEdit
    BY <1>0, <1>10, OwedJobs DEF DisabledSpent, TypeOK
  <2>4. Leave(j) /\ UNCHANGED <<now, edits, added, crashes>>
    BY <1>10 DEF DisabledSpent
  <2> QED
    BY <1>0, <2>2, <2>3, <2>4, LeaveTyped DEF TypeOK, Stages
<1>11. ASSUME NEW j \in Jobs, DisableOnce(j) PROVE TypeOK'
  <2>1. table[j] # NoJob => Off(table[j]) \in Row
    <3>1. table[j] # NoJob => table[j] \in Row
      BY <1>0 DEF TypeOK
    <3> QED
      BY <3>1, OffRow
  <2>2. table' \in [Jobs -> Row \cup {NoJob}]
    BY <1>0, <1>11, <2>1, ChangedTable DEF DisableOnce, Change, TypeOK
  <2>3. spent' \subseteq Jobs /\ owed' \subseteq Jobs
    BY <1>0, <1>11, OwedJobs DEF DisableOnce, TypeOK
  <2>4. Leave(j) /\ UNCHANGED <<now, editor, crashes>>
    BY <1>11 DEF DisableOnce
  <2> QED
    BY <1>0, <2>2, <2>3, <2>4, LeaveTyped DEF TypeOK, Stages
<1>12. ASSUME NEW j \in Jobs, Reschedule(j) PROVE TypeOK'
  <2>1. PICK t \in NextRuns : table' = Change(table, j, LAMBDA row : [row EXCEPT !.next = t])
    BY <1>12 DEF Reschedule
  <2>2. table[j] # NoJob => [table[j] EXCEPT !.next = t] \in Row
    BY <1>0, NextRunsInTime DEF TypeOK, Row
  <2>3. table' \in [Jobs -> Row \cup {NoJob}]
    BY <1>0, <2>1, <2>2, ChangedTable DEF Change, TypeOK
  <2>4. owed' \subseteq Jobs
    BY <1>0, <1>12, OwedJobs DEF Reschedule, TypeOK
  <2>5. Leave(j) /\ UNCHANGED <<now, editor, crashes, spent>>
    BY <1>12 DEF Reschedule
  <2> QED
    BY <1>0, <2>3, <2>4, <2>5, LeaveTyped DEF TypeOK, Stages
<1>13. ASSUME NEW j \in Jobs, Add(j) PROVE TypeOK'
  <2>1. Blank \in Row
    BY CronAssumption DEF Blank, Row, Time
  <2>2. PICK row \in Scheduled(Blank) :
           table' = [table EXCEPT ![j] = [row EXCEPT !.delete = row.kind = "once"]]
    BY <1>13 DEF Add
  <2>3. row \in Row
    BY <1>0, <2>1, <2>2, ScheduledRow
  <2>4. [row EXCEPT !.delete = row.kind = "once"] \in Row
    BY <2>3 DEF Row
  <2>5. table' \in [Jobs -> Row \cup {NoJob}]
    BY <1>0, <2>2, <2>4, ChangedTable
  <2>6. owed' \subseteq Jobs /\ added' \subseteq Jobs
    BY <1>0, <1>13, OwedJobs DEF Add, Decided, TypeOK
  <2> QED
    BY <1>0, <1>13, <2>5, <2>6 DEF Add, TypeOK
<1>14. ASSUME NEW j \in Jobs, RemoveJob(j) PROVE TypeOK'
  <2>1. table' \in [Jobs -> Row \cup {NoJob}]
    BY <1>0, <1>14, ChangedTable DEF RemoveJob
  <2>2. owed' \subseteq Jobs /\ edits' \in 0 .. MaxEdits
    BY <1>0, <1>14, OwedJobs, CronAssumption DEF RemoveJob, Decided, TypeOK
  <2> QED
    BY <1>0, <1>14, <2>1, <2>2 DEF RemoveJob, TypeOK
<1>15. ASSUME NEW j \in Jobs, EditRead(j) PROVE TypeOK'
  <2>1. table[j] \in Row
    BY <1>0, <1>15 DEF EditRead, TypeOK
  <2>2. edit' \in [id : Jobs, row : Row, by : {"user", "wish", "scheduler"}]
    BY <1>0, <1>15, <2>1, EditedRow DEF EditRead
  <2>3. edits' \in 0 .. MaxEdits
    BY <1>0, <1>15, CronAssumption DEF EditRead, TypeOK
  <2> QED
    BY <1>0, <1>15, <2>2, <2>3 DEF EditRead, TypeOK
<1>16. CASE EditWrite
  <2>1. edit.row \in Row /\ edit.id \in Jobs
    BY <1>0, <1>16 DEF EditWrite, TypeOK
  <2>2. table' \in [Jobs -> Row \cup {NoJob}]
    BY <1>0, <1>16, <2>1, ChangedTable DEF EditWrite, Change, TypeOK
  <2>3. owed' \subseteq Jobs /\ spent' \subseteq Jobs
    BY <1>0, <1>16, OwedJobs DEF EditWrite, Decided, TypeOK
  <2> QED
    BY <1>0, <1>16, <2>2, <2>3 DEF EditWrite, TypeOK
<1>17. CASE Crash
  <2>1. crashes' \in 0 .. MaxCrashes
    BY <1>0, <1>17, CronAssumption DEF Crash, TypeOK
  <2> QED
    BY <1>0, <1>17, <2>1 DEF Crash, TypeOK
<1>18. CASE UNCHANGED vars
  BY <1>0, <1>18 DEF TypeOK
<1> QED
  BY <1>1, <1>2, <1>4, <1>5, <1>6, <1>7, <1>8, <1>9, <1>10, <1>11, <1>12, <1>13, <1>14, <1>15, <1>16,
     <1>17, <1>18 DEF Next, Persist

(* An edit is not the lack of one. *)
LEMMA AnEdit == NoEdit \notin [id : Jobs, row : Row, by : {"user", "wish", "scheduler"}]
<1>1. DOMAIN NoEdit = {"id"}
  BY DEF NoEdit
<1>2. \A e \in [id : Jobs, row : Row, by : {"user", "wish", "scheduler"}] : "by" \in DOMAIN e
  OBVIOUS
<1> QED
  BY <1>1, <1>2

(* Every step keeps that the scheduler's edit is of what it disables. *)
LEMMA DisablesKept == CronTyped /\ [Next]_vars => Disables'
<1> SUFFICES ASSUME CronTyped, [Next]_vars PROVE Disables'
  OBVIOUS
<1> USE DEF vars, scheduler, editor
<1>0. /\ Disables /\ stage \in [Jobs -> Stages]
      /\ sched # "busy" => \A j \in Jobs : stage[j] = "none"
      /\ edit = NoEdit \/ edit.id \in Jobs
  BY DEF CronTyped, TypeOK, Stages
<1>1. CASE UNCHANGED <<edit, stage>>
  BY <1>0, <1>1 DEF Disables
<1>2. ASSUME NEW taken, Take(taken), sched # "busy" PROVE Disables'
  <2>1. /\ UNCHANGED edit
        /\ \A j \in Jobs : stage'[j] \in {"none", "queued"} /\ stage[j] = "none"
    BY <1>0, <1>2 DEF Take
  <2> QED
    BY <1>0, <2>1 DEF Disables
<1>3. ASSUME NEW j \in Jobs, stage[j] # "disabling", UNCHANGED edit,
             \A k \in Jobs \ {j} : stage'[k] = stage[k], stage'[j] # "disabling"
      PROVE  Disables'
  BY <1>0, <1>3 DEF Disables
<1>4. ASSUME NEW j \in Jobs, Run(j) \/ Ended(j) PROVE Disables'
  BY <1>0, <1>3, <1>4 DEF Run, Ended
<1>5. ASSUME NEW j \in Jobs, stage[j] = "ended", Leave(j), UNCHANGED edit PROVE Disables'
  BY <1>0, <1>3, <1>5 DEF Leave
<1>6. ASSUME NEW j \in Jobs, RemoveSpent(j) PROVE Disables'
  BY <1>5, <1>6 DEF RemoveSpent
<1>7. ASSUME NEW j \in Jobs, DisableOnce(j) PROVE Disables'
  BY <1>5, <1>7 DEF DisableOnce
<1>8. ASSUME NEW j \in Jobs, Reschedule(j) PROVE Disables'
  BY <1>5, <1>8 DEF Reschedule
<1>9. ASSUME NEW j \in Jobs, DisableSpent(j) PROVE Disables'
  <2>1. CASE Leave(j) /\ UNCHANGED edit
    BY <1>5, <1>9, <2>1 DEF DisableSpent
  <2>2. CASE /\ table[j] # NoJob
             /\ stage' = [stage EXCEPT ![j] = "disabling"]
             /\ edit' = [id |-> j, row |-> Off(table[j]), by |-> "scheduler"]
    <3>1. table[j] \in Row
      BY <2>2 DEF CronTyped, TypeOK
    <3>2. edit' # NoEdit /\ ~edit'.row.enabled
      BY <2>2, <3>1, OffRow, AnEdit
    <3>3. \A k \in Jobs : stage[k] # "disabling"
      BY <1>0, <1>9 DEF DisableSpent, Disables
    <3> QED
      BY <1>0, <2>2, <3>2, <3>3 DEF Disables
  <2> QED
    BY <1>9, <2>1, <2>2 DEF DisableSpent
<1>10. ASSUME NEW j \in Jobs, DisabledSpent(j) PROVE Disables'
  <2>1. /\ edit' = NoEdit /\ stage' = [stage EXCEPT ![j] = "none"]
        /\ \A k \in Jobs : stage[k] = "disabling" => k = j
    BY <1>0, <1>10 DEF DisabledSpent, Leave, Disables
  <2> QED
    BY <1>0, <2>1 DEF Disables
<1>11. ASSUME NEW j \in Jobs, EditRead(j) PROVE Disables'
  <2>1. /\ \A k \in Jobs : stage[k] # "disabling"
        /\ edit'.by # "scheduler" /\ UNCHANGED stage
    BY <1>0, <1>11 DEF EditRead, Disables
  <2> QED
    BY <1>0, <2>1 DEF Disables
<1>12. CASE EditWrite
  <2>1. /\ \A k \in Jobs : stage[k] # "disabling"
        /\ edit' = NoEdit /\ UNCHANGED stage
    BY <1>0, <1>12 DEF EditWrite, Disables
  <2> QED
    BY <1>0, <2>1 DEF Disables
<1>13. CASE Crash
  BY <1>13 DEF Crash, Disables
<1>14. CASE Tick \/ Boot \/ UNCHANGED vars
  BY <1>1, <1>14 DEF Tick, Boot
<1>15. ASSUME NEW j \in Jobs, Add(j) \/ RemoveJob(j) PROVE Disables'
  BY <1>1, <1>15 DEF Add, RemoveJob
<1>16. CASE Start
  BY <1>2, <1>16 DEF Start
<1>17. CASE Poll
  BY <1>2, <1>17 DEF Poll
<1> QED
  BY <1>4, <1>6, <1>7, <1>8, <1>9, <1>10, <1>11, <1>12, <1>13, <1>14, <1>15, <1>16, <1>17
     DEF Next, Persist

(* The types of the scheduler and of the job table hold always, however    *)
(* its editors behave.                                                     *)
LEMMA CronTypedHolds == Spec => []CronTyped
<1>1. CronTyped /\ [Next]_vars => CronTyped'
  BY CronTypedKept, DisablesKept DEF CronTyped
<1> QED
  BY <1>1, CronInitTyped, PTL DEF Spec

-----------------------------------------------------------------------------
(* What careful editors keep. *)
Kept == CopiesAgree /\ AddedOnce /\ EditsApart /\ SpentIdles /\ RowsAgree

(* A row that agrees with its schedule does so later. *)
LEMMA AgreesLater ==
    ASSUME TypeOK, now' \in Nat, now' >= now, NEW row \in Row, Agrees(row)
    PROVE  Agrees(row)'
<1>1. row.next \in Nat /\ now \in Nat /\ Period \in Nat
  BY CronAssumption DEF Row, Time, TypeOK
<1> QED
  BY <1>1 DEF Agrees

(* A new schedule agrees with the row, which it leaves to its user. *)
LEMMA ScheduledAgrees ==
    ASSUME TypeOK, NEW row \in Row, NEW new \in Scheduled(row)
    PROVE  Agrees(new)
<1>1. CASE \E t \in NextRuns :
        new = [row EXCEPT !.kind = "recurring", !.at = 0, !.next = t, !.custom = TRUE]
  <2>1. PICK t \in NextRuns :
           new = [row EXCEPT !.kind = "recurring", !.at = 0, !.next = t, !.custom = TRUE]
    BY <1>1
  <2>2. new.kind = "recurring" /\ new.next = t /\ new.custom
    BY <2>1 DEF Row
  <2>3. t <= now + Period
    BY CronAssumption DEF NextRuns, TypeOK
  <2> QED
    BY <2>2, <2>3 DEF Agrees
<1>2. CASE \E t \in now + 1 .. MaxTime :
        new = [row EXCEPT !.kind = "once", !.at = t, !.next = t, !.custom = TRUE]
  <2>1. PICK t \in now + 1 .. MaxTime :
           new = [row EXCEPT !.kind = "once", !.at = t, !.next = t, !.custom = TRUE]
    BY <1>2
  <2>2. new.kind = "once" /\ new.next = t /\ new.at = t /\ new.custom
    BY <2>1 DEF Row
  <2> QED
    BY <2>2 DEF Agrees
<1> QED
  BY <1>1, <1>2 DEF Scheduled

(* What update_job writes back agrees if what it read did. *)
LEMMA EditAgrees ==
    ASSUME TypeOK, NEW row \in Row, Agrees(row), NEW new \in Wishes(row) \cup Others(row)
    PROVE  Agrees(new)
<1>1. CASE new = [row EXCEPT !.enabled = TRUE] \/ new = [row EXCEPT !.enabled = FALSE]
  BY <1>1 DEF Row, Agrees
<1> QED
  BY <1>1, ScheduledAgrees DEF Wishes, Others

(* A job that leaves the batch, whatever is persisted about it. *)
LEMMA EndKeeps ==
    ASSUME CronInv, NEW j \in Jobs, stage[j] # "none", Leave(j),
           NEW row \in Row \cup {NoJob}, table' = [table EXCEPT ![j] = row],
           row = NoJob \/ (table[j] # NoJob /\ Idles(row) /\ Agrees(row)),
           spent \subseteq spent', spent' \subseteq spent \cup {j},
           edit' = NoEdit \/ (UNCHANGED edit /\ stage[j] # "disabling"),
           UNCHANGED <<now, added>>
    PROVE  Kept'
<1>0. /\ table \in [Jobs -> Row \cup {NoJob}] /\ stage \in [Jobs -> Stages]
      /\ batch \in [Jobs -> Row \cup {NoJob}] /\ spent \subseteq Jobs
      /\ edit # NoEdit => edit.id \in Jobs
  BY DEF CronInv, CronTyped, TypeOK, Stages
<1>1. /\ stage' = [stage EXCEPT ![j] = "none"] /\ batch' = [batch EXCEPT ![j] = NoJob]
  BY DEF Leave
<1>2. CopiesAgree'
  BY <1>0, <1>1 DEF CronInv, CopiesAgree
<1>3. j \in added
  BY DEF CronInv, AddedOnce
<1>4. AddedOnce'
  BY <1>0, <1>1, <1>3 DEF CronInv, AddedOnce
<1>5. EditsApart'
  BY <1>0, <1>1 DEF CronInv, EditsApart
<1>6. SpentIdles'
  <2>1. \A k \in spent' : table'[k] # NoJob => Idles(table'[k])
    BY <1>0 DEF CronInv, SpentIdles
  <2>2. edit' # NoEdit => edit.id # j /\ edit' = edit
    BY DEF CronInv, EditsApart, CronTyped, Disables
  <2>3. edit' # NoEdit /\ edit'.by # "wish" /\ edit'.id \in spent' => Idles(edit'.row)
    BY <2>2 DEF CronInv, SpentIdles
  <2>4. \A k \in spent' : stage'[k] # "none" => batch'[k].kind = "recurring"
    BY <1>0, <1>1 DEF CronInv, SpentIdles
  <2> QED
    BY <2>1, <2>3, <2>4 DEF SpentIdles, Idles
<1>7. RowsAgree'
  BY <1>0 DEF CronInv, RowsAgree, Agrees
<1> QED
  BY <1>2, <1>4, <1>5, <1>6, <1>7 DEF Kept

(* The scheduler's results keep all of it. *)
LEMMA PersistKeeps ==
    ASSUME CronInv, TypeOK', NEW j \in Jobs, Persist(j) PROVE Kept'
<1> USE DEF vars, scheduler, editor
<1>0. /\ table \in [Jobs -> Row \cup {NoJob}] /\ stage \in [Jobs -> Stages]
      /\ table[j] \in Row \cup {NoJob} /\ spent \subseteq Jobs
      /\ table' \in [Jobs -> Row \cup {NoJob}] /\ table'[j] \in Row \cup {NoJob}
  BY DEF CronInv, CronTyped, TypeOK, Stages
<1>1. table[j] # NoJob => Agrees(table[j])
  BY DEF CronInv, RowsAgree
<1>2. CASE RemoveSpent(j)
  <2>1. /\ stage[j] = "ended" /\ Leave(j) /\ table' = [table EXCEPT ![j] = NoJob]
        /\ spent' = spent \cup {j} /\ UNCHANGED <<edit, now, added>>
    BY <1>2 DEF RemoveSpent
  <2> QED
    BY <2>1, EndKeeps
<1>3. CASE DisabledSpent(j)
  <2>1. /\ stage[j] = "disabling" /\ Leave(j) /\ edit' = NoEdit
        /\ table' = Change(table, j, LAMBDA row : edit.row)
        /\ spent' = spent \cup {j} /\ UNCHANGED <<now, added>>
    BY <1>3 DEF DisabledSpent
  <2>2. edit # NoEdit /\ edit.row \in Row /\ Idles(edit.row) /\ Agrees(edit.row)
    BY <2>1 DEF CronInv, CronTyped, TypeOK, Disables, RowsAgree, Idles
  <2>3. CASE table[j] = NoJob
    <3>1. table' = [table EXCEPT ![j] = NoJob]
      BY <1>0, <2>1, <2>3 DEF Change
    <3> QED
      BY <2>1, <3>1, EndKeeps
  <2>4. CASE table[j] # NoJob
    <3>1. table' = [table EXCEPT ![j] = edit.row]
      BY <2>1, <2>4 DEF Change
    <3> QED
      BY <2>1, <2>2, <2>4, <3>1, EndKeeps
  <2> QED
    BY <2>3, <2>4
<1>4. CASE DisableOnce(j)
  <2>1. /\ stage[j] = "ended" /\ Leave(j) /\ table' = Change(table, j, Off)
        /\ spent' = spent \cup {j} /\ UNCHANGED <<edit, now, added>>
    BY <1>4 DEF DisableOnce
  <2>3. CASE table[j] = NoJob
    <3>1. table' = [table EXCEPT ![j] = NoJob]
      BY <1>0, <2>1, <2>3 DEF Change
    <3> QED
      BY <2>1, <3>1, EndKeeps
  <2>4. CASE table[j] # NoJob
    <3>1. table' = [table EXCEPT ![j] = Off(table[j])]
      BY <1>0, <2>1, <2>4 DEF Change
    <3>2. Off(table[j]) \in Row /\ Idles(Off(table[j])) /\ Agrees(Off(table[j]))
      BY <1>0, <1>1, <2>4, OffRow DEF Idles, Agrees
    <3> QED
      BY <2>1, <2>4, <3>1, <3>2, EndKeeps
  <2> QED
    BY <2>3, <2>4
<1>5. CASE Reschedule(j)
  <2>1. /\ stage[j] = "ended" /\ batch[j].kind = "recurring" /\ Leave(j)
        /\ UNCHANGED <<edit, now, added, spent>>
    BY <1>5 DEF Reschedule
  <2>2. PICK t \in NextRuns : table' = Change(table, j, LAMBDA row : [row EXCEPT !.next = t])
    BY <1>5 DEF Reschedule
  <2>3. CASE table[j] = NoJob
    <3>1. table' = [table EXCEPT ![j] = NoJob]
      BY <1>0, <2>2, <2>3 DEF Change
    <3> QED
      BY <2>1, <3>1, EndKeeps
  <2>4. CASE table[j] # NoJob
    <3> DEFINE new == [table[j] EXCEPT !.next = t]
    <3>1. table' = [table EXCEPT ![j] = new]
      BY <1>0, <2>2, <2>4 DEF Change
    <3>2. table[j] \in Row /\ table[j].kind = "recurring"
      BY <1>0, <2>1, <2>4 DEF CronInv, CopiesAgree
    <3>3. new.kind = "recurring" /\ new.next = t
      BY <3>2 DEF Row
    <3>4. t <= now + Period
      BY CronAssumption DEF NextRuns, CronInv, CronTyped, TypeOK
    <3>5. new \in Row /\ Idles(new) /\ Agrees(new)
      BY <1>0, <3>1, <3>3, <3>4, <2>4, <3>2, NextRunsInTime DEF Idles, Agrees, CronInv, CronTyped, Row
    <3> HIDE DEF new
    <3> QED
      BY <2>1, <2>4, <3>1, <3>5, EndKeeps
  <2> QED
    BY <2>3, <2>4
<1>6. CASE DisableSpent(j)
  <2>1. /\ stage[j] = "ended" /\ edit = NoEdit /\ UNCHANGED <<now, table, added, spent>>
        /\ ~(table[j] # NoJob) => Leave(j) /\ UNCHANGED edit
    BY <1>6 DEF DisableSpent
  <2>2. CASE table[j] = NoJob
    <3>1. table' = [table EXCEPT ![j] = NoJob]
      BY <1>0, <2>1, <2>2
    <3> QED
      BY <2>1, <2>2, <3>1, EndKeeps
  <2>3. CASE table[j] # NoJob
    <3>1. /\ stage' = [stage EXCEPT ![j] = "disabling"] /\ UNCHANGED batch
          /\ edit' = [id |-> j, row |-> Off(table[j]), by |-> "scheduler"]
      BY <1>6, <2>3 DEF DisableSpent
    <3>2. Idles(Off(table[j])) /\ Agrees(Off(table[j]))
      BY <1>0, <1>1, <2>3, OffRow DEF Idles, Agrees
    <3>3. CopiesAgree' /\ AddedOnce'
      BY <1>0, <2>1, <3>1 DEF CronInv, CopiesAgree, AddedOnce
    <3>4. EditsApart'
      BY <3>1 DEF EditsApart
    <3>5. SpentIdles'
      BY <1>0, <2>1, <3>1, <3>2 DEF CronInv, SpentIdles, Idles
    <3>6. RowsAgree'
      BY <1>0, <2>1, <3>1, <3>2 DEF CronInv, RowsAgree, Agrees
    <3> QED
      BY <3>3, <3>4, <3>5, <3>6 DEF Kept
  <2> QED
    BY <2>2, <2>3
<1> QED
  BY <1>2, <1>3, <1>4, <1>5, <1>6 DEF Persist

(* Initially there is nothing to keep. *)
LEMMA CronInitKept == Init => Kept
<1> SUFFICES ASSUME Init PROVE Kept
  OBVIOUS
<1>1. CopiesAgree /\ AddedOnce /\ EditsApart
  BY DEF Init, CopiesAgree, AddedOnce, EditsApart
<1>2. SpentIdles /\ RowsAgree
  BY DEF Init, SpentIdles, RowsAgree
<1> QED
  BY <1>1, <1>2 DEF Kept

(* The other steps of the scheduler keep all of it. *)
LEMMA SchedulerKeeps ==
    ASSUME CronInv, CarefulEditors, TypeOK',
           \/ Tick \/ Boot \/ Start \/ Poll \/ Crash
           \/ \E j \in Jobs : Run(j) \/ Ended(j)
    PROVE  Kept'
<1> USE DEF vars, scheduler, editor
<1>0. /\ table \in [Jobs -> Row \cup {NoJob}] /\ stage \in [Jobs -> Stages]
      /\ batch \in [Jobs -> Row \cup {NoJob}] /\ spent \subseteq Jobs
      /\ sched # "busy" => \A j \in Jobs : stage[j] = "none"
      /\ edit # NoEdit => edit.row \in Row /\ edit.id \in Jobs
      /\ TypeOK /\ now \in Nat
  BY DEF CronInv, CronTyped, TypeOK, Stages
<1>1. CASE Tick
  <2>1. now' \in Nat /\ now' >= now /\ UNCHANGED <<table, sched, batch, stage, edit, added, spent>>
    BY <1>0, <1>1 DEF Tick
  <2>2. \A row \in Row : Agrees(row) => Agrees(row)'
    BY <1>0, <2>1, AgreesLater
  <2>3. RowsAgree'
    BY <1>0, <2>1, <2>2 DEF CronInv, RowsAgree, Agrees
  <2> QED
    BY <2>1, <2>3 DEF CronInv, Kept, CopiesAgree, AddedOnce, EditsApart, SpentIdles, Idles
<1>2. CASE Boot
  <2>1. PICK next \in [Declared -> NextRuns] : table' = Sync(next)
    BY <1>2 DEF Boot
  <2>2. /\ edit = NoEdit /\ \A j \in Jobs : stage[j] = "none"
        /\ UNCHANGED <<batch, stage, edit, added, spent, now>>
    BY <1>0, <1>2 DEF Boot, Careful
  <2>3. \A j \in Jobs \ Declared : table'[j] = table[j]
    BY <2>1 DEF Sync
  <2>4. \A j \in Declared : /\ table'[j].kind = "recurring" /\ table'[j].next <= now + Period
    <3> SUFFICES ASSUME NEW j \in Declared
                 PROVE  table'[j].kind = "recurring" /\ table'[j].next <= now + Period
      OBVIOUS
    <3>1. j \in Jobs
      BY CronAssumption
    <3>2. CASE table[j] = NoJob \/ table[j].custom
      <4>1. /\ table'[j] = [kind |-> "recurring", at |-> 0, next |-> next[j],
                            enabled |-> TRUE, delete |-> FALSE, custom |-> FALSE]
        BY <2>1, <3>1, <3>2 DEF Sync
      <4>2. next[j] <= now + Period
        BY <1>0, CronAssumption DEF NextRuns
      <4> QED
        BY <4>1, <4>2
    <3>3. CASE table[j] # NoJob /\ ~table[j].custom
      <4>1. table[j] \in Row /\ Agrees(table[j])
        BY <1>0, <3>1, <3>3 DEF CronInv, RowsAgree
      <4>2. table'[j] = [table[j] EXCEPT !.enabled = TRUE, !.delete = FALSE]
        BY <2>1, <3>1, <3>3 DEF Sync
      <4>3. table'[j].kind = table[j].kind /\ table'[j].next = table[j].next
        BY <4>1, <4>2 DEF Row
      <4> QED
        BY <3>3, <4>1, <4>3 DEF Agrees
    <3> QED
      BY <3>2, <3>3
  <2>5. Declared \subseteq added
    BY DEF CronInv, AddedOnce
  <2> QED
    BY <1>0, <2>2, <2>3, <2>4, <2>5
       DEF CronInv, Kept, CopiesAgree, AddedOnce, EditsApart, SpentIdles, Idles, RowsAgree, Agrees
<1>3. ASSUME NEW taken \in SUBSET Due(table, now), Take(taken), edit = NoEdit PROVE Kept'
  <2>1. /\ UNCHANGED <<now, table, edit, added, spent>>
        /\ \A j \in Jobs : /\ stage'[j] # "none" => j \in taken
                           /\ j \in taken => batch'[j] = table[j]
    BY <1>3 DEF Take
  <2>2. \A j \in taken : j \in Jobs /\ table[j] # NoJob /\ table[j] \in Row /\ table[j].enabled
    BY <1>0, <1>3 DEF Due
  <2>3. CopiesAgree'
    BY <2>1, <2>2 DEF CopiesAgree
  <2>4. AddedOnce' /\ EditsApart' /\ RowsAgree'
    BY <1>3, <2>1, <2>2 DEF CronInv, AddedOnce, EditsApart, RowsAgree, Agrees
  <2>5. SpentIdles'
    BY <1>0, <1>3, <2>1, <2>2 DEF CronInv, SpentIdles, Idles
  <2> QED
    BY <2>3, <2>4, <2>5 DEF Kept
<1>4. CASE Start
  BY <1>3, <1>4 DEF Start, Careful
<1>5. CASE Poll
  BY <1>3, <1>5 DEF Poll, Careful
<1>6. CASE Crash
  <2>1. /\ edit' = NoEdit /\ UNCHANGED <<now, table, added, spent>>
        /\ \A j \in Jobs : stage'[j] = "none"
    BY <1>6 DEF Crash
  <2> QED
    BY <1>0, <2>1
       DEF CronInv, Kept, CopiesAgree, AddedOnce, EditsApart, SpentIdles, Idles, RowsAgree, Agrees
<1>7. ASSUME NEW j \in Jobs, Run(j) \/ Ended(j) PROVE Kept'
  <2>1. /\ UNCHANGED <<now, table, batch, edit, added, spent>>
        /\ stage[j] \in {"queued", "running"}
        /\ \A k \in Jobs : IF k = j THEN stage'[k] \in {"running", "ended"}
                           ELSE stage'[k] = stage[k]
    BY <1>0, <1>7 DEF Run, Ended
  <2>2. CopiesAgree' /\ AddedOnce' /\ EditsApart'
    BY <1>0, <2>1 DEF CronInv, CopiesAgree, AddedOnce, EditsApart
  <2>3. SpentIdles' /\ RowsAgree'
    BY <1>0, <2>1 DEF CronInv, SpentIdles, Idles, RowsAgree, Agrees
  <2> QED
    BY <2>2, <2>3 DEF Kept
<1> QED
  BY <1>1, <1>2, <1>4, <1>5, <1>6, <1>7

(* The steps of the editors keep all of it. *)
LEMMA EditorsKeep ==
    ASSUME CronInv, CarefulEditors, TypeOK',
           EditWrite \/ \E j \in Jobs : Add(j) \/ RemoveJob(j) \/ EditRead(j)
    PROVE  Kept'
<1> USE DEF vars, scheduler, editor
<1>0. /\ table \in [Jobs -> Row \cup {NoJob}] /\ stage \in [Jobs -> Stages]
      /\ batch \in [Jobs -> Row \cup {NoJob}] /\ spent \subseteq Jobs
      /\ edit # NoEdit => /\ edit.row \in Row /\ edit.id \in Jobs
                          /\ edit.by \in {"user", "wish", "scheduler"}
      /\ TypeOK
  BY DEF CronInv, CronTyped, TypeOK, Stages
<1>1. CASE EditWrite
  <2> DEFINE j == edit.id
  <2>1. /\ edit # NoEdit /\ edit.by # "scheduler" /\ edit' = NoEdit
        /\ table' = Change(table, j, LAMBDA row : edit.row)
        /\ spent' = IF edit.by = "wish" THEN spent \ {j} ELSE spent
        /\ UNCHANGED <<now, batch, stage, added>>
    BY <1>1 DEF EditWrite
  <2>2. /\ j \in Jobs /\ stage[j] = "none" /\ Agrees(edit.row)
        /\ j \in spent' => Idles(edit.row)
    BY <1>0, <2>1 DEF CronInv, EditsApart, RowsAgree, SpentIdles
  <2>3. \A k \in Jobs : table'[k] = IF k = j /\ table[j] # NoJob THEN edit.row ELSE table[k]
    BY <1>0, <2>1, <2>2 DEF Change
  <2>4. CopiesAgree' /\ AddedOnce' /\ EditsApart'
    <3>1. \A k \in Jobs : stage'[k] # "none" => table'[k] = table[k]
      BY <2>1, <2>2, <2>3
    <3>2. CopiesAgree'
      BY <2>1, <3>1 DEF CronInv, CopiesAgree
    <3>3. spent' \subseteq spent /\ \A k \in Jobs : table'[k] # NoJob => table[k] # NoJob
      BY <2>1, <2>3
    <3>4. AddedOnce'
      BY <2>1, <3>3 DEF CronInv, AddedOnce
    <3>5. EditsApart'
      BY <2>1 DEF EditsApart
    <3> QED
      BY <3>2, <3>4, <3>5
  <2>5. SpentIdles'
    <3>1. spent' \subseteq spent
      BY <2>1
    <3>2. \A k \in spent' : table'[k] # NoJob => Idles(table'[k])
      BY <1>0, <2>2, <2>3, <3>1 DEF CronInv, SpentIdles
    <3> QED
      BY <2>1, <3>1, <3>2 DEF CronInv, SpentIdles, Idles
  <2>6. RowsAgree'
    BY <1>0, <2>1, <2>2, <2>3 DEF CronInv, RowsAgree, Agrees
  <2> QED
    BY <2>4, <2>5, <2>6 DEF Kept
<1>2. ASSUME NEW j \in Jobs, Add(j) PROVE Kept'
  <2>1. Blank \in Row
    BY CronAssumption DEF Blank, Row, Time
  <2>2. PICK row \in Scheduled(Blank) :
           table' = [table EXCEPT ![j] = [row EXCEPT !.delete = row.kind = "once"]]
    BY <1>2 DEF Add
  <2>3. row \in Row /\ Agrees(row)
    BY <1>0, <2>1, <2>2, ScheduledRow, ScheduledAgrees
  <2> DEFINE new == [row EXCEPT !.delete = row.kind = "once"]
  <2>4. /\ new.kind = row.kind /\ new.next = row.next /\ new.at = row.at /\ new.custom = row.custom
    BY <2>3 DEF Row
  <2>5. Agrees(new)
    BY <2>3, <2>4 DEF Agrees
  <2> HIDE DEF new
  <2>6. /\ j \notin added /\ added' = added \cup {j}
        /\ UNCHANGED <<now, batch, stage, edit, spent>>
    BY <1>2 DEF Add
  <2>7. j \notin spent /\ stage[j] = "none" /\ (edit # NoEdit => edit.id # j)
    BY <2>6 DEF CronInv, AddedOnce
  <2>8. table' = [table EXCEPT ![j] = new]
    BY <2>2 DEF new
  <2>9. CopiesAgree' /\ AddedOnce' /\ EditsApart'
    BY <1>0, <2>6, <2>7, <2>8 DEF CronInv, CopiesAgree, AddedOnce, EditsApart
  <2>10. SpentIdles'
    BY <1>0, <2>6, <2>7, <2>8 DEF CronInv, SpentIdles, Idles
  <2>11. RowsAgree'
    BY <1>0, <2>5, <2>6, <2>8 DEF CronInv, RowsAgree, Agrees
  <2> QED
    BY <2>9, <2>10, <2>11 DEF Kept
<1>3. ASSUME NEW j \in Jobs, RemoveJob(j) PROVE Kept'
  <2>1. /\ table' = [table EXCEPT ![j] = NoJob]
        /\ UNCHANGED <<now, batch, stage, edit, added, spent>>
    BY <1>3 DEF RemoveJob
  <2>2. CopiesAgree' /\ AddedOnce' /\ EditsApart'
    BY <1>0, <2>1 DEF CronInv, CopiesAgree, AddedOnce, EditsApart
  <2>3. SpentIdles' /\ RowsAgree'
    BY <1>0, <2>1 DEF CronInv, SpentIdles, Idles, RowsAgree, Agrees
  <2> QED
    BY <2>2, <2>3 DEF Kept
<1>4. ASSUME NEW j \in Jobs, EditRead(j) PROVE Kept'
  <2>1. /\ edit = NoEdit /\ table[j] # NoJob /\ stage[j] = "none"
        /\ UNCHANGED <<now, table, batch, stage, added, spent>>
    BY <1>4 DEF EditRead, Careful
  <2>2. table[j] \in Row /\ Agrees(table[j]) /\ j \in added
    BY <1>0, <2>1 DEF CronInv, RowsAgree, AddedOnce
  <2>3. /\ edit'.id = j /\ edit'.by \in {"wish", "user"} /\ Agrees(edit'.row)
        /\ edit'.by = "user" => edit'.row \in Others(table[j])
    <3>1. CASE \E row \in Wishes(table[j]) : edit' = [id |-> j, row |-> row, by |-> "wish"]
      <4>1. PICK row \in Wishes(table[j]) : edit' = [id |-> j, row |-> row, by |-> "wish"]
        BY <3>1
      <4> QED
        BY <1>0, <2>2, <4>1, EditAgrees
    <3>2. CASE \E row \in Others(table[j]) : edit' = [id |-> j, row |-> row, by |-> "user"]
      <4>1. PICK row \in Others(table[j]) : edit' = [id |-> j, row |-> row, by |-> "user"]
        BY <3>2
      <4> QED
        BY <1>0, <2>2, <4>1, EditAgrees
    <3> QED
      BY <1>4, <3>1, <3>2 DEF EditRead
  <2>4. CopiesAgree' /\ AddedOnce' /\ EditsApart'
    BY <1>0, <2>1, <2>2, <2>3 DEF CronInv, CopiesAgree, AddedOnce, EditsApart
  <2>5. edit'.by = "user" /\ j \in spent => Idles(edit'.row)
    <3>1. Idles([table[j] EXCEPT !.enabled = FALSE])
      BY <2>2 DEF Row, Idles
    <3> QED
      BY <2>1, <2>3, <3>1 DEF CronInv, SpentIdles, Others
  <2>6. SpentIdles'
    BY <1>0, <2>1, <2>3, <2>5 DEF CronInv, SpentIdles, Idles
  <2>7. RowsAgree'
    BY <2>1, <2>3 DEF CronInv, RowsAgree, Agrees
  <2> QED
    BY <2>4, <2>6, <2>7 DEF Kept
<1> QED
  BY <1>1, <1>2, <1>3, <1>4

(* CronInv is an invariant when nobody edits what the scheduler handles. *)
LEMMA CronInvHolds == ASSUME CarefulEditors PROVE Spec => []CronInv
<1>1. Init => CronInv
  BY CronInitTyped, CronInitKept DEF CronInv, Kept
<1>2. CronInv /\ [Next]_vars => CronInv'
  <2> SUFFICES ASSUME CronInv, [Next]_vars PROVE CronInv'
    OBVIOUS
  <2>1. CronTyped' /\ TypeOK'
    BY CronTypedKept, DisablesKept DEF CronInv, CronTyped
  <2>2. Kept'
    <3>1. CASE UNCHANGED vars
      BY <3>1 DEF CronInv, Kept, vars, scheduler, editor, CopiesAgree, AddedOnce, EditsApart,
                  SpentIdles, Idles, RowsAgree, Agrees
    <3>2. CASE Next
      BY <2>1, <3>2, PersistKeeps, SchedulerKeeps, EditorsKeep DEF Next
    <3> QED
      BY <3>1, <3>2
  <2> QED
    BY <2>1, <2>2 DEF CronInv, Kept
<1> QED
  BY <1>1, <1>2, PTL DEF Spec

-----------------------------------------------------------------------------
(* The job table, the batch and the edits have their types, careful        *)
(* editors or not.                                                         *)
THEOREM CronTypeCorrect == Spec => []TypeOK
<1>1. CronTyped => TypeOK
  BY DEF CronTyped
<1> QED
  BY <1>1, CronTypedHolds, PTL

(* A one-shot whose run was persisted does not run again (Cron!            *)
(* OnceRunsOnce): its row is off or gone, and what a careful editor writes *)
(* back was read after that.                                               *)
THEOREM SpentStays == ASSUME CarefulEditors PROVE Spec => []OnceRunsOnce
<1>1. CronInv => OnceRunsOnce
  BY DEF CronInv, SpentIdles, OnceRunsOnce
<1> QED
  BY <1>1, CronInvHolds, PTL

(* The next run of a job agrees with its schedule (Cron!ScheduleHolds),    *)
(* for every number of jobs, edits and crashes, because the copy that the  *)
(* scheduler persists by is the row as long as editors are careful.        *)
THEOREM SchedulesHold == ASSUME CarefulEditors PROVE Spec => []ScheduleHolds
<1>1. CronInv => ScheduleHolds
  <2> SUFFICES ASSUME CronInv, NEW j \in Jobs, table[j] # NoJob
               PROVE  IF table[j].kind = "once" THEN table[j].next = table[j].at
                      ELSE table[j].next <= now + Period
    BY DEF ScheduleHolds
  <2> QED
    BY DEF CronInv, RowsAgree, Agrees
<1> QED
  BY <1>1, CronInvHolds, PTL

-----------------------------------------------------------------------------
(***************************************************************************)
(* Learning, for any agents, lessons, calls and old rows.  NoCircle holds  *)
(* because marking goes one way in time: a row is marked by the row that   *)
(* its lesson stores, that lesson is over the moment it stores it, and     *)
(* what it marks was found before, so was stored by a lesson that is over  *)
(* or by no lesson (RowsLast); and a lesson is at one worker, once         *)
(* (InHand).                                                               *)
(***************************************************************************)

USE MemoryAssumption

-----------------------------------------------------------------------------
(* Types, those of the found rows and of the backfilled ones included. *)
Found == UNION {[D -> Keys] : D \in SUBSET Keys}

LearnShape ==
    /\ MemTypeOK
    /\ conflicts \in [Lessons -> Found]
    /\ queue \in [Agents -> Seq(Lessons)]
    /\ fillBatch \subseteq [key : Keys, row : Rows, fails : BOOLEAN]
    /\ \A c \in Calls : call[c] \in {"storing", "updating"} => targetKey[c] \in Keys

(* A lesson is in one queue or at one worker, once. *)
InHand ==
    /\ \A a \in Agents : \A i \in 1 .. Len(queue[a]) : lesson[queue[a][i]] = "queued"
    /\ \A a, b \in Agents : \A i \in 1 .. Len(queue[a]), n \in 1 .. Len(queue[b]) :
          queue[a][i] = queue[b][n] => a = b /\ i = n
    /\ \A a \in Agents : worker[a] # Nothing => lesson[worker[a]] \in {"working", "marking"}
    /\ \A a, b \in Agents : worker[a] = worker[b] /\ worker[a] # Nothing => a = b

(* What a lesson's row can be marked or stored by only comes to be when    *)
(* the lesson is over: its own row is the last thing it stores.            *)
Older(k) == k \in Lessons => lesson[k] = "over"

RowsLast ==
    /\ \A k \in Keys : memories[k] # Nothing => Older(k)
    /\ \A j \in Lessons : \A k \in DOMAIN conflicts[j] : Older(k)
    /\ \A c \in Calls : call[c] = "updating" => Older(targetKey[c])
    /\ \A c \in Calls : call[c] = "storing" => targetKey[c] = c

LearnInv == LearnShape /\ InHand /\ RowsLast

(* Nothing is over again that was over. *)
LEMMA OverStays == LearnShape /\ InHand /\ [MemNext]_memVars =>
                       \A j \in Lessons : lesson[j] = "over" => lesson'[j] = "over"
<1> SUFFICES ASSUME LearnShape, InHand, [MemNext]_memVars, NEW j \in Lessons, lesson[j] = "over"
             PROVE  lesson'[j] = "over"
  OBVIOUS
<1> USE DEF learnVars, memVars
<1>0. lesson \in [Lessons -> {"fresh", "queued", "dropped", "working", "marking", "over", "lost"}]
  BY DEF LearnShape, MemTypeOK
<1>1. ASSUME NEW a \in Agents, TakeLesson(a) PROVE lesson'[j] = "over"
  <2>1. queue[a] \in Seq(Lessons) /\ queue[a] # <<>>
    BY <1>1 DEF TakeLesson, LearnShape, MemTypeOK
  <2>2. 1 \in 1 .. Len(queue[a]) /\ Head(queue[a]) = queue[a][1]
    BY <2>1, EmptySeq, LenProperties
  <2>3. lesson[Head(queue[a])] = "queued"
    BY <2>2 DEF InHand
  <2> QED
    BY <1>0, <1>1, <2>3 DEF TakeLesson
<1>2. ASSUME NEW a \in Agents, Pass(a) \/ Recall(a) \/ MarkOld(a) \/ Learn(a)
      PROVE  lesson'[j] = "over"
  BY <1>0, <1>2 DEF Pass, Recall, MarkOld, Learn, LessonOver
<1>3. ASSUME NEW a \in Agents, NEW l \in Lessons, Submit(a, l) PROVE lesson'[j] = "over"
  BY <1>0, <1>3 DEF Submit
<1>4. CASE Exit
  BY <1>0, <1>4 DEF Exit
<1>5. CASE UNCHANGED lesson
  BY <1>5
<1>6. ASSUME NEW c \in Calls, NEW k \in Keys, ToolStores(c) \/ LookFirst(c, k) \/ ToolForgets(c, k)
      PROVE  UNCHANGED lesson
  BY <1>6 DEF ToolStores, LookFirst, ToolForgets
<1>7. ASSUME NEW a \in Agents, DropAgent(a) PROVE UNCHANGED lesson
  BY <1>7 DEF DropAgent
<1>8. CASE StartFill \/ SelectBatch \/ FillOne \/ EndBatch \/ UNCHANGED memVars
  BY <1>8 DEF StartFill, SelectBatch, FillOne, EndBatch
<1>9. ASSUME NEW c \in Calls, ToolStores(c) PROVE UNCHANGED lesson
  BY <1>9 DEF ToolStores
<1> QED
  BY <1>1, <1>2, <1>3, <1>4, <1>5, <1>6, <1>7, <1>8, <1>9 DEF MemNext

(* What a lesson found is a function from some keys to keys. *)
LEMMA FoundIs ==
    ASSUME NEW f PROVE f \in Found <=> /\ f = [k \in DOMAIN f |-> f[k]] /\ DOMAIN f \subseteq Keys
                                       /\ \A k \in DOMAIN f : f[k] \in Keys
<1>1. ASSUME f \in Found
      PROVE  f = [k \in DOMAIN f |-> f[k]] /\ DOMAIN f \subseteq Keys
             /\ \A k \in DOMAIN f : f[k] \in Keys
  <2>1. PICK D \in SUBSET Keys : f \in [D -> Keys]
    BY <1>1 DEF Found
  <2> QED
    BY <2>1
<1>2. ASSUME f = [k \in DOMAIN f |-> f[k]], DOMAIN f \subseteq Keys, \A k \in DOMAIN f : f[k] \in Keys
      PROVE  f \in Found
  <2>1. f \in [DOMAIN f -> Keys]
    BY <1>2
  <2> QED
    BY <1>2, <2>1 DEF Found
<1> QED
  BY <1>1, <1>2

(* Nothing is among what may be found. *)
LEMMA FoundNone == <<>> \in Found
<1>1. <<>> \in [{} -> Keys]
  OBVIOUS
<1> QED
  BY <1>1 DEF Found

(* The keys are none of them Nothing. *)
LEMMA NoKey == Nothing \notin Keys /\ Lessons \subseteq Keys /\ Calls \subseteq Keys
BY DEF Keys, MemoryAssumption

(* A row that is stored is a row. *)
LEMMA Upserted ==
    ASSUME LearnShape, NEW k \in Keys, NEW content \in Contents, Upsert(k, content)
    PROVE  memories' \in [Keys -> Rows \cup {Nothing}] /\ ids' \in Nat
<1> DEFINE new == IF memories[k] = Nothing THEN ids + 1 ELSE memories[k].id
<1>1. memories \in [Keys -> Rows \cup {Nothing}] /\ ids \in Nat
  BY DEF LearnShape, MemTypeOK
<1>2. new \in Nat
  BY <1>1 DEF Rows
<1>3. [content |-> content, vec |-> content, id |-> new] \in Rows
  BY <1>2 DEF Rows
<1> QED
  BY <1>1, <1>2, <1>3 DEF Upsert

-----------------------------------------------------------------------------
(* Initially there are only old rows, and nothing is to be learnt. *)
LEMMA LearnInit == MemInit => LearnInv
<1> SUFFICES ASSUME MemInit PROVE LearnInv
  OBVIOUS
<1> DEFINE n == Cardinality(OldKeys)
<1>1. n \in Nat
  BY FS_CardinalityType DEF MemoryAssumption
<1>2. PICK order \in [OldKeys -> 1 .. n] :
        /\ memories = [k \in Keys |-> IF k \in OldKeys
                     THEN [content |-> Plain(k), vec |-> Nothing, id |-> order[k]]
                     ELSE Nothing]
        /\ ids = n
        /\ written = [k \in Keys |-> IF k \in OldKeys THEN k ELSE Nothing]
        /\ alive = Agents /\ queue = [a \in Agents |-> <<>>]
        /\ worker = [a \in Agents |-> Nothing] /\ lesson = [j \in Lessons |-> "fresh"]
        /\ conflicts = [j \in Lessons |-> <<>>]
        /\ call = [c \in Calls |-> "fresh"] /\ targetKey = [c \in Calls |-> Nothing]
        /\ fill = "off" /\ fillBatch = {} /\ exits = 0
  BY DEF MemInit
<1> HIDE DEF n
<1>3. \A k \in OldKeys : [content |-> Plain(k), vec |-> Nothing, id |-> order[k]] \in Rows
  BY <1>1 DEF Rows, Contents, Plain, Keys
<1>4. MemTypeOK
  <2>1. memories \in [Keys -> Rows \cup {Nothing}] /\ ids \in Nat
    BY <1>1, <1>2, <1>3
  <2>2. \A a \in Agents : queue[a] \in Seq(Lessons) /\ Len(queue[a]) <= QueueCap
    BY <1>2 DEF MemoryAssumption
  <2>3. \A j \in Lessons : DOMAIN conflicts[j] \subseteq Keys
    BY <1>2, FoundNone, FoundIs
  <2>4. written \in [Keys -> Keys \cup {Nothing}]
    BY <1>2
  <2> QED
    BY <1>2, <2>1, <2>2, <2>3, <2>4 DEF MemTypeOK, MemoryAssumption
<1>5. LearnShape
  BY <1>2, <1>4, FoundNone DEF LearnShape
<1>6. InHand
  BY <1>2 DEF InHand
<1>7. RowsLast
  <2>1. \A k \in OldKeys : k \notin Lessons
    BY DEF MemoryAssumption
  <2>2. \A j \in Lessons : DOMAIN conflicts[j] = {}
    BY <1>2
  <2> QED
    BY <1>2, <2>1, <2>2 DEF RowsLast, Older
<1> QED
  BY <1>5, <1>6, <1>7 DEF LearnInv

-----------------------------------------------------------------------------
(* Every step keeps the types. *)
LEMMA LearnShapeKept == LearnShape /\ [MemNext]_memVars => LearnShape'
<1> SUFFICES ASSUME LearnShape, [MemNext]_memVars PROVE LearnShape'
  OBVIOUS
<1> USE DEF memVars, tableVars, learnVars, toolVars, fillVars
<1>0. MemTypeOK
  BY DEF LearnShape
<1>1. ASSUME NEW c \in Calls, ToolStores(c) PROVE LearnShape'
  <2>1. memories' \in [Keys -> Rows \cup {Nothing}] /\ ids' \in Nat
        /\ written' \in [Keys -> Keys \cup {Nothing}]
    <3>1. targetKey[c] \in Keys /\ Plain(c) \in Contents /\ c \in Keys
      BY <1>1, NoKey DEF LearnShape, ToolStores, Plain, Contents
    <3>2. CASE Upsert(targetKey[c], Plain(c)) /\ written' = [written EXCEPT ![targetKey[c]] = c]
      BY <1>0, <3>1, <3>2, Upserted DEF MemTypeOK
    <3>3. CASE UNCHANGED tableVars
      BY <1>0, <3>3 DEF MemTypeOK
    <3> QED
      BY <1>1, <3>2, <3>3 DEF ToolStores
  <2>2. call' = [call EXCEPT ![c] = "done"] /\ UNCHANGED <<targetKey, learnVars, fillVars, exits>>
    BY <1>1 DEF ToolStores
  <2>3. MemTypeOK'
    BY <1>0, <2>1, <2>2 DEF MemTypeOK
  <2> QED
    BY <1>0, <2>2, <2>3 DEF LearnShape, MemTypeOK
<1>2. ASSUME NEW c \in Calls, NEW k \in Keys, LookFirst(c, k) PROVE LearnShape'
  BY <1>0, <1>2 DEF LookFirst, LearnShape, MemTypeOK
<1>3. ASSUME NEW c \in Calls, NEW k \in Keys, ToolForgets(c, k) PROVE LearnShape'
  BY <1>0, <1>3 DEF ToolForgets, LearnShape, MemTypeOK
<1>4. ASSUME NEW a \in Agents, TakeLesson(a) PROVE LearnShape'
  <2>1. queue[a] \in Seq(Lessons) /\ queue[a] # <<>> /\ Len(queue[a]) <= QueueCap
    BY <1>0, <1>4 DEF TakeLesson, MemTypeOK
  <2>2. /\ Head(queue[a]) \in Lessons /\ Tail(queue[a]) \in Seq(Lessons)
        /\ Len(Tail(queue[a])) <= QueueCap
    BY <2>1, HeadTailProperties DEF MemoryAssumption
  <2>3. queue' \in [Agents -> Seq(Lessons)] /\ \A b \in Agents : Len(queue'[b]) <= QueueCap
    BY <1>0, <1>4, <2>2 DEF TakeLesson, LearnShape, MemTypeOK
  <2> QED
    BY <1>0, <1>4, <2>2, <2>3 DEF TakeLesson, LearnShape, MemTypeOK
<1>5. ASSUME NEW a \in Agents, Pass(a) PROVE LearnShape'
  BY <1>0, <1>5 DEF Pass, LessonOver, LearnShape, MemTypeOK
<1>6. ASSUME NEW a \in Agents, Recall(a) PROVE LearnShape'
  <2> DEFINE j == worker[a]
  <2>1. j \in Lessons
    BY <1>0, <1>6 DEF Recall, MemTypeOK
  <2>2. PICK found \in SUBSET Current(j) :
           conflicts' = [conflicts EXCEPT ![j] = [k \in found |-> memories[k].content.text]]
    BY <1>6 DEF Recall
  <2>3. \A k \in found : k \in Keys /\ memories[k].content.text \in Keys
    BY <1>0 DEF Current, Stored, MemTypeOK, Rows, Contents
  <2>4. [k \in found |-> memories[k].content.text] \in Found
    BY <2>3, FoundIs
  <2>5. conflicts' \in [Lessons -> Found]
    BY <2>2, <2>4 DEF LearnShape
  <2>6. \A l \in Lessons : DOMAIN conflicts'[l] \subseteq Keys
    BY <2>5, FoundIs
  <2> QED
    BY <1>0, <1>6, <2>1, <2>5, <2>6 DEF Recall, LearnShape, MemTypeOK
<1>7. ASSUME NEW a \in Agents, MarkOld(a) PROVE LearnShape'
  <2> DEFINE j == worker[a]
  <2>1. j \in Lessons /\ conflicts[j] \in Found
    BY <1>0, <1>7 DEF MarkOld, LearnShape, MemTypeOK
  <2>2. PICK k \in DOMAIN conflicts[j] :
         \/ /\ Upsert(k, [text |-> conflicts[j][k], by |-> j])
            /\ conflicts' = [conflicts EXCEPT ![j] = Restrict(@, DOMAIN @ \ {k})]
         \/ UNCHANGED <<memories, ids>> /\ conflicts' = [conflicts EXCEPT ![j] = <<>>]
    BY <1>7 DEF MarkOld
  <2>3. DOMAIN conflicts[j] \subseteq Keys /\ \A i \in DOMAIN conflicts[j] : conflicts[j][i] \in Keys
    BY <2>1, FoundIs
  <2>4. [text |-> conflicts[j][k], by |-> j] \in Contents
    BY <2>1, <2>3, NoKey DEF Contents
  <2>5. memories' \in [Keys -> Rows \cup {Nothing}] /\ ids' \in Nat
    BY <1>0, <2>2, <2>3, <2>4, Upserted DEF MemTypeOK
  <2>6. Restrict(conflicts[j], DOMAIN conflicts[j] \ {k}) \in Found
    BY <2>3, FoundIs DEF Restrict
  <2>7. conflicts' \in [Lessons -> Found]
    BY <2>1, <2>2, <2>6, FoundNone DEF LearnShape
  <2>8. \A l \in Lessons : DOMAIN conflicts'[l] \subseteq Keys
    BY <2>7, FoundIs
  <2> QED
    BY <1>0, <1>7, <2>5, <2>7, <2>8 DEF MarkOld, LearnShape, MemTypeOK
<1>8. ASSUME NEW a \in Agents, Learn(a) PROVE LearnShape'
  <2> DEFINE j == worker[a]
  <2>1. j \in Lessons
    BY <1>0, <1>8 DEF Learn, MemTypeOK
  <2>2. memories' \in [Keys -> Rows \cup {Nothing}] /\ ids' \in Nat
        /\ written' \in [Keys -> Keys \cup {Nothing}]
    <3>1. j \in Keys /\ Plain(j) \in Contents
      BY <2>1, NoKey DEF Plain, Contents
    <3>2. CASE Upsert(j, Plain(j)) /\ written' = [written EXCEPT ![j] = j]
      BY <1>0, <3>1, <3>2, Upserted DEF MemTypeOK
    <3>3. CASE UNCHANGED tableVars
      BY <1>0, <3>3 DEF MemTypeOK
    <3> QED
      BY <1>8, <3>2, <3>3 DEF Learn
  <2>3. LessonOver(a) /\ UNCHANGED conflicts
    BY <1>8 DEF Learn
  <2>4. MemTypeOK'
    BY <1>0, <2>1, <2>2, <2>3 DEF MemTypeOK, LessonOver
  <2>5. UNCHANGED <<conflicts, queue, fillBatch, call, targetKey>>
    BY <2>3 DEF LessonOver
  <2> QED
    BY <2>4, <2>5 DEF LearnShape
<1>9. ASSUME NEW a \in Agents, DropAgent(a) PROVE LearnShape'
  BY <1>0, <1>9 DEF DropAgent, LearnShape, MemTypeOK
<1>10. ASSUME NEW a \in Agents, NEW j \in Lessons, Submit(a, j) PROVE LearnShape'
  <2>1. queue[a] \in Seq(Lessons) /\ Len(queue[a]) \in Nat
    BY <1>0 DEF MemTypeOK
  <2>2. Append(queue[a], j) \in Seq(Lessons) /\ Len(Append(queue[a], j)) = Len(queue[a]) + 1
    BY <2>1, AppendProperties
  <2>3. queue' \in [Agents -> Seq(Lessons)] /\ \A b \in Agents : Len(queue'[b]) <= QueueCap
    <3>1. queue \in [Agents -> Seq(Lessons)] /\ \A b \in Agents : Len(queue[b]) <= QueueCap
      BY <1>0 DEF LearnShape, MemTypeOK
    <3>2. CASE Len(queue[a]) < QueueCap /\ queue' = [queue EXCEPT ![a] = Append(@, j)]
      <4>1. Len(Append(queue[a], j)) <= QueueCap
        BY <2>1, <2>2, <3>2 DEF MemoryAssumption
      <4> QED
        BY <2>2, <3>1, <3>2, <4>1
    <3>3. CASE UNCHANGED queue
      BY <3>1, <3>3
    <3> QED
      BY <1>10, <3>2, <3>3 DEF Submit
  <2>4. lesson' \in [Lessons -> {"fresh", "queued", "dropped", "working", "marking", "over", "lost"}]
    BY <1>0, <1>10 DEF Submit, MemTypeOK
  <2>5. UNCHANGED <<tableVars, alive, worker, conflicts, toolVars, fillVars, exits>>
    BY <1>10 DEF Submit
  <2>6. MemTypeOK'
    BY <1>0, <2>3, <2>4, <2>5 DEF MemTypeOK
  <2> QED
    BY <2>3, <2>5, <2>6 DEF LearnShape
<1>11. CASE StartFill
  BY <1>0, <1>11 DEF StartFill, LearnShape, MemTypeOK
<1>12. CASE SelectBatch
  <2>1. fillBatch' \subseteq [key : Keys, row : Rows, fails : BOOLEAN]
    <3>1. CASE UNCHANGED fillBatch
      BY <3>1 DEF LearnShape
    <3>2. ASSUME NEW some \in SUBSET Bare,
                 fillBatch' = {[key |-> k, row |-> memories[k], fails |-> FALSE] : k \in some}
          PROVE  fillBatch' \subseteq [key : Keys, row : Rows, fails : BOOLEAN]
      <4>1. \A k \in some : memories[k] \in Rows
        BY <1>0 DEF MemTypeOK, Bare, Stored
      <4>2. \A k \in some : [key |-> k, row |-> memories[k], fails |-> FALSE]
                                \in [key : Keys, row : Rows, fails : BOOLEAN]
        BY <4>1 DEF Bare, Stored
      <4> QED
        BY <3>2, <4>2
    <3> QED
      BY <1>12, <3>1, <3>2 DEF SelectBatch, kSubset
  <2>2. fill' \in {"selecting", "filling", "done"}
    BY <1>12 DEF SelectBatch
  <2> QED
    BY <1>0, <1>12, <2>1, <2>2 DEF SelectBatch, LearnShape, MemTypeOK
<1>13. CASE FillOne
  <2>1. PICK e \in Untried :
         \/ /\ fillBatch' = (fillBatch \ {e}) \cup {[e EXCEPT !.row.vec = e.row.content]}
            /\ memories' = [k \in Keys |->
                 IF k \in Stored /\ memories[k].id = e.row.id
                 THEN [memories[k] EXCEPT !.vec = e.row.content] ELSE memories[k]]
         \/ /\ fillBatch' = (fillBatch \ {e}) \cup {[e EXCEPT !.fails = TRUE]}
            /\ UNCHANGED memories
    BY <1>13 DEF FillOne
  <2>2. e \in [key : Keys, row : Rows, fails : BOOLEAN]
    BY <2>1 DEF LearnShape, Untried
  <2>3. [e EXCEPT !.row.vec = e.row.content] \in [key : Keys, row : Rows, fails : BOOLEAN]
    BY <2>2 DEF Rows
  <2>4. [e EXCEPT !.fails = TRUE] \in [key : Keys, row : Rows, fails : BOOLEAN]
    BY <2>2
  <2>5. \A k \in Stored : [memories[k] EXCEPT !.vec = e.row.content] \in Rows
    BY <1>0, <2>2 DEF MemTypeOK, Rows, Stored
  <2>6. memories' \in [Keys -> Rows \cup {Nothing}]
    BY <1>0, <2>1, <2>5 DEF MemTypeOK
  <2>7. fillBatch' \subseteq [key : Keys, row : Rows, fails : BOOLEAN]
    BY <2>1, <2>3, <2>4 DEF LearnShape
  <2> QED
    BY <1>0, <1>13, <2>6, <2>7 DEF FillOne, LearnShape, MemTypeOK
<1>14. CASE EndBatch
  BY <1>0, <1>14 DEF EndBatch, LearnShape, MemTypeOK
<1>15. CASE Exit
  <2>1. conflicts' \in [Lessons -> Found] /\ \A l \in Lessons : DOMAIN conflicts'[l] \subseteq Keys
    BY <1>15, FoundNone, FoundIs DEF Exit
  <2>2. \A a \in Agents : queue'[a] \in Seq(Lessons) /\ Len(queue'[a]) <= QueueCap
    BY <1>15 DEF Exit, MemoryAssumption
  <2>3. exits' \in 0 .. MaxExits
    BY <1>0, <1>15 DEF Exit, MemTypeOK, MemoryAssumption
  <2> QED
    BY <1>0, <1>15, <2>1, <2>2, <2>3 DEF Exit, LearnShape, MemTypeOK
<1>16. CASE UNCHANGED memVars
  BY <1>0, <1>16 DEF LearnShape, MemTypeOK
<1> QED
  BY <1>1, <1>2, <1>3, <1>4, <1>5, <1>6, <1>7, <1>8, <1>9, <1>10, <1>11, <1>12, <1>13, <1>14, <1>15,
     <1>16 DEF MemNext

-----------------------------------------------------------------------------
(* Every step keeps each lesson in one place. *)
LEMMA InHandKept == LearnShape /\ InHand /\ [MemNext]_memVars => InHand'
<1> SUFFICES ASSUME LearnShape, InHand, [MemNext]_memVars PROVE InHand'
  OBVIOUS
<1> USE DEF memVars, tableVars, learnVars, toolVars, fillVars
<1>0. /\ queue \in [Agents -> Seq(Lessons)] /\ worker \in [Agents -> Lessons \cup {Nothing}]
      /\ lesson \in [Lessons -> {"fresh", "queued", "dropped", "working", "marking", "over", "lost"}]
      /\ Nothing \notin Lessons
  BY NoKey DEF LearnShape, MemTypeOK
<1>1. \A b \in Agents : /\ queue[b] \in Seq(Lessons) /\ Len(queue[b]) \in Nat
                        /\ \A i \in 1 .. Len(queue[b]) : queue[b][i] \in Lessons
  BY <1>0
<1>2. ASSUME NEW a \in Agents, TakeLesson(a) PROVE InHand'
  <2>1. queue[a] # <<>> /\ worker[a] = Nothing
    BY <1>2 DEF TakeLesson
  <2>2. /\ Len(queue[a]) > 0 /\ Len(Tail(queue[a])) = Len(queue[a]) - 1
        /\ Head(queue[a]) = queue[a][1]
        /\ \A i \in 1 .. Len(Tail(queue[a])) : Tail(queue[a])[i] = queue[a][i + 1]
    BY <1>1, <2>1, HeadTailProperties, EmptySeq
  <2> DEFINE h == queue[a][1]
  <2>3. /\ queue' = [queue EXCEPT ![a] = Tail(queue[a])] /\ worker' = [worker EXCEPT ![a] = h]
        /\ lesson' = [lesson EXCEPT ![h] = "working"] /\ h \in Lessons /\ lesson[h] = "queued"
    BY <1>1, <1>2, <2>2 DEF TakeLesson, InHand
  <2>4. \A b \in Agents : \A i \in 1 .. Len(queue'[b]) :
           \E n \in 1 .. Len(queue[b]) : /\ queue'[b][i] = queue[b][n]
                                         /\ n = IF b = a THEN i + 1 ELSE i
    BY <1>0, <1>1, <2>2, <2>3
  <2>5. \A b \in Agents : \A i \in 1 .. Len(queue'[b]) : queue'[b][i] # h /\ queue'[b][i] \in Lessons
    BY <1>1, <2>2, <2>4 DEF InHand
  <2>6. \A b \in Agents : \A i \in 1 .. Len(queue'[b]) : lesson'[queue'[b][i]] = "queued"
    BY <1>0, <1>1, <2>3, <2>4, <2>5 DEF InHand
  <2>7. \A b, d \in Agents : \A i \in 1 .. Len(queue'[b]), n \in 1 .. Len(queue'[d]) :
          queue'[b][i] = queue'[d][n] => b = d /\ i = n
    BY <1>0, <1>1, <2>2, <2>3, <2>4 DEF InHand
  <2>8. \A b \in Agents : worker[b] # h
    BY <1>0, <2>3 DEF InHand
  <2>9. \A b \in Agents : worker'[b] # Nothing => lesson'[worker'[b]] \in {"working", "marking"}
    BY <1>0, <2>3, <2>8 DEF InHand
  <2>10. \A b, d \in Agents : worker'[b] = worker'[d] /\ worker'[b] # Nothing => b = d
    BY <1>0, <2>3, <2>8 DEF InHand
  <2> QED
    BY <2>6, <2>7, <2>9, <2>10 DEF InHand
<1>3. ASSUME NEW a \in Agents, Recall(a) PROVE InHand'
  BY <1>0, <1>1, <1>3 DEF Recall, InHand
<1>4. ASSUME NEW a \in Agents, Pass(a) \/ Learn(a) PROVE InHand'
  <2>1. /\ worker[a] \in Lessons /\ lesson[worker[a]] \in {"working", "marking"}
        /\ LessonOver(a)
    BY <1>0, <1>4 DEF Pass, Learn
  <2> QED
    BY <1>0, <1>1, <2>1 DEF LessonOver, InHand
<1>5. ASSUME NEW a \in Agents, NEW j \in Lessons, Submit(a, j) PROVE InHand'
  <2>1. CASE queue' = [queue EXCEPT ![a] = Append(@, j)] /\ lesson' = [lesson EXCEPT ![j] = "queued"]
    <3>1. /\ Len(Append(queue[a], j)) = Len(queue[a]) + 1
          /\ \A i \in 1 .. Len(queue[a]) : Append(queue[a], j)[i] = queue[a][i]
          /\ Append(queue[a], j)[Len(queue[a]) + 1] = j
      BY <1>1, AppendProperties
    <3>2. lesson[j] = "fresh" /\ worker' = worker
      BY <1>5 DEF Submit
    <3>3. \A b \in Agents : \A i \in 1 .. Len(queue[b]) : queue[b][i] # j
      BY <3>2 DEF InHand
    <3>4. \A b \in Agents : \A i \in 1 .. Len(queue'[b]) :
            \/ i \in 1 .. Len(queue[b]) /\ queue'[b][i] = queue[b][i]
            \/ b = a /\ i = Len(queue[a]) + 1 /\ queue'[b][i] = j
      BY <1>0, <1>1, <2>1, <3>1
    <3>5. \A b \in Agents : \A i \in 1 .. Len(queue'[b]) : lesson'[queue'[b][i]] = "queued"
      BY <1>0, <1>1, <2>1, <3>3, <3>4 DEF InHand
    <3>6. \A b, d \in Agents : \A i \in 1 .. Len(queue'[b]), n \in 1 .. Len(queue'[d]) :
            queue'[b][i] = queue'[d][n] => b = d /\ i = n
      BY <3>3, <3>4 DEF InHand
    <3>7. \A b \in Agents : worker'[b] # Nothing => lesson'[worker'[b]] \in {"working", "marking"}
      BY <1>0, <2>1, <3>2 DEF InHand
    <3> QED
      BY <3>2, <3>5, <3>6, <3>7 DEF InHand
  <2>2. CASE lesson' = [lesson EXCEPT ![j] = "dropped"] /\ UNCHANGED queue
    <3>1. lesson[j] = "fresh" /\ worker' = worker
      BY <1>5 DEF Submit
    <3> QED
      BY <1>0, <1>1, <2>2, <3>1 DEF InHand
  <2> QED
    BY <1>5, <2>1, <2>2 DEF Submit
<1>6. CASE Exit
  BY <1>6 DEF Exit, InHand
<1>7. CASE UNCHANGED <<queue, worker, lesson>>
  BY <1>7 DEF InHand
<1>8. ASSUME NEW c \in Calls, NEW k \in Keys, LookFirst(c, k) \/ ToolForgets(c, k)
      PROVE  UNCHANGED <<queue, worker, lesson>>
  BY <1>8 DEF LookFirst, ToolForgets
<1>9. ASSUME NEW c \in Calls, ToolStores(c) PROVE UNCHANGED <<queue, worker, lesson>>
  BY <1>9 DEF ToolStores
<1>10. ASSUME NEW a \in Agents, MarkOld(a) \/ DropAgent(a) PROVE UNCHANGED <<queue, worker, lesson>>
  BY <1>10 DEF MarkOld, DropAgent
<1>11. ASSUME StartFill \/ SelectBatch \/ EndBatch PROVE UNCHANGED <<queue, worker, lesson>>
  BY <1>11 DEF StartFill, SelectBatch, EndBatch
<1>12. ASSUME FillOne PROVE UNCHANGED <<queue, worker, lesson>>
  BY <1>12 DEF FillOne
<1>13. ASSUME UNCHANGED memVars PROVE UNCHANGED <<queue, worker, lesson>>
  BY <1>13
<1> QED
  BY <1>2, <1>3, <1>4, <1>5, <1>6, <1>7, <1>8, <1>9, <1>10, <1>11, <1>12, <1>13 DEF MemNext

-----------------------------------------------------------------------------
(* How one step changes a row: it was stored before with the same mark, or *)
(* its mark is none, or a lesson that is being marked by, whose own row    *)
(* the step does not store.                                                *)
LEMMA MarksChange ==
    LearnShape /\ InHand /\ RowsLast /\ [MemNext]_memVars =>
        \A k \in Stored' :
            \/ k \in Stored /\ memories'[k].content.by = memories[k].content.by
            \/ memories'[k].content.by \notin Stored'
<1> SUFFICES ASSUME LearnShape, InHand, RowsLast, [MemNext]_memVars, NEW k \in Stored'
             PROVE  \/ k \in Stored /\ memories'[k].content.by = memories[k].content.by
                    \/ memories'[k].content.by \notin Stored'
  OBVIOUS
<1> USE DEF memVars, tableVars
<1>0. /\ memories \in [Keys -> Rows \cup {Nothing}] /\ k \in Keys /\ Stored' \subseteq Keys
      /\ Nothing \notin Keys
  BY NoKey DEF LearnShape, MemTypeOK, Stored
<1>1. CASE UNCHANGED memories
  BY <1>1 DEF Stored
<1>2. ASSUME NEW i \in Keys, NEW t \in Keys, Upsert(i, Plain(t))
      PROVE  \/ k \in Stored /\ memories'[k].content.by = memories[k].content.by
             \/ memories'[k].content.by \notin Stored'
  BY <1>0, <1>2 DEF Upsert, Plain, Stored
<1>3. ASSUME NEW c \in Calls, ToolStores(c)
      PROVE  \/ k \in Stored /\ memories'[k].content.by = memories[k].content.by
             \/ memories'[k].content.by \notin Stored'
  <2>1. targetKey[c] \in Keys /\ c \in Keys
    BY <1>3, NoKey DEF LearnShape, ToolStores
  <2> QED
    BY <1>1, <1>2, <1>3, <2>1 DEF ToolStores
<1>4. ASSUME NEW c \in Calls, NEW i \in Keys, ToolForgets(c, i)
      PROVE  k \in Stored /\ memories'[k].content.by = memories[k].content.by
  BY <1>0, <1>4 DEF ToolForgets, Stored
<1>5. ASSUME NEW a \in Agents, MarkOld(a)
      PROVE  \/ k \in Stored /\ memories'[k].content.by = memories[k].content.by
             \/ memories'[k].content.by \notin Stored'
  <2> DEFINE j == worker[a]
  <2>1. j \in Lessons /\ j \in Keys /\ lesson[j] = "marking"
    BY <1>5, NoKey DEF MarkOld, LearnShape, MemTypeOK
  <2>2. memories[j] = Nothing
    BY <2>1 DEF RowsLast, Older
  <2>3. CASE UNCHANGED memories
    BY <1>1, <2>3
  <2>4. ASSUME NEW i \in DOMAIN conflicts[j], Upsert(i, [text |-> conflicts[j][i], by |-> j])
        PROVE  \/ k \in Stored /\ memories'[k].content.by = memories[k].content.by
               \/ memories'[k].content.by \notin Stored'
    <3>1. i \in Keys /\ i # j
      BY <2>1 DEF RowsLast, Older, LearnShape, MemTypeOK
    <3>2. j \notin Stored'
      BY <1>0, <2>1, <2>2, <2>4, <3>1 DEF Upsert, Stored
    <3>3. k = i => memories'[k].content.by = j
      BY <1>0, <2>4 DEF Upsert
    <3>4. k # i => memories'[k] = memories[k]
      BY <1>0, <2>4 DEF Upsert
    <3> QED
      BY <1>0, <3>2, <3>3, <3>4 DEF Stored
  <2> QED
    BY <1>5, <2>3, <2>4 DEF MarkOld
<1>6. ASSUME NEW a \in Agents, Learn(a)
      PROVE  \/ k \in Stored /\ memories'[k].content.by = memories[k].content.by
             \/ memories'[k].content.by \notin Stored'
  <2>1. worker[a] \in Keys
    BY <1>6, NoKey DEF Learn, LearnShape, MemTypeOK
  <2> QED
    BY <1>1, <1>2, <1>6, <2>1 DEF Learn
<1>7. CASE FillOne
  <2>1. CASE UNCHANGED memories
    BY <1>1, <2>1
  <2>2. ASSUME NEW e, memories' = [i \in Keys |->
                 IF i \in Stored /\ memories[i].id = e.row.id
                 THEN [memories[i] EXCEPT !.vec = e.row.content] ELSE memories[i]]
        PROVE  k \in Stored /\ memories'[k].content.by = memories[k].content.by
    <3>1. k \in Stored
      BY <1>0, <2>2 DEF Stored
    <3>2. memories[k] \in Rows
      BY <1>0, <3>1 DEF Stored
    <3>3. [memories[k] EXCEPT !.vec = e.row.content].content = memories[k].content
      BY <3>2 DEF Rows
    <3> QED
      BY <1>0, <2>2, <3>1, <3>3
  <2> QED
    BY <1>7, <2>1, <2>2 DEF FillOne
<1>8. ASSUME NEW c \in Calls, NEW i \in Keys, LookFirst(c, i) PROVE UNCHANGED memories
  BY <1>8 DEF LookFirst
<1>9. ASSUME NEW a \in Agents, TakeLesson(a) \/ Pass(a) \/ Recall(a) \/ DropAgent(a)
      PROVE  UNCHANGED memories
  BY <1>9 DEF TakeLesson, Pass, Recall, DropAgent
<1>10. ASSUME NEW a \in Agents, NEW j \in Lessons, Submit(a, j) PROVE UNCHANGED memories
  BY <1>10 DEF Submit
<1>11. ASSUME StartFill \/ SelectBatch \/ EndBatch \/ Exit \/ UNCHANGED memVars
       PROVE  UNCHANGED memories
  BY <1>11 DEF StartFill, SelectBatch, EndBatch, Exit
<1> QED
  BY <1>1, <1>3, <1>4, <1>5, <1>6, <1>7, <1>8, <1>9, <1>10, <1>11 DEF MemNext

(* Every step keeps that a lesson's row is stored last. *)
LEMMA RowsLastKept == LearnShape /\ InHand /\ RowsLast /\ [MemNext]_memVars => RowsLast'
<1> SUFFICES ASSUME LearnShape, InHand, RowsLast, [MemNext]_memVars PROVE RowsLast'
  OBVIOUS
<1> USE DEF memVars, tableVars, learnVars, toolVars, fillVars
<1>0. /\ memories \in [Keys -> Rows \cup {Nothing}] /\ worker \in [Agents -> Lessons \cup {Nothing}]
      /\ call \in [Calls -> {"fresh", "storing", "updating", "done"}]
      /\ targetKey \in [Calls -> Keys \cup {Nothing}] /\ conflicts \in [Lessons -> Found]
      /\ \A j \in Lessons : DOMAIN conflicts[j] \subseteq Keys
      /\ lesson \in [Lessons -> {"fresh", "queued", "dropped", "working", "marking", "over", "lost"}]
      /\ Nothing \notin Keys /\ \A c \in Calls : c \in Keys /\ c \notin Lessons
  BY NoKey DEF LearnShape, MemTypeOK, MemoryAssumption
<1>1. \A k : Older(k) => Older(k)'
  BY OverStays DEF Older
<1>2. ASSUME UNCHANGED <<memories, conflicts, call, targetKey>> PROVE RowsLast'
  BY <1>1, <1>2 DEF RowsLast
<1>3. ASSUME NEW c \in Calls, ToolStores(c) PROVE RowsLast'
  <2>1. /\ targetKey[c] \in Keys /\ Older(targetKey[c])
        /\ UNCHANGED <<conflicts, targetKey>> /\ call' = [call EXCEPT ![c] = "done"]
    BY <1>0, <1>3 DEF ToolStores, RowsLast, LearnShape, Older
  <2>2. \A k \in Keys : memories'[k] # Nothing => k = targetKey[c] \/ memories[k] # Nothing
    BY <1>0, <1>3, <2>1 DEF ToolStores, Upsert
  <2>3. \A k \in Keys : memories'[k] # Nothing => Older(k)'
    BY <1>1, <2>1, <2>2 DEF RowsLast
  <2> QED
    BY <1>0, <1>1, <2>1, <2>3 DEF RowsLast
<1>4. ASSUME NEW c \in Calls, NEW k \in Keys, LookFirst(c, k) PROVE RowsLast'
  <2>1. /\ UNCHANGED <<memories, conflicts>> /\ targetKey' = [targetKey EXCEPT ![c] = k]
        /\ \/ k = c /\ call' = [call EXCEPT ![c] = "storing"]
           \/ Older(k) /\ call' = [call EXCEPT ![c] = "updating"]
    BY <1>4 DEF LookFirst, RowsLast
  <2> QED
    BY <1>0, <1>1, <2>1 DEF RowsLast
<1>5. ASSUME NEW c \in Calls, NEW k \in Keys, ToolForgets(c, k) PROVE RowsLast'
  BY <1>0, <1>1, <1>5 DEF ToolForgets, RowsLast
<1>6. ASSUME NEW a \in Agents, Recall(a) PROVE RowsLast'
  <2> DEFINE j == worker[a]
  <2>1. j \in Lessons /\ UNCHANGED <<memories, call, targetKey>>
    BY <1>0, <1>6 DEF Recall
  <2>2. PICK found \in SUBSET Current(j) :
           conflicts' = [conflicts EXCEPT ![j] = [k \in found |-> memories[k].content.text]]
    BY <1>6 DEF Recall
  <2>3. \A k \in found : Older(k)'
    BY <1>1 DEF Current, Stored, RowsLast
  <2>4. \A l \in Lessons : DOMAIN conflicts'[l] = IF l = j THEN found ELSE DOMAIN conflicts[l]
    BY <1>0, <2>1, <2>2
  <2> QED
    BY <1>1, <2>1, <2>3, <2>4 DEF RowsLast
<1>7. ASSUME NEW a \in Agents, MarkOld(a) PROVE RowsLast'
  <2> DEFINE j == worker[a]
  <2>1. j \in Lessons /\ UNCHANGED <<call, targetKey>>
    BY <1>0, <1>7 DEF MarkOld
  <2>2. PICK k \in DOMAIN conflicts[j] :
         \/ /\ Upsert(k, [text |-> conflicts[j][k], by |-> j])
            /\ conflicts' = [conflicts EXCEPT ![j] = Restrict(@, DOMAIN @ \ {k})]
         \/ UNCHANGED <<memories, ids>> /\ conflicts' = [conflicts EXCEPT ![j] = <<>>]
    BY <1>7 DEF MarkOld
  <2>3. k \in Keys /\ Older(k)
    BY <1>0, <2>1 DEF RowsLast
  <2>4. \A i \in Keys : memories'[i] # Nothing => i = k \/ memories[i] # Nothing
    BY <1>0, <2>2, <2>3 DEF Upsert
  <2>5. DOMAIN <<>> = {} /\ DOMAIN Restrict(conflicts[j], DOMAIN conflicts[j] \ {k}) \subseteq DOMAIN conflicts[j]
    BY DEF Restrict
  <2>6. \A l \in Lessons : DOMAIN conflicts'[l] \subseteq DOMAIN conflicts[l]
    BY <1>0, <2>1, <2>2, <2>5
  <2> QED
    BY <1>0, <1>1, <2>1, <2>3, <2>4, <2>6 DEF RowsLast
<1>8. ASSUME NEW a \in Agents, Learn(a) PROVE RowsLast'
  <2>0. PICK j \in Lessons : j = worker[a]
    BY <1>0, <1>8 DEF Learn
  <2>1. j \in Lessons /\ j \in Keys /\ UNCHANGED <<conflicts, call, targetKey>> /\ lesson'[j] = "over"
    BY <1>0, <1>8, <2>0, NoKey DEF Learn, LessonOver
  <2>2. \A k \in Keys : memories'[k] # Nothing => k = j \/ memories[k] # Nothing
    BY <1>0, <1>8, <2>0, <2>1 DEF Learn, Upsert
  <2>3. Older(j)'
    BY <2>1 DEF Older
  <2> QED
    BY <1>1, <2>1, <2>2, <2>3 DEF RowsLast
<1>9. CASE FillOne
  <2>1. \A k \in Keys : memories'[k] # Nothing => memories[k] # Nothing
    BY <1>0, <1>9 DEF FillOne, Stored
  <2>2. UNCHANGED <<conflicts, call, targetKey>>
    BY <1>9 DEF FillOne
  <2> QED
    BY <1>1, <2>1, <2>2 DEF RowsLast
<1>10. CASE Exit
  <2>1. \A j \in Lessons : DOMAIN conflicts'[j] = {}
    BY <1>10 DEF Exit
  <2>2. \A c \in Calls : call'[c] \in {"fresh", "done"} /\ UNCHANGED <<memories, targetKey>>
    BY <1>10 DEF Exit
  <2> QED
    BY <1>1, <1>10, <2>1, <2>2 DEF RowsLast, Exit
<1>11. ASSUME NEW a \in Agents, TakeLesson(a) \/ Pass(a) \/ DropAgent(a)
       PROVE  UNCHANGED <<memories, conflicts, call, targetKey>>
  BY <1>11 DEF TakeLesson, Pass, LessonOver, DropAgent
<1>12. ASSUME NEW a \in Agents, NEW j \in Lessons, Submit(a, j)
       PROVE  UNCHANGED <<memories, conflicts, call, targetKey>>
  BY <1>12 DEF Submit
<1>13. ASSUME StartFill \/ SelectBatch \/ EndBatch \/ UNCHANGED memVars
       PROVE  UNCHANGED <<memories, conflicts, call, targetKey>>
  BY <1>13 DEF StartFill, SelectBatch, EndBatch
<1> QED
  BY <1>2, <1>3, <1>4, <1>5, <1>6, <1>7, <1>8, <1>9, <1>10, <1>11, <1>12, <1>13 DEF MemNext

-----------------------------------------------------------------------------
(* LearnInv is an invariant of memories and learning. *)
LEMMA LearnInvHolds == MemSpec => []LearnInv
<1>1. LearnInv /\ [MemNext]_memVars => LearnInv'
  BY LearnShapeKept, InHandKept, RowsLastKept DEF LearnInv
<1> QED
  BY <1>1, LearnInit, PTL DEF MemSpec

(* Rows, lessons, calls and the backfill have their types. *)
THEOREM MemTypeCorrect == MemSpec => []MemTypeOK
<1>1. LearnInv => MemTypeOK
  BY DEF LearnInv, LearnShape
<1> QED
  BY <1>1, LearnInvHolds, PTL

(* However workers, tools and exits interleave, memories do not supersede  *)
(* each other in a circle (MemoryLearning!NoCircle): a mark is the key of  *)
(* a lesson whose own row is not stored yet, and it is stored last, so a   *)
(* row that marks comes after every row that it has marked.                *)
THEOREM NoMarkCircle == MemSpec => []NoCircle
<1>1. MemInit => NoCircle
  <2> SUFFICES ASSUME MemInit PROVE \A k \in Stored : memories[k].content.by = Nothing
    BY NoKey DEF NoCircle, Stored
  <2>1. PICK order \in [OldKeys -> 1 .. Cardinality(OldKeys)] :
          memories = [k \in Keys |-> IF k \in OldKeys
                     THEN [content |-> Plain(k), vec |-> Nothing, id |-> order[k]]
                     ELSE Nothing]
    BY DEF MemInit
  <2> QED
    BY <2>1 DEF Stored, Plain
<1>2. LearnInv /\ NoCircle /\ [MemNext]_memVars => NoCircle'
  <2> SUFFICES ASSUME LearnInv, NoCircle, [MemNext]_memVars,
                      NEW circle \in (SUBSET Stored') \ {{}},
                      \A k \in circle : memories'[k].content.by \in circle
               PROVE  FALSE
    BY DEF NoCircle
  <2>1. \A k \in circle : k \in Stored /\ memories'[k].content.by = memories[k].content.by
    BY MarksChange DEF LearnInv
  <2>2. circle \in (SUBSET Stored) \ {{}} /\ \A k \in circle : memories[k].content.by \in circle
    BY <2>1
  <2> QED
    BY <2>2 DEF NoCircle
<1> QED
  BY <1>1, <1>2, LearnInvHolds, PTL DEF MemSpec

=============================================================================
