---------------------------- MODULE BackgroundJobs ----------------------------
(***************************************************************************)
(* Shell commands that outlive the tool call that started them:            *)
(* BackgroundJobManager in crates/clawseed-tools/src/background.rs and     *)
(* run_shell_command in shell.rs.                                          *)
(*                                                                         *)
(* A job has a record behind the manager's mutex and a task of its own     *)
(* that waits for one of MaxRunning permits, runs the command and writes   *)
(* the outcome.  background_cancel sends on the job's watch channel; of a  *)
(* job that runs it waits for the end on a Notify, that wakes one waiter   *)
(* and keeps one wake-up when there is none.  A command may leave a        *)
(* process behind that holds its output open: the task reads on.           *)
(***************************************************************************)
EXTENDS Naturals, FiniteSets, Sequences, SequencesExt

CONSTANTS
    BgJobs,     \* jobs
    Callers,    \* tool calls that cancel
    MaxRunning, \* max_running
    MaxQueued   \* max_queued

ASSUME BackgroundAssumption ==
    IsFiniteSet(BgJobs) /\ BgJobs # {} /\ MaxRunning \in Nat /\ MaxQueued \in Nat

VARIABLES
    status,    \* of each record; "none": no such job yet
    task,      \* where each job's task is
    outcome,   \* what run_shell_command came to
    permits,   \* free permits
    line,      \* tasks that wait for one, in order
    cancel,    \* jobs whose watch channel says cancel
    stored,    \* jobs whose Notify keeps a wake-up
    waiters,   \* callers that wait on a job's Notify, in order
    callerAt,   \* where each caller is
    target,    \* the job each caller cancels
    \* ghosts
    events,    \* terminal events sent, per job
    shared,    \* jobs that two callers waited for at a time
    misled     \* jobs whose caller was told cancel_timeout when they were over

job == <<status, task, outcome, permits, line, cancel>>
caller == <<stored, waiters, callerAt, target>>
jobsVars == <<job, caller, events, shared, misled>>

Final == {"succeeded", "failed", "cancelled"}
Over(j) == status[j] \in Final
Holders == {j \in BgJobs : task[j] \in {"granted", "shell", "reading", "ended"}}

JobsTypeOK ==
    /\ status \in [BgJobs -> {"none", "queued", "running"} \cup Final]
    /\ task \in [BgJobs -> {"none", "spawned", "waiting", "granted", "shell", "reading",
                          "ended", "released", "telling", "done"}]
    /\ outcome \in [BgJobs -> {"none"} \cup Final]
    /\ permits \in 0 .. MaxRunning
    /\ cancel \subseteq BgJobs /\ stored \subseteq BgJobs
    /\ callerAt \in [Callers -> {"idle", "telling", "checking", "polling", "waiting"}]

JobsInit ==
    /\ status = [j \in BgJobs |-> "none"]
    /\ task = [j \in BgJobs |-> "none"]
    /\ outcome = [j \in BgJobs |-> "none"]
    /\ permits = MaxRunning /\ line = <<>> /\ cancel = {}
    /\ stored = {} /\ waiters = [j \in BgJobs |-> <<>>]
    /\ callerAt = [c \in Callers |-> "idle"]
    /\ target \in [Callers -> {CHOOSE j \in BgJobs : TRUE}]
    /\ events = [j \in BgJobs |-> 0]
    /\ shared = {} /\ misled = {}

-----------------------------------------------------------------------------
(* Notify::notify_one, with the callers it wakes. *)

(* Mutant: notify_waiters, that keeps nothing for those yet to wait. *)
NotifyWaiters(j) ==
    /\ callerAt' = [c \in Callers |-> IF Contains(waiters[j], c) THEN "checking" ELSE callerAt[c]]
    /\ waiters' = [waiters EXCEPT ![j] = <<>>]
    /\ UNCHANGED stored

NotifyOne(j) ==
    IF waiters[j] = <<>>
    THEN stored' = stored \cup {j} /\ UNCHANGED <<waiters, callerAt>>
    ELSE /\ callerAt' = [callerAt EXCEPT ![Head(waiters[j])] = "checking"]
         /\ waiters' = [waiters EXCEPT ![j] = Tail(@)]
         /\ UNCHANGED stored

-----------------------------------------------------------------------------
(* A job. *)

StartJob(j) ==
    /\ status[j] = "none"
    /\ Cardinality({k \in BgJobs : status[k] \in {"queued", "running"}}) < MaxRunning + MaxQueued
    /\ status' = [status EXCEPT ![j] = "queued"]
    /\ task' = [task EXCEPT ![j] = "spawned"]
    /\ UNCHANGED <<outcome, permits, line, cancel, caller, events, shared, misled>>

(* Its task asks for a permit ... *)
Join(j) ==
    /\ task[j] = "spawned"
    /\ task' = [task EXCEPT ![j] = "waiting"]
    /\ line' = Append(line, j)
    /\ UNCHANGED <<status, outcome, permits, cancel, caller, events, shared, misled>>

(* ... and gives up when it is cancelled first. *)
LeaveLine(j) ==
    /\ task[j] \in {"spawned", "waiting"} /\ j \in cancel
    /\ task' = [task EXCEPT ![j] = "done"]
    /\ line' = SelectSeq(line, LAMBDA k : k # j)
    /\ UNCHANGED <<status, outcome, permits, cancel, caller, events, shared, misled>>

Acquire(j) ==
    /\ task[j] = "waiting" /\ line[1] = j /\ permits > 0
    /\ task' = [task EXCEPT ![j] = "granted"]
    /\ permits' = permits - 1 /\ line' = Tail(line)
    /\ UNCHANGED <<status, outcome, cancel, caller, events, shared, misled>>

(* Mutant: a job that was cancelled while it waited is run all the same. *)
RunAnyway(j) ==
    /\ task[j] = "granted"
    /\ task' = [task EXCEPT ![j] = "shell"]
    /\ status' = [status EXCEPT ![j] = "running"]
    /\ UNCHANGED <<outcome, permits, line, cancel, caller, events, shared, misled>>

(* Under the mutex: a job cancelled since its permit came is left alone. *)
RunJob(j) ==
    /\ task[j] = "granted"
    /\ IF status[j] = "cancelled"
       THEN /\ task' = [task EXCEPT ![j] = "done"]
            /\ permits' = permits + 1
            /\ UNCHANGED status
       ELSE /\ task' = [task EXCEPT ![j] = "shell"]
            /\ status' = [status EXCEPT ![j] = "running"]
            /\ UNCHANGED permits
    /\ UNCHANGED <<outcome, line, cancel, caller, events, shared, misled>>

(* The shell exits by itself, is killed at the time limit, or is killed    *)
(* because the job was cancelled.                                          *)
ShellEnds(j) ==
    /\ task[j] = "shell"
    /\ \E o \in {"succeeded", "failed"} \cup (IF j \in cancel THEN {"cancelled"} ELSE {}) :
          outcome' = [outcome EXCEPT ![j] = o]
    /\ \E next \in {"ended", "reading"} : task' = [task EXCEPT ![j] = next]
    /\ UNCHANGED <<status, permits, line, cancel, caller, events, shared, misled>>

(* The last process that held the output open is gone.  Neither the time   *)
(* limit nor a cancellation is looked at any more.                         *)
OutputCloses(j) ==
    /\ task[j] = "reading"
    /\ task' = [task EXCEPT ![j] = "ended"]
    /\ UNCHANGED <<status, outcome, permits, line, cancel, caller, events, shared, misled>>

(* Mutant: the permit goes back with a good end only. *)
ReleaseSuccess(j) ==
    /\ task[j] = "ended"
    /\ task' = [task EXCEPT ![j] = "released"]
    /\ permits' = IF outcome[j] = "succeeded" THEN permits + 1 ELSE permits
    /\ UNCHANGED <<status, outcome, line, cancel, caller, events, shared, misled>>

(* The permit goes back before the record says that the job is over. *)
Release(j) ==
    /\ task[j] = "ended"
    /\ task' = [task EXCEPT ![j] = "released"]
    /\ permits' = permits + 1
    /\ UNCHANGED <<status, outcome, line, cancel, caller, events, shared, misled>>

Record(j) ==
    /\ task[j] = "released"
    /\ task' = [task EXCEPT ![j] = "telling"]
    /\ status' = [status EXCEPT ![j] = outcome[j]]
    /\ outcome' = [outcome EXCEPT ![j] = "none"]
    /\ NotifyOne(j)
    /\ UNCHANGED <<permits, line, cancel, target, events, shared, misled>>

Tell(j) ==
    /\ task[j] = "telling"
    /\ task' = [task EXCEPT ![j] = "done"]
    /\ events' = [events EXCEPT ![j] = @ + 1]
    /\ UNCHANGED <<status, outcome, permits, line, cancel, caller, shared, misled>>

-----------------------------------------------------------------------------
(* BackgroundJobManager::cancel. *)

CancelQueued(c, j) ==
    /\ callerAt[c] = "idle" /\ status[j] = "queued"
    /\ cancel' = cancel \cup {j}
    /\ status' = [status EXCEPT ![j] = "cancelled"]
    /\ target' = [target EXCEPT ![c] = j]
    /\ stored' = stored \cup {j} \* nobody waits for a queued job
    /\ callerAt' = [callerAt EXCEPT ![c] = "telling"]
    /\ UNCHANGED <<task, outcome, permits, line, waiters, events, shared, misled>>

TellCancelled(c) ==
    /\ callerAt[c] = "telling"
    /\ callerAt' = [callerAt EXCEPT ![c] = "idle"]
    /\ events' = [events EXCEPT ![target[c]] = @ + 1]
    /\ UNCHANGED <<job, stored, waiters, target, shared, misled>>

CancelRunning(c, j) ==
    /\ callerAt[c] = "idle" /\ status[j] = "running"
    /\ cancel' = cancel \cup {j}
    /\ target' = [target EXCEPT ![c] = j]
    /\ callerAt' = [callerAt EXCEPT ![c] = "checking"]
    /\ shared' = IF \E d \in Callers \ {c} : callerAt[d] # "idle" /\ target[d] = j
                 THEN shared \cup {j} ELSE shared
    /\ UNCHANGED <<status, task, outcome, permits, line, stored, waiters, events, misled>>

(* The status is read; a job that is over is the answer. *)
Check(c) ==
    /\ callerAt[c] = "checking"
    /\ callerAt' = [callerAt EXCEPT ![c] = IF Over(target[c]) THEN "idle" ELSE "polling"]
    /\ UNCHANGED <<job, stored, waiters, target, events, shared, misled>>

(* The Notified future is polled for the first time. *)
PollNotified(c) ==
    /\ callerAt[c] = "polling"
    /\ IF target[c] \in stored
       THEN /\ stored' = stored \ {target[c]}
            /\ callerAt' = [callerAt EXCEPT ![c] = "checking"]
            /\ UNCHANGED waiters
       ELSE /\ callerAt' = [callerAt EXCEPT ![c] = "waiting"]
            /\ waiters' = [waiters EXCEPT ![target[c]] = Append(@, c)]
            /\ UNCHANGED stored
    /\ UNCHANGED <<job, target, events, shared, misled>>

(* Ten seconds: cancel_timeout. *)
GiveUp(c) ==
    /\ callerAt[c] = "waiting"
    /\ callerAt' = [callerAt EXCEPT ![c] = "idle"]
    /\ \E i \in DOMAIN waiters[target[c]] :
          /\ waiters[target[c]][i] = c
          /\ waiters' = [waiters EXCEPT ![target[c]] = RemoveAt(@, i)]
    /\ misled' = IF Over(target[c]) THEN misled \cup {target[c]} ELSE misled
    /\ UNCHANGED <<job, stored, target, events, shared>>

JobStep(j) ==
    \/ Join(j) \/ LeaveLine(j) \/ Acquire(j) \/ RunJob(j) \/ ShellEnds(j)
    \/ Release(j) \/ Record(j) \/ Tell(j)

CallerStep(c) == TellCancelled(c) \/ Check(c) \/ PollNotified(c) \/ GiveUp(c)

JobsNext ==
    \/ \E j \in BgJobs : StartJob(j) \/ JobStep(j) \/ OutputCloses(j)
    \/ \E c \in Callers, j \in BgJobs : CancelQueued(c, j) \/ CancelRunning(c, j)
    \/ \E c \in Callers : CallerStep(c)

(* Tasks of the runtime are polled; the shell is killed at the limit.  A   *)
(* process that a command left behind owes nobody its end.                 *)
JobsFairness ==
    /\ \A j \in BgJobs : WF_jobsVars(JobStep(j))
    /\ \A c \in Callers : WF_jobsVars(CallerStep(c))

JobsSpec == JobsInit /\ [][JobsNext]_jobsVars /\ JobsFairness

-----------------------------------------------------------------------------
(* However jobs end or are cancelled, no permit is lost or made, and a     *)
(* job's end is told once, and not before it is one: max_running commands  *)
(* can always run, never more (the test emits_one_terminal_event, for      *)
(* every way to end).                                                      *)
PermitsKept ==
    /\ permits + Cardinality(Holders) = MaxRunning
    /\ \A j \in BgJobs : events[j] <= (IF Over(j) THEN 1 ELSE 0)

(* A job cancelled in the queue is never run: what a status once said of   *)
(* the end of a job stays.                                                 *)
EndIsFinal == [][\A j \in BgJobs : Over(j) => status'[j] = status[j]]_jobsVars

(* A caller that cancels alone is never told cancel_timeout of a job that  *)
(* is over; of two that wait together only one is woken.                   *)
OnlyPairsMisled == misled \subseteq shared

(* Every job ends and its end is told, by one or by the other, with one    *)
(* exception: a command that left a process with its output open, for      *)
(* which its task, and all that wait for the task's permit, wait.          *)
JobsEnd ==
    \A j \in BgJobs : status[j] = "queued" ~>
        (events[j] = 1 \/ \E k \in BgJobs : task[k] = "reading")
=============================================================================
