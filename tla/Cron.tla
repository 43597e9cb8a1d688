-------------------------------- MODULE Cron --------------------------------
(***************************************************************************)
(* The cron scheduler of clawseed-agent (src/cron/scheduler.rs) and the    *)
(* job table it shares with whoever edits jobs (src/cron/store.rs, called  *)
(* by the gateway's api/cron.rs).  Every statement on the table opens its  *)
(* own connection and is one step.  The scheduler takes a batch of due     *)
(* jobs, as copies, runs them with bounded concurrency, persists each      *)
(* result and polls again when the whole batch is over.  Nothing marks a   *)
(* job as taken: what is due stays due until its result is persisted.      *)
(*                                                                         *)
(* Time is a number that moves on at any moment.  A recurring schedule is  *)
(* known by the longest time between two of its occurrences.  Running a    *)
(* job, retries and delivery included, is external: it ends, well or not.  *)
(* Commands, output, run history, and failures of the table are left out.  *)
(***************************************************************************)
EXTENDS Naturals, FiniteSets

CONSTANTS
    Jobs,           \* job ids; each is added by a user at most once
    Declared,       \* jobs the config file declares, all recurring
    Period,         \* longest time between two occurrences
    MaxTasks,       \* scheduler.max_tasks
    MaxConcurrent,  \* scheduler.max_concurrent
    CatchUp,        \* cron.catch_up_on_startup
    CarefulEditors, \* nobody edits a job that the scheduler handles
    MaxTime, MaxEdits, MaxCrashes,  \* bounds
    NoJob

ASSUME CronAssumption ==
    /\ IsFiniteSet(Jobs) /\ Declared \subseteq Jobs
    /\ Period \in Nat \ {0} /\ MaxTasks \in Nat \ {0} /\ MaxConcurrent \in Nat \ {0}
    /\ CatchUp \in BOOLEAN /\ CarefulEditors \in BOOLEAN
    /\ MaxTime \in Nat /\ MaxEdits \in Nat /\ MaxCrashes \in Nat

VARIABLES
    now,
    table,    \* cron_jobs: a row, or NoJob
    sched,    \* "off", "booted", "idle" or "busy"
    batch,    \* the copies the scheduler works from
    stage,    \* how far it is with each: "none", "queued", "running", "ended", "disabling"
    success,  \* how the run ended
    edit,     \* an update_job between its read and its write
    edits, crashes, added, \* bounds' counters; ids used
    \* ghosts
    owed,     \* jobs that came due and did not run to their end since
    spent     \* one-shot jobs whose only run was persisted

scheduler == <<sched, batch, stage, success>>
editor == <<edit, edits, added>>
vars == <<now, table, scheduler, editor, crashes, owed, spent>>

Time == 0 .. MaxTime + Period
Row == [kind : {"once", "recurring"}, at : Time, next : Time,
        enabled : BOOLEAN, delete : BOOLEAN,
        custom : BOOLEAN]   \* the schedule is a user's, not the config file's
NoEdit == [id |-> NoJob]

TypeOK ==
    /\ now \in 0 .. MaxTime
    /\ table \in [Jobs -> Row \cup {NoJob}]
    /\ sched \in {"off", "booted", "idle", "busy"}
    /\ batch \in [Jobs -> Row \cup {NoJob}]
    /\ stage \in [Jobs -> {"none", "queued", "running", "ended", "disabling"}]
    /\ success \in [Jobs -> BOOLEAN]
    /\ edit = NoEdit \/ edit \in [id : Jobs, row : Row, by : {"user", "wish", "scheduler"}]
    /\ edits \in 0 .. MaxEdits /\ crashes \in 0 .. MaxCrashes
    /\ added \subseteq Jobs /\ owed \subseteq Jobs /\ spent \subseteq Jobs
    /\ sched # "busy" => \A j \in Jobs : stage[j] = "none"

Due(t, at) == {j \in Jobs : t[j] # NoJob /\ t[j].enabled /\ t[j].next <= at}

(* Who is owed a run: those still owed one, and those newly due.           *)
Owing(still) == owed' = still \cup (Due(table', now') \ Due(table, now))

(* The users' changes decide what is due, and cancel a debt.               *)
Decided == Owing(owed \cap Due(table', now'))

(* next_run_for_schedule of a recurring schedule.                          *)
NextRuns == now + 1 .. now + Period

Careful(P) == CarefulEditors => P

Init ==
    /\ now = 0
    /\ table = [j \in Jobs |-> NoJob]
    /\ sched = "off"
    /\ batch = [j \in Jobs |-> NoJob]
    /\ stage = [j \in Jobs |-> "none"]
    /\ success = [j \in Jobs |-> FALSE]
    /\ edit = NoEdit /\ edits = 0 /\ crashes = 0 /\ added = Declared
    /\ owed = {} /\ spent = {}

Tick ==
    /\ now < MaxTime
    /\ now' = now + 1
    /\ UNCHANGED table /\ Owing(owed)
    /\ UNCHANGED <<scheduler, editor, crashes, spent>>

-----------------------------------------------------------------------------
(* The scheduler. *)

(* sync_declarative_jobs: a declared job keeps its next run unless the     *)
(* schedule in the table is not the declared one.                          *)
Sync(next) ==
    [j \in Jobs |->
        IF j \notin Declared THEN table[j]
        ELSE IF table[j] = NoJob \/ table[j].custom
        THEN [kind |-> "recurring", at |-> 0, next |-> next[j],
              enabled |-> TRUE, delete |-> FALSE, custom |-> FALSE]
        ELSE [table[j] EXCEPT !.enabled = TRUE, !.delete = FALSE]]

Boot ==
    /\ sched = "off" /\ Careful(edit = NoEdit)
    /\ sched' = "booted"
    /\ \E next \in [Declared -> NextRuns] : table' = Sync(next)
    /\ UNCHANGED now /\ Decided
    /\ UNCHANGED <<batch, stage, success, editor, crashes, spent>>

(* Mutant: a recurring job is rescheduled as it is taken. *)
TakeClaims(taken) ==
    /\ sched' = IF taken = {} THEN "idle" ELSE "busy"
    /\ batch' = [j \in Jobs |-> IF j \in taken THEN table[j] ELSE NoJob]
    /\ stage' = [j \in Jobs |-> IF j \in taken THEN "queued" ELSE "none"]
    /\ table' = [j \in Jobs |-> IF j \in taken /\ table[j].kind = "recurring"
                               THEN [table[j] EXCEPT !.next = now + Period] ELSE table[j]]
    /\ UNCHANGED <<success, now, editor, crashes, owed, spent>>

(* process_due_jobs gets these jobs; without any it returns at once.       *)
Take(taken) ==
    /\ sched' = IF taken = {} THEN "idle" ELSE "busy"
    /\ batch' = [j \in Jobs |-> IF j \in taken THEN table[j] ELSE NoJob]
    /\ stage' = [j \in Jobs |-> IF j \in taken THEN "queued" ELSE "none"]
    /\ UNCHANGED <<success, now, table, editor, crashes, owed, spent>>

(* catch_up_overdue_jobs: all of them, max_tasks or not.                   *)
Start ==
    /\ sched = "booted" /\ Careful(edit = NoEdit)
    /\ Take(IF CatchUp THEN Due(table, now) ELSE {})

(* due_jobs: the max_tasks that have been due longest.                     *)
Poll ==
    /\ sched = "idle" /\ Careful(edit = NoEdit)
    /\ LET due == Due(table, now)
       IN  \E taken \in SUBSET due :
              /\ taken # {}
              /\ Cardinality(taken) <= MaxTasks
              /\ taken # due => Cardinality(taken) = MaxTasks
              /\ \A j \in taken, k \in due \ taken : table[j].next <= table[k].next
              /\ Take(taken)

InFlight == {j \in Jobs : stage[j] \in {"running", "ended", "disabling"}}

Run(j) ==
    /\ stage[j] = "queued" /\ Cardinality(InFlight) < MaxConcurrent
    /\ stage' = [stage EXCEPT ![j] = "running"]
    /\ UNCHANGED <<sched, batch, success, now, table, editor, crashes, owed, spent>>

(* execute_job_with_retry and the delivery are over.                       *)
Ended(j) ==
    /\ stage[j] = "running"
    /\ stage' = [stage EXCEPT ![j] = "ended"]
    /\ \E ok \in BOOLEAN : success' = [success EXCEPT ![j] = ok]
    /\ UNCHANGED <<now, table>> /\ Owing(owed \ {j})
    /\ UNCHANGED <<sched, batch, editor, crashes, spent>>

(* The job leaves the batch; the last one ends process_due_jobs.           *)
Leave(j) ==
    /\ stage' = [stage EXCEPT ![j] = "none"]
    /\ batch' = [batch EXCEPT ![j] = NoJob]
    /\ success' = [success EXCEPT ![j] = FALSE]
    /\ sched' = IF \E k \in Jobs \ {j} : stage[k] # "none" THEN "busy" ELSE "idle"

(* An update of some columns; nothing when the row is gone.                *)
Change(t, j, F(_)) == IF t[j] = NoJob THEN t ELSE [t EXCEPT ![j] = F(@)]

Off(row) == [row EXCEPT !.enabled = FALSE]

AutoDelete(row) == row.delete /\ row.kind = "once"

(* persist_job_result, by the copy: a one-shot that succeeded is removed.  *)
RemoveSpent(j) ==
    /\ stage[j] = "ended" /\ AutoDelete(batch[j]) /\ success[j]
    /\ table' = [table EXCEPT ![j] = NoJob]
    /\ spent' = spent \cup {j}
    /\ Leave(j)
    /\ UNCHANGED now /\ Owing(owed)
    /\ UNCHANGED <<editor, crashes>>

(* One that failed is disabled with update_job: it reads the row ...       *)
DisableSpent(j) ==
    /\ stage[j] = "ended" /\ AutoDelete(batch[j]) /\ ~success[j]
    /\ edit = NoEdit
    /\ IF table[j] = NoJob
       THEN Leave(j) /\ UNCHANGED edit
       ELSE /\ stage' = [stage EXCEPT ![j] = "disabling"]
            /\ edit' = [id |-> j, row |-> Off(table[j]), by |-> "scheduler"]
            /\ UNCHANGED <<sched, batch, success>>
    /\ UNCHANGED <<now, table, edits, added, crashes, owed, spent>>

(* ... and writes all of it back.                                          *)
DisabledSpent(j) ==
    /\ stage[j] = "disabling"
    /\ table' = Change(table, j, LAMBDA row : edit.row)
    /\ edit' = NoEdit
    /\ spent' = spent \cup {j}
    /\ Leave(j)
    /\ UNCHANGED now /\ Owing(owed)
    /\ UNCHANGED <<edits, added, crashes>>

(* Mutant: a one-shot the user keeps stays enabled. *)
DisableOnceNot(j) ==
    /\ stage[j] = "ended" /\ batch[j].kind = "once" /\ ~batch[j].delete
    /\ spent' = spent \cup {j}
    /\ Leave(j)
    /\ UNCHANGED <<now, table, owed, editor, crashes>>

(* reschedule_after_run.                                                   *)
DisableOnce(j) ==
    /\ stage[j] = "ended" /\ batch[j].kind = "once" /\ ~batch[j].delete
    /\ table' = Change(table, j, Off)
    /\ spent' = spent \cup {j}
    /\ Leave(j)
    /\ UNCHANGED now /\ Owing(owed)
    /\ UNCHANGED <<editor, crashes>>

Reschedule(j) ==
    /\ stage[j] = "ended" /\ batch[j].kind = "recurring"
    /\ \E t \in NextRuns : table' = Change(table, j, LAMBDA row : [row EXCEPT !.next = t])
    /\ Leave(j)
    /\ UNCHANGED now /\ Owing(owed)
    /\ UNCHANGED <<editor, crashes, spent>>

-----------------------------------------------------------------------------
(* The editors, and the process. *)

(* Mutant: next_run is not computed again. *)
ScheduledLate(row) ==
    {[row EXCEPT !.kind = "recurring", !.at = 0, !.custom = TRUE],
     [row EXCEPT !.kind = "once", !.at = MaxTime, !.custom = TRUE]}

(* validate_schedule wants a one-shot in the future.                       *)
Scheduled(row) ==
    {[row EXCEPT !.kind = "recurring", !.at = 0, !.next = t, !.custom = TRUE] : t \in NextRuns}
        \cup {[row EXCEPT !.kind = "once", !.at = t, !.next = t, !.custom = TRUE] :
                  t \in now + 1 .. MaxTime}

Blank == [kind |-> "once", at |-> 0, next |-> 0,
          enabled |-> TRUE, delete |-> FALSE, custom |-> TRUE]

Add(j) ==
    /\ j \notin added
    /\ added' = added \cup {j}
    /\ \E row \in Scheduled(Blank) :
          table' = [table EXCEPT ![j] = [row EXCEPT !.delete = row.kind = "once"]]
    /\ UNCHANGED now /\ Decided
    /\ UNCHANGED <<scheduler, edit, edits, crashes, spent>>

RemoveJob(j) ==
    /\ table[j] # NoJob /\ edits < MaxEdits
    /\ edits' = edits + 1
    /\ table' = [table EXCEPT ![j] = NoJob]
    /\ UNCHANGED now /\ Decided
    /\ UNCHANGED <<scheduler, edit, added, crashes, spent>>

(* What update_job makes of the row it read: a resume or a new schedule,   *)
(* by which the user wishes for runs; a pause or a new name.               *)
Wishes(row) == {[row EXCEPT !.enabled = TRUE]} \cup Scheduled(row)
Others(row) == {[row EXCEPT !.enabled = FALSE], row}

EditRead(j) ==
    /\ edit = NoEdit /\ edits < MaxEdits /\ table[j] # NoJob
    /\ Careful(stage[j] = "none")
    /\ edits' = edits + 1
    /\ \/ \E row \in Wishes(table[j]) : edit' = [id |-> j, row |-> row, by |-> "wish"]
       \/ \E row \in Others(table[j]) : edit' = [id |-> j, row |-> row, by |-> "user"]
    /\ UNCHANGED <<now, table, scheduler, added, crashes, owed, spent>>

(* Every column of the schedule is written, changed or not.                *)
EditWrite ==
    /\ edit # NoEdit /\ edit.by # "scheduler"
    /\ table' = Change(table, edit.id, LAMBDA row : edit.row)
    /\ edit' = NoEdit
    /\ spent' = IF edit.by = "wish" THEN spent \ {edit.id} ELSE spent
    /\ UNCHANGED now /\ Decided
    /\ UNCHANGED <<scheduler, edits, added, crashes>>

Crash ==
    /\ sched # "off" /\ crashes < MaxCrashes
    /\ crashes' = crashes + 1
    /\ sched' = "off"
    /\ batch' = [j \in Jobs |-> NoJob]
    /\ stage' = [j \in Jobs |-> "none"]
    /\ success' = [j \in Jobs |-> FALSE]
    /\ edit' = NoEdit
    /\ UNCHANGED <<now, table, edits, added, owed, spent>>

Persist(j) ==
    RemoveSpent(j) \/ DisableSpent(j) \/ DisabledSpent(j) \/ DisableOnce(j) \/ Reschedule(j)

Next ==
    \/ Tick \/ Boot \/ Start \/ Poll \/ EditWrite \/ Crash
    \/ \E j \in Jobs : Run(j) \/ Ended(j) \/ Persist(j) \/ Add(j) \/ RemoveJob(j) \/ EditRead(j)

Spec == Init /\ [][Next]_vars

(* The process is started again after a crash, its tasks run when they     *)
(* can, and a job's run ends: a shell job has a timeout, and an agent job  *)
(* is trusted with it.                                                     *)
Fairness ==
    /\ WF_vars(Boot) /\ WF_vars(Start) /\ WF_vars(Poll) /\ WF_vars(EditWrite)
    /\ \A j \in Jobs : WF_vars(Run(j)) /\ WF_vars(Ended(j)) /\ WF_vars(Persist(j))

FairSpec == Spec /\ Fairness

-----------------------------------------------------------------------------
(* A one-shot whose run was persisted does not run again, whatever was     *)
(* edited meanwhile, unless the user resumes or reschedules it             *)
(* (store.rs:340, "disable the job so it won't be picked up again").       *)
OnceRunsOnce ==
    \A j \in Jobs : stage[j] = "running" /\ batch[j].kind = "once" => j \notin spent

(* The next run of an enabled job agrees with its schedule: a one-shot is  *)
(* due at its time, and no recurring job is put off by more than a period. *)
ScheduleHolds ==
    \A j \in Jobs : table[j] # NoJob /\ table[j].enabled =>
        IF table[j].kind = "once" THEN table[j].next = table[j].at
        ELSE table[j].next <= now + Period

(* A job that comes due runs to its end, or its user cancels it: it        *)
(* survives a crash, and older jobs, failing ones and a small max_tasks    *)
(* do not starve it.                                                       *)
DueRuns == \A j \in Jobs : j \in owed ~> j \notin owed
=============================================================================
