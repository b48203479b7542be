--------------------------- MODULE StaleRecovery ---------------------------
(***************************************************************************)
(* recover_stale_jobs with a clock.  The sweep tells a dead job from a live *)
(* one by jobs.updated_at alone, and that column moves only when an UPDATE  *)
(* of the row is emitted: a stage that is retried, or delivered again, and  *)
(* writes the status the row already has leaves it where it was.           *)
(*                                                                         *)
(* One job and its one message; Pipeline has the races, this module the    *)
(* time.  What follows without waiting, as a check, the write of the        *)
(* in-flight status and the read of the input do, is one action here, and   *)
(* time passes in Tick only.  Timers run from the event they are measured   *)
(* from, so that no absolute time is needed.                               *)
(***************************************************************************)
EXTENDS JobStatus

CONSTANTS
    StaleTimeout,  \* settings.stale_job_timeout_seconds
    Interval,      \* settings.stale_job_recovery_interval_seconds
    TimeLimit,     \* settings.processing_timeout_seconds: of one execution
    RetryCount,    \* settings.retry_count: of a task
    MaxLag,        \* bound: how late the sweep may run, behind other messages
    MaxWait,       \* bound: how long a message waits: in the queue, for the
                   \* backoff of its retry, or to be delivered again
    MaxCrashes     \* bound: how often a worker goes down with the message

ASSUME TimesAssumption ==
    /\ StaleTimeout \in Nat /\ Interval \in Nat /\ TimeLimit \in Nat
    /\ RetryCount \in Nat
    /\ MaxLag \in Nat /\ MaxWait \in Nat /\ MaxCrashes \in Nat

\* The defaults are 1800 and 3600 seconds.  Nothing compares the two settings.
ASSUME LimitAssumption == TimeLimit <= StaleTimeout

VARIABLES
    status,    \* jobs.status
    age,       \* the time since jobs.updated_at
    videoKey,  \* jobs.output_video_key is set
    place,     \* the message waits, is being executed, or is gone
    stage,     \* the task it is for
    attempt,   \* how many times that task has been retried
    lasted,    \* how long it has been at its place
    sweep,     \* recover_stale_jobs has selected the job
    waited,    \* the time since the sweep last looked
    crashes    \* history: how many workers went down with the message

row     == <<status, age, videoKey>>
message == <<place, stage, attempt, lasted>>
beat    == <<sweep, waited>>
vars    == <<row, message, beat, crashes>>

Init ==
    /\ status = "queued" /\ age = 0 /\ videoKey = FALSE
    /\ place = "waiting" /\ stage = Diarize /\ attempt = 0 /\ lasted = 0
    /\ sweep = "idle" /\ waited = 0
    /\ crashes = 0

---------------------------------------------------------------------------
(* The row. *)

\* SQLAlchemy emits an UPDATE, and onupdate fires, if an attribute changed.
Write(st) ==
    /\ status' = st
    /\ age' = IF st = status THEN age ELSE 0

\* output_video_key has one value per job, so only the first write changes it.
WriteVideoKey ==
    /\ videoKey' = TRUE
    /\ age' = IF videoKey THEN age ELSE 0
    /\ UNCHANGED status

---------------------------------------------------------------------------
(* The message. *)

Move(to, s, a) == place' = to /\ stage' = s /\ attempt' = a /\ lasted' = 0

\* After the last stage nothing follows.
PublishNext == IF stage = Package THEN Move("gone", stage, attempt)
                                  ELSE Move("waiting", stage + 1, 0)

\* A worker takes the message: the stage is done, or starts.
Skip ==
    /\ place = "waiting" /\ StageDone(status, stage)
    /\ PublishNext
    /\ UNCHANGED <<row, beat, crashes>>

Start ==
    /\ place = "waiting" /\ ~StageDone(status, stage)
    /\ Write(InFlightStatus[stage])
    /\ Move("running", stage, attempt)
    /\ UNCHANGED <<videoKey, beat, crashes>>

\* What an execution leaves in the row; sync_av writes no done status.
Results ==
    \/ stage = SyncAv /\ WriteVideoKey
    \/ stage # SyncAv /\ Write(DoneStatus[stage]) /\ UNCHANGED videoKey

Finish ==
    /\ place = "running"
    /\ Results
    /\ PublishNext
    /\ UNCHANGED <<beat, crashes>>

\* Seeded bug: the attempts are counted from zero again.
RetryTaskForever ==
    /\ place = "running" /\ stage \in Diarize..Synthesize
    /\ attempt < RetryCount
    /\ Move("waiting", stage, 0)
    /\ UNCHANGED <<row, beat, crashes>>

RetryTask ==
    /\ place = "running" /\ stage \in Diarize..Synthesize
    /\ attempt < RetryCount
    /\ Move("waiting", stage, attempt + 1)
    /\ UNCHANGED <<row, beat, crashes>>

\* An error that is not retried, or the time limit; mark_failed follows.
FailTask ==
    /\ place = "running"
    /\ Write("failed")
    /\ Move("gone", stage, attempt)
    /\ UNCHANGED <<videoKey, beat, crashes>>

\* The worker goes down at work, or with its results committed and the message
\* not yet acknowledged: the message is delivered again.
Crash ==
    /\ place = "running"
    /\ crashes < MaxCrashes
    /\ crashes' = crashes + 1
    /\ Results \/ UNCHANGED row
    /\ Move("waiting", stage, attempt)
    /\ UNCHANGED beat

\* The broker loses the message: from now on the job is dead.
LoseMessage ==
    /\ place = "waiting"
    /\ Move("gone", stage, attempt)
    /\ UNCHANGED <<row, beat, crashes>>

---------------------------------------------------------------------------
(* The sweep. *)

\* Seeded bug: the cutoff is computed from processing_timeout_seconds.
StaleAtTimeLimit == Sweepable(status) /\ age >= TimeLimit

Stale == Sweepable(status) /\ age > StaleTimeout

\* beat publishes the task every Interval; it runs when a worker is free.
SweepSelect ==
    /\ sweep = "idle"
    /\ waited >= Interval
    /\ waited' = 0
    /\ sweep' = IF Stale THEN "found" ELSE "idle"
    /\ UNCHANGED <<row, message, crashes>>

\* updated_at is assigned too.
SweepCommit ==
    /\ sweep = "found"
    /\ sweep' = "idle"
    /\ status' = "failed" /\ age' = 0
    /\ UNCHANGED <<videoKey, message, waited, crashes>>

---------------------------------------------------------------------------

\* Time goes on, but not past a time limit or a bound, not within the sweep's
\* transaction, and not after the job is over.
Tick ==
    /\ status \in InFlight \/ place # "gone"
    /\ sweep = "idle"
    /\ place = "running" => lasted < TimeLimit
    /\ place = "waiting" => lasted < MaxWait
    /\ waited < Interval + MaxLag
    /\ age' = age + 1 /\ waited' = waited + 1
    /\ lasted' = IF place = "gone" THEN lasted ELSE lasted + 1
    /\ UNCHANGED <<status, videoKey, place, stage, attempt, sweep, crashes>>

Next ==
    \/ Skip \/ Start \/ Finish \/ RetryTask \/ FailTask
    \/ Crash \/ LoseMessage
    \/ SweepSelect \/ SweepCommit
    \/ Tick

Spec == Init /\ [][Next]_vars

---------------------------------------------------------------------------
(* Properties. *)

\* No job lingers: whatever became of its message, and however often a stage
\* that was given up for dead writes its status again, a row is not in flight
\* for longer than the timeout without a change, but for the time the sweep
\* itself may be late (tasks.py: "so they don't linger forever").
NoLingering == status \in InFlight => age <= StaleTimeout + Interval + MaxLag

Selects == sweep = "idle" /\ sweep' = "found"

\* The first execution of a stage is never taken for dead, however long it
\* takes: it has changed the status, and the time limit ends it in time.
FirstRunSpared ==
    [][Selects => ~(place = "running" /\ attempt + crashes = 0)]_vars

\* How long a job that is alive may go without a change of its row: every
\* retry and every redelivery adds an execution and a wait.
Allowance(executions) == executions * (TimeLimit + MaxWait)

SilenceBounded ==
    status \in InFlight /\ place # "gone" =>
        age <= Allowance(attempt + crashes + 1)

\* ARCHITECTURE.md: "recover_stale_jobs can fail only genuinely-dead jobs".
OnlyDeadSwept == [][Selects => place = "gone"]_vars
===========================================================================
