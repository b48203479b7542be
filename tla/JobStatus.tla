---------------------------- MODULE JobStatus ----------------------------
(***************************************************************************)
(* The vocabulary of a job's life: the values of jobs.status, the order of *)
(* the pipeline's stages and the two tables the stage tasks consult.       *)
(* A stage is its position in the chain, 1 (diarize) to 6 (package);       *)
(* position 0 is the run_pipeline task that publishes the chain.           *)
(***************************************************************************)
EXTENDS Integers

Stages == 1..6
Diarize    == 1
Transcribe == 2
Translate  == 3
Synthesize == 4
SyncAv     == 5
Package    == 6

\* The status each stage writes when it starts its work.
InFlightStatus == <<"diarizing", "transcribing", "translating",
                    "synthesizing", "syncing", "packaging">>

\* The status that says a stage is done.  No code ever writes "synced".
DoneStatus == <<"diarized", "transcribed", "translated",
                "synthesized", "synced", "completed">>

InFlight == {InFlightStatus[s] : s \in Stages}
Done     == {DoneStatus[s] : s \in Stages}
Terminal == {"completed", "failed", "cancelled"}
Status   == {"queued", "failed", "cancelled"} \cup InFlight \cup Done

\* Seeded bugs: off by one in the comparison; an in-flight name, which is not
\* in the table, taken for a done one.
StageDoneEarly(st, s) == \E t \in (s - 1)..6 : t >= 1 /\ DoneStatus[t] = st
StageDoneInFlight(st, s) ==
    \/ \E t \in s..6 : DoneStatus[t] = st
    \/ st \in InFlight

\* _stage_done: a stage is over once the status names it, or a later stage,
\* as done.  A status outside the table (queued, failed, cancelled, an
\* in-flight name) says that nothing is done.
StageDone(st, s) == \E t \in s..6 : DoneStatus[t] = st

\* Seeded bug: a name missing from _IN_FLIGHT_STATUSES.
SweepableBeforeSync(st) == st \in InFlight \ {"syncing"}

\* recover_stale_jobs looks at the in-flight names only.
Sweepable(st) == st \in InFlight

\* How far along the chain a status is; 0 for one that is not on the way.
Progress(st) ==
    IF st \in InFlight
      THEN 2 * (CHOOSE s \in Stages : InFlightStatus[s] = st) - 1
      ELSE IF st \in Done
             THEN 2 * (CHOOSE s \in Stages : DoneStatus[s] = st)
             ELSE 0

(* What a client tells apart, and what may follow while nothing goes wrong.  *)
PhaseOf(st) == IF st \in Terminal \cup {"queued"} THEN st ELSE "running"

Phases(ph) == CASE ph = "queued"  -> {"running", "failed", "cancelled"}
                [] ph = "running" -> Terminal
                [] OTHER          -> {}

(* What the retry and the cancel endpoints accept. *)
Retryable(st)   == st \in {"failed", "cancelled"}
Cancellable(st) == st \notin {"completed", "cancelled"}
==========================================================================
