--------------------------- MODULE JobLifecycle ---------------------------
(***************************************************************************)
(* What a client may rely on while it polls a job: the abstract            *)
(* specification that Pipeline implements.  There are no messages, workers, *)
(* transactions or requests in progress here, only what the row shows, and *)
(* whether somebody owns the job.                                          *)
(*                                                                         *)
(*   - progress never goes back, and a job is completed with all its       *)
(*     outputs, unless two owners got in each other's way (contended);     *)
(*   - whoever gives a job up leaves it completed, failed or cancelled,    *)
(*     unless a message or a dispatch was lost (abandoned);                *)
(*   - only an owner moves a job on, and only an owner, or the sweep of a  *)
(*     running one, fails it.                                              *)
(***************************************************************************)
EXTENDS JobStatus

CONSTANT RetryCount   \* settings.retry_count

VARIABLES
    phase,      \* queued, running, completed, failed or cancelled
    progress,   \* how far its status says it is, 0 unless it is running or done
    retries,    \* jobs.retry_count
    outputs,    \* the outputs whose keys the row holds
    owned,      \* somebody will still write the status
    contended,  \* two owners may have got in each other's way
    abandoned   \* a message or a dispatch was lost

vars == <<phase, progress, retries, outputs, owned, contended, abandoned>>

Outputs == {"video", "subtitles"}
Goal    == 12

Init ==
    /\ phase = "queued" /\ progress = 0 /\ retries = 0
    /\ outputs = {}
    /\ owned = TRUE /\ contended = FALSE /\ abandoned = FALSE

\* The row is given another status.
Show(ph, p) == phase' = ph /\ progress' = p

\* Somebody may be done with the job, and somebody may be in the way.
MayLetGo   == owned' \in {owned, FALSE}
MayContend == contended' \in {contended, TRUE}

---------------------------------------------------------------------------

\* An owner starts or finishes a stage.
Work(p) ==
    /\ owned
    /\ contended \/ progress <= p
    /\ Show("running", p)
    /\ UNCHANGED <<retries, outputs, owned, contended, abandoned>>

\* The key of an output is committed.
Store(o) ==
    /\ owned
    /\ outputs' = outputs \cup {o}
    /\ UNCHANGED <<phase, progress, retries, owned, contended, abandoned>>

\* Of a job that has begun, with all it was to make.
Complete ==
    /\ owned
    /\ "subtitles" \in outputs
    /\ contended \/ (outputs = Outputs /\ phase # "queued")
    /\ Show("completed", Goal)
    /\ MayLetGo
    /\ UNCHANGED <<retries, outputs, contended, abandoned>>

\* An error of an owner, or the sweep of a job that was running when it was
\* selected: if it is not running any more, the sweep was in the way.
Fail ==
    /\ owned \/ phase = "running" \/ contended'
    /\ Show("failed", 0)
    /\ MayLetGo /\ MayContend
    /\ UNCHANGED <<retries, outputs, abandoned>>

\* Whatever the job has become since the client was told that it can be
\* cancelled.  Its owner is not stopped.
Cancel ==
    /\ Show("cancelled", 0)
    /\ UNCHANGED <<retries, outputs, owned, contended, abandoned>>

\* A new owner; if the last one has not let go, the two contend.
Retry ==
    /\ Show("queued", 0)
    /\ retries' \in 1..RetryCount
    /\ owned' = TRUE
    /\ owned => contended'
    /\ MayContend
    /\ UNCHANGED <<outputs, abandoned>>

Release ==
    /\ owned' = FALSE
    /\ phase \in Terminal
    /\ UNCHANGED <<phase, progress, retries, outputs, contended, abandoned>>

\* A message that was as good as done with is delivered again.
Reclaim ==
    /\ owned' = TRUE
    /\ UNCHANGED <<phase, progress, retries, outputs, contended, abandoned>>

\* A message is there twice.
Duplicate ==
    /\ owned
    /\ contended' = TRUE
    /\ UNCHANGED <<phase, progress, retries, outputs, owned, abandoned>>

Abandon ==
    /\ abandoned' = TRUE
    /\ MayLetGo
    /\ UNCHANGED <<phase, progress, retries, outputs, contended>>

Next ==
    \/ \E p \in 1..Goal - 1 : Work(p)
    \/ \E o \in Outputs : Store(o)
    \/ Complete \/ Fail \/ Cancel \/ Retry
    \/ Release \/ Reclaim \/ Duplicate \/ Abandon

Spec == Init /\ [][Next]_vars

---------------------------------------------------------------------------
(* What follows from it, and therefore holds of Pipeline. *)

\* A completed job can be downloaded, at least its subtitles; a job that is
\* not settled has an owner.
Promise ==
    /\ phase = "completed" => "subtitles" \in outputs
    /\ phase = "completed" /\ ~contended => outputs = Outputs
    /\ phase \notin Terminal /\ ~abandoned => owned

\* The phases follow one another, and a job under way is not put back: only
\* one that its owner has let go can be retried without contention.
InTurn ==
    [][phase \notin Terminal /\ ~contended' /\ ~abandoned'
          => phase' \in {phase} \cup Phases(phase)]_vars
===========================================================================
