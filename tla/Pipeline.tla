----------------------------- MODULE Pipeline -----------------------------
(***************************************************************************)
(* One dubbing job, driven by everything that may touch its row at once:   *)
(*                                                                         *)
(*   - the broker's messages for the job and the worker processes that     *)
(*     execute them (workers/tasks.py): run_pipeline, the six stage tasks  *)
(*     and the error callback mark_failed;                                 *)
(*   - the API requests that change the job (api/routers/videos.py): the   *)
(*     dispatch that ends an upload, retry and cancel;                     *)
(*   - the periodic recover_stale_jobs task.                               *)
(*                                                                         *)
(* A task reads and writes the row in several short transactions with      *)
(* nothing held between them, so every transaction is an action of its own *)
(* and the others interleave.  Messages are acknowledged late: a worker    *)
(* that dies leaves its message to be delivered again, and one that dies   *)
(* between publishing the next message and acknowledging its own leaves    *)
(* two.                                                                    *)
(***************************************************************************)
EXTENDS JobStatus, FiniteSets

CONSTANTS
    Deliveries,   \* identities for the job's messages: how many may exist at once
    Requests,     \* API requests for the job that may be in progress at once
    RetryCount,   \* settings.retry_count: of the retry endpoint and of each task
    FaultKinds,   \* the kinds of fault that may strike
    MaxFaults     \* how many faults strike in one behaviour

AllFaults ==
    {"crash",         \* a worker goes down: its message is delivered again
     "lost_child",    \* a pool process is killed, by a signal or the time limit
     "duplicate",     \* a worker goes down after publishing, before acknowledging
     "lost_message",  \* the broker loses a message
     "api_crash",     \* the API process goes down in the middle of a request
     "broker_error"}  \* publishing raises

ASSUME DeliveriesAssumption == Deliveries # {}
ASSUME RetryCountAssumption == RetryCount \in Nat
ASSUME MaxFaultsAssumption  == MaxFaults \in Nat
ASSUME FaultKindsAssumption == FaultKinds \subseteq AllFaults

VARIABLES
    \* The job's row, its transcript rows and events, and its output files.
    status,       \* jobs.status
    retryCount,   \* jobs.retry_count
    diarized,     \* a "diarized" event exists
    text,         \* what the transcript rows hold
    speakers,     \* the transcript rows carry speaker labels
    synth,        \* what the latest "synthesized" event's audio was made from
    video,        \* what the audio of the stored dubbed video was made from
    videoKey,     \* jobs.output_video_key is set
    subtitles,    \* what the stored subtitles were made from
    srtKey,       \* jobs.output_srt_key is set
    \* The broker and the workers, for each message.
    pc,           \* where the message, or the task executing it, is
    stage,        \* the task it is for
    attempt,      \* how many times that task has been retried
    out,          \* what the task has in memory: its input or its error
    \* The API and the periodic task.
    op,           \* what each request is about to do
    seen,         \* the retry_count each retry request has read
    beat,         \* recover_stale_jobs has selected the job
    \* History.
    faults,       \* how many faults have struck
    dropped,      \* the job lost a message, or the dispatch it was waiting for
    raced         \* two carriers of the job may have overlapped

job       == <<status, retryCount>>
artifacts == <<diarized, text, speakers, synth, video, videoKey, subtitles, srtKey>>
tasks     == <<pc, stage, attempt, out>>
api       == <<op, seen>>
history   == <<faults, dropped, raced>>
vars      == <<job, artifacts, tasks, api, beat, history>>

---------------------------------------------------------------------------
(* What a task can hold. *)

Texts  == {"none", "source", "translated"}   \* no rows, untranslated, translated
Labels == {"labelled", "unlabelled"}         \* with or without a diarization

\* Why a task fails: a provider error that _RETRYABLE names (timeout,
\* unavailable), any other (rate limit, auth, ffmpeg, storage, a lost row), or
\* its process was killed.
Errors == {"transient", "fatal", "lost"}

Places == {"idle",       \* no such message
           "queued",     \* on the broker
           "entered",    \* not cancelled: about to ask whether the stage is done
           "starting",   \* about to write the in-flight status
           "reading",    \* about to read its input
           "calling",    \* the provider, ffmpeg or the storage is at work
           "storing",    \* files uploaded, their keys not yet committed
           "reporting",  \* output committed, the done status not yet written
           "returned",   \* about to publish the next stage and acknowledge
           "failing"}    \* about to call mark_failed and acknowledge

Executing(d) == pc[d] \notin {"idle", "queued"}

\* Who can still move the job forward: its messages and pending dispatches.
Carriers == {d \in Deliveries : pc[d] # "idle"}
            \cup {r \in Requests : op[r] = "dispatching"}

Fault(kind) ==
    /\ kind \in FaultKinds
    /\ faults < MaxFaults
    /\ faults' = faults + 1

---------------------------------------------------------------------------
(* The upload request has committed the new row and is about to dispatch. *)

Init ==
    /\ status = "queued" /\ retryCount = 0
    /\ diarized = FALSE /\ text = "none" /\ speakers = FALSE /\ synth = "none"
    /\ video = "absent" /\ videoKey = FALSE
    /\ subtitles = "absent" /\ srtKey = FALSE
    /\ pc = [d \in Deliveries |-> "idle"]
    /\ stage = [d \in Deliveries |-> 0]
    /\ attempt = [d \in Deliveries |-> 0]
    /\ out = [d \in Deliveries |-> "none"]
    /\ \E u \in Requests :
          op = [r \in Requests |-> IF r = u THEN "dispatching" ELSE "idle"]
    /\ seen = [r \in Requests |-> 0]
    /\ beat = "idle"
    /\ faults = 0 /\ dropped = FALSE /\ raced = FALSE

---------------------------------------------------------------------------
(* What the broker does for a task. *)

\* The message of d becomes the given one; out belongs to the execution.
Become(d, place, s, a) ==
    /\ pc' = [pc EXCEPT ![d] = place]
    /\ stage' = [stage EXCEPT ![d] = s]
    /\ attempt' = [attempt EXCEPT ![d] = a]
    /\ out' = [out EXCEPT ![d] = "none"]

\* d's message is delivered again, from its beginning.
Redeliver(d) == Become(d, "queued", stage[d], attempt[d])

\* Publish a message for stage s, then acknowledge d.
PublishAndAck(d, s, a) ==
    /\ Become(d, "queued", s, a)
    /\ UNCHANGED <<faults, raced>>

\* The worker goes down in between: both messages exist.
PublishNoAck(d, s, a) ==
    /\ Fault("duplicate")
    /\ \E e \in Deliveries :
          /\ pc[e] = "idle"
          /\ pc' = [pc EXCEPT ![d] = "queued", ![e] = "queued"]
          /\ stage' = [stage EXCEPT ![e] = s]
          /\ attempt' = [attempt EXCEPT ![e] = a]
    /\ out' = [out EXCEPT ![d] = "none"]
    /\ raced' = TRUE

Publish(d, s, a) == PublishAndAck(d, s, a) \/ PublishNoAck(d, s, a)

\* The message is done with and nothing follows it.
Discard(d) == Become(d, "idle", 0, 0)

Goto(d, place) == /\ pc' = [pc EXCEPT ![d] = place]
                  /\ UNCHANGED <<stage, attempt, out>>

Hold(d, place, data) == /\ pc' = [pc EXCEPT ![d] = place]
                        /\ out' = [out EXCEPT ![d] = data]
                        /\ UNCHANGED <<stage, attempt>>

---------------------------------------------------------------------------
(* run_pipeline publishes the chain's first stage. *)

StartPipeline(d) ==
    /\ pc[d] = "queued" /\ stage[d] = 0
    /\ Goto(d, "returned")
    /\ UNCHANGED <<job, artifacts, api, beat, history>>

\* apply_async raised: the task catches it and fails the job itself.
PipelineNotPublished(d) ==
    /\ pc[d] = "returned" /\ stage[d] = 0
    /\ Fault("broker_error")
    /\ status' = "failed"
    /\ Discard(d)
    /\ UNCHANGED <<retryCount, artifacts, api, beat, dropped, raced>>

---------------------------------------------------------------------------
(* The steps every stage task has. *)

\* Seeded bug: the flag is not looked at.
CheckCancelledForgotten(d) ==
    /\ pc[d] = "queued" /\ stage[d] \in Stages
    /\ Goto(d, "entered")
    /\ UNCHANGED <<job, artifacts, api, beat, history>>

\* A worker takes the message: _is_cancelled comes first, and a cancelled
\* job's stage returns at once.
CheckCancelled(d) ==
    /\ pc[d] = "queued" /\ stage[d] \in Stages
    /\ Goto(d, IF status = "cancelled" THEN "returned" ELSE "entered")
    /\ UNCHANGED <<job, artifacts, api, beat, history>>

\* Seeded bug: the question is not asked.
CheckDoneForgotten(d) ==
    /\ pc[d] = "entered"
    /\ Goto(d, "starting")
    /\ UNCHANGED <<job, artifacts, api, beat, history>>

CheckDone(d) ==
    /\ pc[d] = "entered"
    /\ Goto(d, IF StageDone(status, stage[d]) THEN "returned" ELSE "starting")
    /\ UNCHANGED <<job, artifacts, api, beat, history>>

\* _set_status writes whatever the status is by now.
Begin(d) ==
    /\ pc[d] = "starting"
    /\ status' = InFlightStatus[stage[d]]
    /\ Goto(d, "reading")
    /\ UNCHANGED <<retryCount, artifacts, api, beat, history>>

\* What each stage loads before it calls out.
Input(s) ==
    CASE s = Diarize              -> "none"
      [] s = Transcribe           -> IF diarized THEN "labelled" ELSE "unlabelled"
      [] s = Translate            -> text
      [] s = Synthesize           -> text
      [] s = SyncAv               -> synth
      [] s = Package              -> text

ReadInput(d) ==
    /\ pc[d] = "reading"
    /\ Hold(d, "calling", Input(stage[d]))
    /\ UNCHANGED <<job, artifacts, api, beat, history>>

\* Seeded bug: the retried task starts counting from zero again.
RetryTaskForever(d) ==
    /\ pc[d] = "calling" /\ stage[d] \in Diarize..Synthesize
    /\ attempt[d] < RetryCount
    /\ Publish(d, stage[d], 0)
    /\ UNCHANGED <<job, artifacts, api, beat, dropped>>

\* Seeded bug: the task calls the provider again itself, and does not count.
RetryTaskInPlace(d) ==
    /\ pc[d] = "calling" /\ stage[d] \in Diarize..Synthesize
    /\ Goto(d, "reading")
    /\ UNCHANGED <<job, artifacts, api, beat, history>>

\* Seeded bug: a task that waits for its retry is shown as queued.
RetryTaskRequeued(d) ==
    /\ pc[d] = "calling" /\ stage[d] \in Diarize..Synthesize
    /\ attempt[d] < RetryCount
    /\ Publish(d, stage[d], attempt[d] + 1)
    /\ status' = "queued"
    /\ UNCHANGED <<retryCount, artifacts, api, beat, dropped>>

\* A provider error of a kind autoretry_for names is retried, max_retries
\* times: the same stage is published again with one more attempt.
RetryTask(d) ==
    /\ pc[d] = "calling" /\ stage[d] \in Diarize..Synthesize
    /\ attempt[d] < RetryCount
    /\ Publish(d, stage[d], attempt[d] + 1)
    /\ UNCHANGED <<job, artifacts, api, beat, dropped>>

\* Any other error, of a provider, of ffmpeg or of the storage, and a
\* transient one after the last attempt, fails the task.
FailTask(d, error) ==
    /\ pc[d] = "calling"
    /\ error = "transient" =>
          stage[d] \in Diarize..Synthesize /\ attempt[d] = RetryCount
    /\ Hold(d, "failing", error)
    /\ UNCHANGED <<job, artifacts, api, beat, history>>

\* The error callback fails the job whatever its status.  The message is
\* acknowledged after it, and delivered again if the worker goes down first;
\* that of a lost process has been acknowledged before.
Acknowledged(d) == pc[d] = "failing" /\ out[d] = "lost"

\* Seeded bug: the error callback is not linked to the stage.
MarkFailedForgotten(d) ==
    /\ pc[d] = "failing"
    /\ Discard(d)
    /\ UNCHANGED <<job, artifacts, api, beat, history>>

MarkFailed(d) ==
    /\ pc[d] = "failing"
    /\ status' = "failed"
    /\ \/ Discard(d) /\ UNCHANGED faults
       \/ ~Acknowledged(d) /\ Redeliver(d) /\ Fault("duplicate")
    /\ UNCHANGED <<retryCount, artifacts, api, beat, dropped, raced>>

\* The task returns: the chain's next stage is published, and after the last
\* stage nothing is.
PublishNext(d) ==
    /\ pc[d] = "returned" /\ stage[d] < Package
    /\ Publish(d, stage[d] + 1, 0)
    /\ UNCHANGED <<job, artifacts, api, beat, dropped>>

EndChain(d) ==
    /\ pc[d] = "returned" /\ stage[d] = Package
    /\ Discard(d)
    /\ UNCHANGED <<job, artifacts, api, beat, history>>

---------------------------------------------------------------------------
(* What each stage does with the result of its work. *)

\* The diarization is the message of the event that goes with the status.
DiarizeReport(d) ==
    /\ pc[d] = "calling" /\ stage[d] = Diarize
    /\ diarized' = TRUE
    /\ status' = DoneStatus[Diarize]
    /\ Hold(d, "returned", "none")
    /\ UNCHANGED <<retryCount, text, speakers, synth, video, videoKey,
                   subtitles, srtKey, api, beat, history>>

\* All the job's rows are deleted and new, untranslated ones inserted.
TranscribePersist(d) ==
    /\ pc[d] = "calling" /\ stage[d] = Transcribe
    /\ text' = "source"
    /\ speakers' = (out[d] = "labelled")
    /\ Hold(d, "reporting", "none")
    /\ UNCHANGED <<job, diarized, synth, video, videoKey, subtitles, srtKey,
                   api, beat, history>>

\* The rows are read again and paired with the segments translated, so none
\* is touched when there was nothing to translate.
Translated(rows, input) == IF "none" \in {rows, input} THEN rows ELSE "translated"

TranslatePersist(d) ==
    /\ pc[d] = "calling" /\ stage[d] = Translate
    /\ text' = Translated(text, out[d])
    /\ Hold(d, "reporting", "none")
    /\ UNCHANGED <<job, diarized, speakers, synth, video, videoKey, subtitles,
                   srtKey, api, beat, history>>

\* The audio's keys are the message of the event: nothing is persisted before.
SynthesizeReport(d) ==
    /\ pc[d] = "calling" /\ stage[d] = Synthesize
    /\ synth' = out[d]
    /\ status' = DoneStatus[Synthesize]
    /\ Hold(d, "returned", "none")
    /\ UNCHANGED <<retryCount, diarized, text, speakers, video, videoKey,
                   subtitles, srtKey, api, beat, history>>

\* The dubbed video has one key per job: a later upload replaces it.
UploadVideo(d) ==
    /\ pc[d] = "calling" /\ stage[d] = SyncAv
    /\ video' = out[d]
    /\ Hold(d, "storing", "none")
    /\ UNCHANGED <<job, diarized, text, speakers, synth, videoKey, subtitles,
                   srtKey, api, beat, history>>

\* Seeded bug: the key is assigned and not committed.
SaveVideoKeyForgotten(d) ==
    /\ pc[d] = "storing" /\ stage[d] = SyncAv
    /\ Goto(d, "returned")
    /\ UNCHANGED <<job, artifacts, api, beat, history>>

\* sync_av ends here: no done status is written.
SaveVideoKey(d) ==
    /\ pc[d] = "storing" /\ stage[d] = SyncAv
    /\ videoKey' = TRUE
    /\ Goto(d, "returned")
    /\ UNCHANGED <<job, diarized, text, speakers, synth, video, subtitles,
                   srtKey, api, beat, history>>

\* Seeded bug: the done status is written with the upload, before the keys.
UploadOutputsReporting(d) ==
    /\ pc[d] = "calling" /\ stage[d] = Package
    /\ subtitles' = out[d]
    /\ status' = DoneStatus[Package]
    /\ Hold(d, "storing", "none")
    /\ UNCHANGED <<retryCount, diarized, text, speakers, synth, video, videoKey,
                   srtKey, api, beat, history>>

UploadOutputs(d) ==
    /\ pc[d] = "calling" /\ stage[d] = Package
    /\ subtitles' = out[d]
    /\ Hold(d, "storing", "none")
    /\ UNCHANGED <<job, diarized, text, speakers, synth, video, videoKey,
                   srtKey, api, beat, history>>

SaveOutputKeys(d) ==
    /\ pc[d] = "storing" /\ stage[d] = Package
    /\ srtKey' = TRUE
    /\ Goto(d, "reporting")
    /\ UNCHANGED <<job, diarized, text, speakers, synth, video, videoKey,
                   subtitles, api, beat, history>>

\* transcribe, translate and package: the done status, after the output.
Report(d) ==
    /\ pc[d] = "reporting"
    /\ status' = DoneStatus[stage[d]]
    /\ Goto(d, "returned")
    /\ UNCHANGED <<retryCount, artifacts, api, beat, history>>

---------------------------------------------------------------------------
(* Faults of the workers and of the broker. *)

\* Seeded bug: messages are acknowledged when they are taken.
CrashAcknowledged(d) ==
    /\ Executing(d)
    /\ Fault("crash")
    /\ Discard(d)
    /\ UNCHANGED <<job, artifacts, api, beat, dropped, raced>>

Crash(d) ==
    /\ Executing(d)
    /\ Fault("crash")
    /\ \/ ~Acknowledged(d) /\ Redeliver(d) /\ UNCHANGED dropped
       \/ Acknowledged(d) /\ Discard(d) /\ dropped' = TRUE
    /\ UNCHANGED <<job, artifacts, api, beat, raced>>

\* A lost pool process fails its task.  The stages carry the error callback;
\* run_pipeline does not, and its message is gone.
LoseChild(d) ==
    /\ Executing(d) /\ pc[d] # "failing"
    /\ Fault("lost_child")
    /\ \/ stage[d] \in Stages /\ Hold(d, "failing", "lost") /\ UNCHANGED dropped
       \/ stage[d] = 0 /\ Discard(d) /\ dropped' = TRUE
    /\ UNCHANGED <<job, artifacts, api, beat, raced>>

LoseMessage(d) ==
    /\ pc[d] = "queued"
    /\ Fault("lost_message")
    /\ Discard(d)
    /\ dropped' = TRUE
    /\ UNCHANGED <<job, artifacts, api, beat, raced>>

---------------------------------------------------------------------------
(* The API.  A request loads the row, decides, and commits in a later       *)
(* transaction that writes the columns it has assigned.                     *)

DispatchPipeline(r) ==
    /\ op[r] = "dispatching"
    /\ \E d \in Deliveries :
          /\ pc[d] = "idle"
          /\ Become(d, "queued", 0, 0)
    /\ op' = [op EXCEPT ![r] = "idle"]
    /\ UNCHANGED <<job, artifacts, seen, beat, history>>

\* _enqueue_or_fail: publishing raised, and the request fails the job.
EnqueueFails(r) ==
    /\ op[r] = "dispatching"
    /\ Fault("broker_error")
    /\ status' = "failed"
    /\ op' = [op EXCEPT ![r] = "idle"]
    /\ UNCHANGED <<retryCount, artifacts, tasks, seen, beat, dropped, raced>>

\* Seeded bug: off by one in the limit.
RetryReadOnceMore(r) ==
    /\ op[r] = "idle"
    /\ Retryable(status)
    /\ retryCount <= RetryCount
    /\ op' = [op EXCEPT ![r] = "retrying"]
    /\ seen' = [seen EXCEPT ![r] = retryCount]
    /\ UNCHANGED <<job, artifacts, tasks, beat, history>>

RetryRead(r) ==
    /\ op[r] = "idle"
    /\ Retryable(status)
    /\ retryCount < RetryCount
    /\ op' = [op EXCEPT ![r] = "retrying"]
    /\ seen' = [seen EXCEPT ![r] = retryCount]
    /\ UNCHANGED <<job, artifacts, tasks, beat, history>>

\* Seeded bug: a retry also clears the keys of the outputs.
RetryCommitClearing(r) ==
    /\ op[r] = "retrying"
    /\ status' = "queued"
    /\ retryCount' = seen[r] + 1
    /\ videoKey' = FALSE /\ srtKey' = FALSE
    /\ op' = [op EXCEPT ![r] = "dispatching"]
    /\ seen' = [seen EXCEPT ![r] = 0]
    /\ raced' = (raced \/ Carriers # {})
    /\ UNCHANGED <<diarized, text, speakers, synth, video, subtitles, tasks,
                   beat, faults, dropped>>

RetryCommit(r) ==
    /\ op[r] = "retrying"
    /\ status' = "queued"
    /\ retryCount' = seen[r] + 1
    /\ op' = [op EXCEPT ![r] = "dispatching"]
    /\ seen' = [seen EXCEPT ![r] = 0]
    /\ raced' = (raced \/ Carriers # {})
    /\ UNCHANGED <<artifacts, tasks, beat, faults, dropped>>

CancelRead(r) ==
    /\ op[r] = "idle"
    /\ Cancellable(status)
    /\ op' = [op EXCEPT ![r] = "cancelling"]
    /\ UNCHANGED <<job, artifacts, tasks, seen, beat, history>>

CancelCommit(r) ==
    /\ op[r] = "cancelling"
    /\ status' = "cancelled"
    /\ op' = [op EXCEPT ![r] = "idle"]
    /\ UNCHANGED <<retryCount, artifacts, tasks, seen, beat, history>>

ApiCrash(r) ==
    /\ op[r] # "idle"
    /\ Fault("api_crash")
    /\ op' = [op EXCEPT ![r] = "idle"]
    /\ seen' = [seen EXCEPT ![r] = 0]
    /\ dropped' = (dropped \/ op[r] = "dispatching")
    /\ UNCHANGED <<job, artifacts, tasks, beat, raced>>

---------------------------------------------------------------------------
(* recover_stale_jobs.  Time is left out here: an in-flight job may have    *)
(* been in its stage for too long at any moment.                            *)

RecoverSelect ==
    /\ beat = "idle"
    /\ Sweepable(status)
    /\ beat' = "found"
    /\ UNCHANGED <<job, artifacts, tasks, api, history>>

RecoverCommit ==
    /\ beat = "found"
    /\ status' = "failed"
    /\ beat' = "idle"
    /\ raced' = (raced \/ ~Sweepable(status))
    /\ UNCHANGED <<retryCount, artifacts, tasks, api, faults, dropped>>

---------------------------------------------------------------------------
(* The whole. *)

StageWork(d) ==
    \/ DiarizeReport(d)
    \/ TranscribePersist(d)
    \/ TranslatePersist(d)
    \/ SynthesizeReport(d)
    \/ UploadVideo(d)
    \/ SaveVideoKey(d)
    \/ UploadOutputs(d)
    \/ SaveOutputKeys(d)
    \/ Report(d)

TaskStep(d) ==
    \/ StartPipeline(d)
    \/ CheckCancelled(d)
    \/ CheckDone(d)
    \/ Begin(d)
    \/ ReadInput(d)
    \/ RetryTask(d)
    \/ \E error \in Errors \ {"lost"} : FailTask(d, error)
    \/ MarkFailed(d)
    \/ PublishNext(d)
    \/ EndChain(d)
    \/ StageWork(d)

TaskFault(d) ==
    \/ PipelineNotPublished(d)
    \/ Crash(d)
    \/ LoseChild(d)
    \/ LoseMessage(d)

RequestEnd(r) ==
    \/ DispatchPipeline(r)
    \/ RetryCommit(r)
    \/ CancelCommit(r)

Request(r) ==
    \/ RequestEnd(r)
    \/ EnqueueFails(r)
    \/ RetryRead(r)
    \/ CancelRead(r)
    \/ ApiCrash(r)

Next ==
    \/ \E d \in Deliveries : TaskStep(d) \/ TaskFault(d)
    \/ \E r \in Requests : Request(r)
    \/ RecoverSelect
    \/ RecoverCommit

Spec == Init /\ [][Next]_vars

\* Workers keep taking and executing messages, a request that has begun ends,
\* a job that stays in flight for ever goes stale, and the sweep that finds it
\* commits.  Nobody has to send a request, and no fault has to strike.
Attended(d) == WF_vars(TaskStep(d))
Concluded(r) == WF_vars(RequestEnd(r))
Swept == WF_vars(RecoverSelect) /\ WF_vars(RecoverCommit)

Fairness ==
    /\ \A d \in Deliveries : Attended(d)
    /\ \A r \in Requests : Concluded(r)
    /\ Swept

FairSpec == Spec /\ Fairness

---------------------------------------------------------------------------
(* Properties. *)

\* Every variable has its type, whatever the interleaving.
TypeOK ==
    /\ status \in Status /\ retryCount \in 0..RetryCount
    /\ diarized \in BOOLEAN /\ speakers \in BOOLEAN
    /\ text \in Texts /\ synth \in Texts
    /\ video \in Texts \cup {"absent"} /\ videoKey \in BOOLEAN
    /\ subtitles \in Texts \cup {"absent"} /\ srtKey \in BOOLEAN
    /\ pc \in [Deliveries -> Places]
    /\ stage \in [Deliveries -> 0..6]
    /\ attempt \in [Deliveries -> 0..RetryCount]
    /\ out \in [Deliveries -> Texts \cup Labels \cup Errors]
    /\ op \in [Requests -> {"idle", "dispatching", "retrying", "cancelling"}]
    /\ seen \in [Requests -> 0..RetryCount]
    /\ beat \in {"idle", "found"}
    /\ faults \in 0..MaxFaults
    /\ dropped \in BOOLEAN /\ raced \in BOOLEAN

\* The carriers that will still write the status: a package task that only
\* has to acknowledge will not.
Pursuers == {d \in Deliveries : pc[d] # "idle"
                                /\ ~(stage[d] = Package /\ pc[d] = "returned")}
            \cup {r \in Requests : op[r] = "dispatching"}

\* A job that is neither completed, failed nor cancelled always has somebody
\* working on it, however requests, workers, sweeps and crashes interleave: a
\* status nobody will ever change again is a terminal one.  (_enqueue_or_fail:
\* "instead of silently dangling in 'queued'".)  Only a message lost by the
\* broker, or an API process that dies between the commit and the dispatch,
\* can leave a job behind.
NoOrphan == status \notin Terminal /\ ~dropped => Pursuers # {}

\* The outputs of the first n stages are there, each made from the one before.
Produced(n) ==
    /\ n >= Diarize    => diarized
    /\ n >= Transcribe => text # "none" /\ speakers
    /\ n >= Translate  => text = "translated"
    /\ n >= Synthesize => synth = "translated"
    /\ n >= SyncAv     => video = "translated" /\ videoKey
    /\ n >= Package    => subtitles = "translated" /\ srtKey

\* A completed job has all its outputs, made from translated rows, as long as
\* no two carriers of it have overlapped: crashes, redeliveries, retries,
\* cancellations that come too late and sweeps of a live job leave no gap.
CompletedIsWhole == status = "completed" /\ ~raced => Produced(Package)

\* Even when carriers overlap, the subtitles of a completed job exist: the
\* keys are committed before the status, and no retry clears them.
CompletedHasSubtitles == status = "completed" => srtKey /\ subtitles # "absent"

\* What makes the first of the two hold: with a single carrier, a stage at work
\* finds the outputs of all the stages before it, and the status is its own
\* or says that the job was cancelled or failed in the meantime.
AtWork(d) == pc[d] \in {"reading", "calling", "storing", "reporting"}

InOrder(d) ==
    AtWork(d) => /\ Produced(stage[d] - 1)
                 /\ status \in {InFlightStatus[stage[d]], "cancelled", "failed"}

WorkInOrder == ~raced => \A d \in Deliveries : InOrder(d)

\* The two rest on this: what a single carrier has behind it, at each place.
OneCarrier ==
    /\ \A d, e \in Deliveries : pc[d] # "idle" /\ pc[e] # "idle" => d = e
    /\ \A r, q \in Requests : op[r] = "dispatching" /\ op[q] = "dispatching" => r = q
    /\ \A d \in Deliveries, r \in Requests :
          ~(pc[d] # "idle" /\ op[r] = "dispatching")

Behind(d) ==
    CASE pc[d] = "idle"      -> TRUE
      [] pc[d] = "queued"    -> status = "cancelled" \/ Produced(stage[d] - 1)
      [] pc[d] = "returned"  -> status = "cancelled" \/ Produced(stage[d])
      [] pc[d] = "reporting" -> Produced(stage[d])
      [] pc[d] = "failing"   -> Acknowledged(d) \/ Produced(stage[d] - 1)
      [] OTHER               -> Produced(stage[d] - 1)

\* What the task has in memory, or has stored, is made from what is behind it.
InHand(d) ==
    /\ pc[d] = "calling" =>
          CASE stage[d] = Diarize    -> TRUE
            [] stage[d] = Transcribe -> out[d] = "labelled"
            [] stage[d] = Translate  -> out[d] # "none"
            [] OTHER                 -> out[d] = "translated"
    /\ pc[d] = "storing" =>
          IF stage[d] = SyncAv THEN video = "translated"
                               ELSE subtitles = "translated"

ChainInv ==
    ~raced =>
       /\ OneCarrier
       /\ \A d \in Deliveries : Behind(d) /\ InHand(d) /\ InOrder(d)
       /\ \A s \in Stages : status = DoneStatus[s] => Produced(s)

\* While a client fetches the outputs of a completed job nobody replaces them:
\* a stage that is executed again finds itself done and leaves files, rows and
\* events alone ("idempotent by design", ARCHITECTURE.md).
OutputsStay ==
    [][status = "completed" /\ ~raced => UNCHANGED artifacts]_vars

\* Once the stages and the sweep that had read the row before a cancellation
\* are through, the job stays cancelled and no stage does any work until it is
\* retried: every later stage sees the flag (ARCHITECTURE.md, cooperative
\* cancellation).  Only a fault, such as a worker process killed while it
\* returns, can still fail the job.
Quiet == /\ \A d \in Deliveries : pc[d] \in {"idle", "queued", "returned"}
         /\ \A r \in Requests : op[r] # "dispatching"
         /\ beat = "idle"

CancelSettles ==
    [][status = "cancelled" /\ Quiet /\ faults' = faults =>
          \/ status' = "cancelled" /\ Quiet'
          \/ status' = "queued"]_vars

\* Along one chain the status only moves forward: redelivering a stage, or
\* retrying it, never takes the job back behind a stage already reported
\* (test_pipeline.py: "must not regress the job").
NoRegress ==
    [][~raced' /\ Progress(status) > 0 /\ Progress(status') > 0
          => Progress(status') >= Progress(status)]_vars

\* ARCHITECTURE.md: "each pipeline stage checks this flag before starting its
\* own work and exits early".  Taken for the whole job, a cancellation is
\* undone by a retry only; but a stage that has passed its check writes its
\* in-flight status over the flag, and so do its later status writes, its error
\* callback and the sweep.
CancelHonoured ==
    [][status = "cancelled" => status' \in {"cancelled", "queued"}]_vars

\* ARCHITECTURE.md: "On completion, GET /videos/{id}/download and /subtitles
\* return pre-signed/local URLs to the final artifacts", that is, neither
\* endpoint answers 409.
Downloadable == status = "completed" /\ videoKey
CompletedDownloadable == status = "completed" => Downloadable /\ srtKey

\* settings.py: a job "queued without being picked up for longer than this" is
\* "marked failed by the recover_stale_jobs beat task".
QueuedIsTaken == status = "queued" ~> status # "queued"

\* That holds of a job whose dispatch was not lost: sooner or later a stage is
\* begun, or the job is failed, cancelled or found to have lost its message.
QueueMoves == status = "queued" ~> status # "queued" \/ dropped

\* How far a message has to go: through the stages, the attempts of its stage
\* and the places of one attempt.
PlacesLeft == [idle |-> 0, returned |-> 1, failing |-> 1, reporting |-> 2,
               storing |-> 3, calling |-> 4, reading |-> 5, starting |-> 6,
               entered |-> 7, queued |-> 8]

Distance(place, s, a) ==
    IF place = "idle"
      THEN 0
      ELSE 8 * ((Package - s) * (RetryCount + 1) + (RetryCount - a)) + PlacesLeft[place]

Ahead(d) == Distance(pc[d], stage[d], attempt[d])

\* Unless a fault strikes, whatever happens to a message brings it nearer to
\* its end: through early returns, failures and retries, and beside any other
\* chain, no chain goes round in a circle, however long the providers fail.
Advances ==
    [][\A d \in Deliveries :
          pc[d] # "idle" /\ faults' = faults =>
             \/ Ahead(d)' < Ahead(d)
             \/ pc[d]' = pc[d] /\ stage[d]' = stage[d] /\ attempt[d]' = attempt[d]]_vars

\* An execution that has begun is over some time: its message is acknowledged,
\* replaced by the next one or delivered again.
ExecutionsEnd == \A d \in Deliveries : Executing(d) ~> ~Executing(d)

\* Every job ends up completed, failed or cancelled, and stays so, though users
\* may retry and cancel it meanwhile, workers crash, providers fail and the sweep
\* fails it while it is at work; unless a message or a dispatch was lost.
Settles == <>[](status \in Terminal \/ dropped)

---------------------------------------------------------------------------
(* The abstract specification, and how the row shows it. *)

Published == {o \in {"video", "subtitles"} :
                 IF o = "video" THEN videoKey ELSE srtKey}

Lifecycle == INSTANCE JobLifecycle WITH
                phase     <- PhaseOf(status),
                progress  <- Progress(status),
                retries   <- retryCount,
                outputs   <- Published,
                owned     <- Pursuers # {},
                contended <- raced,
                abandoned <- dropped

\* With all its messages, executions, requests and sweeps, and whatever faults
\* strike, the pipeline shows its clients a job that only an owner moves on,
\* never backwards and never to completion without its outputs unless two
\* chains have overlapped, and that nobody gives up before it is settled.
ImplementsLifecycle == Lifecycle!Spec

\* What the page, and any other client that polls, takes for granted: a job is
\* queued, then running, then settled.  A retry cannot put a job back that is
\* under way, nor a worker complete one that nobody has started, unless chains
\* have overlapped or a message was lost.
PhasesInTurn == Lifecycle!InTurn
===========================================================================
