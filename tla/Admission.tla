----------------------------- MODULE Admission -----------------------------
(***************************************************************************)
(* The two gates of POST /videos (upload_video): the queue capacity gate,   *)
(* which counts the queued jobs in the database, and the upload semaphore   *)
(* of the API process.  The handler is a coroutine of one event loop: the   *)
(* code between two awaits is one step, everything else may run at an await.*)
(* Of the jobs only their number is kept, by how they came into the queue;  *)
(* the life of each of them is Pipeline's.                                  *)
(***************************************************************************)
EXTENDS Integers, FiniteSets

CONSTANTS
    Uploads,               \* upload requests that may be in progress at once
    QueueMaxLength,        \* settings.queue_max_length
    MaxConcurrentUploads,  \* settings.max_concurrent_uploads
    MaxRetriable           \* bound: jobs that may ever come back by a retry

ASSUME UploadsAssumption == IsFiniteSet(Uploads) /\ Uploads # {}
ASSUME LimitsAssumption ==
    /\ QueueMaxLength \in Nat
    /\ MaxConcurrentUploads \in Nat
    /\ MaxRetriable \in Nat

VARIABLES
    fresh,     \* queued jobs that came from an upload
    retried,   \* queued jobs that came from a retry
    left,      \* jobs that left the queue and may fail or be cancelled
    pc,        \* where each upload request is
    seen,      \* how many queued jobs it has counted
    permits,   \* app.state.upload_semaphore
    active     \* the uploads_active gauge

queue == <<fresh, retried, left>>
gate  == <<permits, active>>
vars  == <<queue, pc, seen, gate>>

Queued == fresh + retried

Places == {"idle",       \* no such request
           "counted",    \* the count has come back from the database
           "uploading",  \* through the gates: reading, probing, storing
           "inserted",   \* the job is committed, the semaphore still held
           "failing"}    \* not dispatched: about to commit the failure

Init ==
    /\ fresh = 0 /\ retried = 0 /\ left = 0
    /\ pc = [u \in Uploads |-> "idle"]
    /\ seen = [u \in Uploads |-> 0]
    /\ permits = MaxConcurrentUploads /\ active = 0

---------------------------------------------------------------------------
(* The request. *)

CountQueued(u) ==
    /\ pc[u] = "idle"
    /\ pc' = [pc EXCEPT ![u] = "counted"]
    /\ seen' = [seen EXCEPT ![u] = Queued]
    /\ UNCHANGED <<queue, gate>>

\* Seeded bug: off by one, the queue is full when it is over the limit.
RoomInQueueOneMore(u) == seen[u] <= QueueMaxLength

RoomInQueue(u) == seen[u] < QueueMaxLength

Answer(u) ==
    /\ pc' = [pc EXCEPT ![u] = "idle"]
    /\ seen' = [seen EXCEPT ![u] = 0]

Acquire == permits' = permits - 1 /\ active' = active + 1
Release == permits' = permits + 1 /\ active' = active - 1

\* Seeded bug: at the upload limit the request waits for a permit.
RefuseFullQueueOnly(u) ==
    /\ pc[u] = "counted"
    /\ ~RoomInQueue(u)
    /\ Answer(u)
    /\ UNCHANGED <<queue, gate>>

\* 429, for either gate.
Refuse(u) ==
    /\ pc[u] = "counted"
    /\ ~RoomInQueue(u) \/ permits = 0
    /\ Answer(u)
    /\ UNCHANGED <<queue, gate>>

\* No await separates locked() from the acquisition, which therefore never
\* has to wait.
Admit(u) ==
    /\ pc[u] = "counted"
    /\ RoomInQueue(u) /\ permits > 0
    /\ pc' = [pc EXCEPT ![u] = "uploading"]
    /\ Acquire
    /\ UNCHANGED <<queue, seen>>

\* Seeded bug: the permit is not given back when the upload fails.
RejectUploadKeepingPermit(u) ==
    /\ pc[u] = "uploading"
    /\ Answer(u)
    /\ active' = active - 1
    /\ UNCHANGED <<queue, permits>>

\* Validation, probing, storing or the commit raises: the exception passes
\* through the async with and the finally.
RejectUpload(u) ==
    /\ pc[u] = "uploading"
    /\ Answer(u)
    /\ Release
    /\ UNCHANGED queue

InsertJob(u) ==
    /\ pc[u] = "uploading"
    /\ fresh' = fresh + 1
    /\ pc' = [pc EXCEPT ![u] = "inserted"]
    /\ UNCHANGED <<retried, left, seen, gate>>

\* The commit is back.  There is no await until the dispatch has been tried.
Enqueue(u) ==
    /\ pc[u] = "inserted"
    /\ Release
    /\ \/ Answer(u)
       \/ pc' = [pc EXCEPT ![u] = "failing"] /\ UNCHANGED seen
    /\ UNCHANGED queue

\* One job less in the queue, unless it has been cancelled meanwhile or the
\* commit raises.
FailJob(u) ==
    /\ pc[u] = "failing"
    /\ Answer(u)
    /\ \/ UNCHANGED fresh
       \/ fresh > 0 /\ fresh' = fresh - 1
    /\ UNCHANGED <<retried, left, gate>>

---------------------------------------------------------------------------
(* What else changes the queue. *)

\* A worker starts a queued job, or somebody cancels it.
LeaveQueue ==
    /\ \/ /\ fresh > 0 /\ fresh' = fresh - 1
          /\ left' = IF left + retried < MaxRetriable THEN left + 1 ELSE left
          /\ UNCHANGED retried
       \/ /\ retried > 0 /\ retried' = retried - 1
          /\ left' = left + 1
          /\ UNCHANGED fresh
    /\ UNCHANGED <<pc, seen, gate>>

\* Such a job has failed or was cancelled, and retry_job puts it back in the
\* queue without asking whether there is room.
RetryJob ==
    /\ left > 0
    /\ left' = left - 1 /\ retried' = retried + 1
    /\ UNCHANGED <<fresh, pc, seen, gate>>

\* The process goes down and comes back: its requests are gone, the semaphore
\* and the gauges are new, and the queued jobs are still in the database.
ApiRestart ==
    /\ pc' = [u \in Uploads |-> "idle"]
    /\ seen' = [u \in Uploads |-> 0]
    /\ permits' = MaxConcurrentUploads /\ active' = 0
    /\ UNCHANGED queue

---------------------------------------------------------------------------

Step(u) ==
    \/ Refuse(u) \/ Admit(u)
    \/ RejectUpload(u) \/ InsertJob(u)
    \/ Enqueue(u)
    \/ FailJob(u)

Next ==
    \/ \E u \in Uploads : CountQueued(u) \/ Step(u)
    \/ LeaveQueue \/ RetryJob
    \/ ApiRestart

Spec == Init /\ [][Next]_vars

\* The event loop resumes every coroutine whose await is over, and the calls
\* a handler awaits come back.
FairSpec == Spec /\ \A u \in Uploads : WF_vars(Step(u))

---------------------------------------------------------------------------
(* Properties. *)

\* Every variable has its type; the semaphore stays within its limit.
TypeOK ==
    /\ fresh \in Nat /\ retried \in Nat /\ left \in Nat
    /\ pc \in [Uploads -> Places]
    /\ seen \in [Uploads -> Nat]
    /\ permits \in 0..MaxConcurrentUploads
    /\ active \in 0..MaxConcurrentUploads

Holders == {u \in Uploads : pc[u] \in {"uploading", "inserted"}}

\* Every permit of the semaphore is free or held by an upload in progress, and
\* the gauge counts those: no way out of upload_video leaks a permit, so the
\* uploads in progress are bounded and the server never fills up for good.
PermitsBalance ==
    /\ permits + Cardinality(Holders) = MaxConcurrentUploads
    /\ active = Cardinality(Holders)

\* The count of the capacity gate is stale by the time the job is inserted,
\* and nothing reserves the place.  Uploads alone exceed the limit by less
\* than the number of requests that may be in progress: "so the queue can't
\* grow unboundedly" (upload_video).
OvershootBounded == fresh < QueueMaxLength + Cardinality(Uploads)

\* That rests on the requests that have found room and have not used it yet.
Promised == {u \in Uploads : \/ pc[u] = "counted" /\ RoomInQueue(u)
                             \/ pc[u] = "uploading"}

PromisesBounded ==
    fresh + Cardinality(Promised) < QueueMaxLength + Cardinality(Uploads)

\* An upload request that has begun is answered, with a status or an error,
\* however many others compete for the permits: nobody waits for one.
Answered == \A u \in Uploads : pc[u] = "counted" ~> pc[u] = "idle"
===========================================================================
