------------------------------ MODULE EagerApi ------------------------------
(***************************************************************************)
(* The API process in broker-less mode: the upload handlers of Admission    *)
(* and the pipeline threads of EagerDispatch share one process.  An upload  *)
(* or a retry that enqueues its job starts a thread; a process that goes    *)
(* down takes its requests and its threads with it, while the queued jobs   *)
(* stay in the database.                                                    *)
(***************************************************************************)
EXTENDS Admission, EagerDispatch

EagerInit == Init /\ PoolInit

---------------------------------------------------------------------------

StartThread == \E t \in Threads : Dispatch(t)

\* dispatch_pipeline returns when the thread is started, or raises when it
\* cannot be.
EagerEnqueue(u) ==
    /\ Enqueue(u)
    /\ \/ pc'[u] = "idle" /\ StartThread
       \/ pc'[u] = "failing" /\ UNCHANGED pool

EagerStep(u) ==
    \/ EagerEnqueue(u)
    \/ (Refuse(u) \/ Admit(u) \/ RejectUpload(u) \/ InsertJob(u) \/ FailJob(u))
         /\ UNCHANGED pool

\* A job whose thread cannot be started leaves the queue again, as failed.
EagerRetry == RetryJob /\ (StartThread \/ UNCHANGED pool)

\* Only a pipeline at work, or the user, takes a job out of the queue.
EagerLeave == LeaveQueue /\ UNCHANGED pool

PoolStep(t) == ThreadStep(t) /\ UNCHANGED vars

ProcessDown == ApiRestart /\ PoolRestart

EagerNext ==
    \/ \E u \in Uploads : CountQueued(u) /\ UNCHANGED pool
    \/ \E u \in Uploads : EagerStep(u)
    \/ EagerRetry \/ EagerLeave
    \/ \E t \in Threads : PoolStep(t)
    \/ ProcessDown

EagerSpec == EagerInit /\ [][EagerNext]_<<vars, pool>>

\* The event loop as in Admission.  The interpreter lets every thread go on,
\* and a pipeline ends: without a worker no time limit ends it, but every call
\* it makes returns or raises.
Resumed(u)   == WF_<<vars, pool>>(EagerStep(u))
Scheduled(t) == WF_<<vars, pool>>(PoolStep(t))

EagerFairness == (\A u \in Uploads : Resumed(u)) /\ (\A t \in Threads : Scheduled(t))

EagerFairSpec == EagerSpec /\ EagerFairness

---------------------------------------------------------------------------
(* Properties. *)

\* While threads wait for a slot, one of them gets it before long, unless the
\* process goes down: the pipelines ahead give their slots back.
Served ==
    (\E t \in Threads : thread[t] = "waiting") ~>
        \/ \E t \in Threads : thread[t] = "incrementing"
        \/ \A t \in Threads : thread[t] = "none"
===========================================================================
