--------------------------- MODULE EagerDispatch ---------------------------
(***************************************************************************)
(* dispatch_pipeline without a broker: a daemon thread for every dispatch,  *)
(* a bounded semaphore that lets some of them run their pipeline, and the   *)
(* processing_active gauge, which metrics.inc and metrics.dec read and      *)
(* write in two steps between which the interpreter may change threads.     *)
(* What a pipeline does to its job is Pipeline's.                           *)
(***************************************************************************)
EXTENDS Integers, FiniteSets

CONSTANTS
    Threads,        \* the threads that may exist at once
    MaxProcessing,  \* settings.max_concurrent_processing_jobs
    MaxOverlaps     \* bound: updates of the gauge that begin during another

ASSUME ThreadsAssumption == IsFiniteSet(Threads)
ASSUME ProcessingAssumption == MaxProcessing \in Int /\ MaxOverlaps \in Nat

VARIABLES
    thread,      \* where each thread is
    read,        \* what it has read of the gauge and not written yet
    slots,       \* _processing_slots
    processing,  \* the processing_active gauge
    overlaps     \* history: how often an update began during another

gauge == <<read, processing, overlaps>>
pool  == <<thread, slots, gauge>>

Slots == IF MaxProcessing < 1 THEN 1 ELSE MaxProcessing

ThreadPlaces == {"none",          \* no such thread
                 "waiting",       \* for a slot
                 "incrementing",  \* has a slot and has read the gauge
                 "working",       \* in run_pipeline
                 "decrementing",  \* run_pipeline is over; has read the gauge
                 "releasing"}     \* about to release its slot

Updating == {t \in Threads : thread[t] \in {"incrementing", "decrementing"}}
Counted  == {t \in Threads : thread[t] \in {"working", "decrementing"}}
Holding  == {t \in Threads : thread[t] \notin {"none", "waiting"}}

PoolInit ==
    /\ thread = [t \in Threads |-> "none"]
    /\ read = [t \in Threads |-> 0]
    /\ slots = Slots
    /\ processing = 0 /\ overlaps = 0

---------------------------------------------------------------------------

GoTo(t, p) == thread' = [thread EXCEPT ![t] = p]

Dispatch(t) ==
    /\ thread[t] = "none"
    /\ GoTo(t, "waiting")
    /\ UNCHANGED <<slots, gauge>>

ReadGauge(t) ==
    /\ read' = [read EXCEPT ![t] = processing]
    /\ \/ Updating = {} /\ UNCHANGED overlaps
       \/ Updating # {} /\ overlaps < MaxOverlaps /\ overlaps' = overlaps + 1
    /\ UNCHANGED processing

WriteGauge(t, value) ==
    /\ processing' = value
    /\ read' = [read EXCEPT ![t] = 0]
    /\ UNCHANGED overlaps

\* The slot, and the first half of metrics.inc.
AcquireSlot(t) ==
    /\ thread[t] = "waiting"
    /\ slots > 0
    /\ slots' = slots - 1
    /\ GoTo(t, "incrementing")
    /\ ReadGauge(t)

Inc(t) ==
    /\ thread[t] = "incrementing"
    /\ GoTo(t, "working")
    /\ WriteGauge(t, read[t] + 1)
    /\ UNCHANGED slots

\* Seeded bugs: no finally, and the pipeline raises; the stages take a slot of
\* their own besides the thread's.
EndPipelineRaising(t) ==
    /\ thread[t] = "working"
    /\ GoTo(t, "none")
    /\ UNCHANGED <<slots, gauge>>
EndPipelineNested(t) ==
    /\ thread[t] = "working"
    /\ slots > 0
    /\ GoTo(t, "decrementing")
    /\ ReadGauge(t)
    /\ UNCHANGED slots

\* run_pipeline returns or raises; the finally, and the first half of
\* metrics.dec.
EndPipeline(t) ==
    /\ thread[t] = "working"
    /\ GoTo(t, "decrementing")
    /\ ReadGauge(t)
    /\ UNCHANGED slots

\* Seeded bug: the gauge is set, not decremented.
DecToZero(t) ==
    /\ thread[t] = "decrementing"
    /\ GoTo(t, "releasing")
    /\ WriteGauge(t, 0)
    /\ UNCHANGED slots

Dec(t) ==
    /\ thread[t] = "decrementing"
    /\ GoTo(t, "releasing")
    /\ WriteGauge(t, read[t] - 1)
    /\ UNCHANGED slots

ReleaseSlot(t) ==
    /\ thread[t] = "releasing"
    /\ slots' = slots + 1
    /\ GoTo(t, "none")
    /\ UNCHANGED gauge

\* The threads are daemons: they end with the process, wherever they are.
PoolRestart ==
    /\ thread' = [t \in Threads |-> "none"]
    /\ read' = [t \in Threads |-> 0]
    /\ slots' = Slots
    /\ processing' = 0 /\ overlaps' = 0

ThreadStep(t) ==
    \/ AcquireSlot(t) \/ Inc(t)
    \/ EndPipeline(t) \/ Dec(t)
    \/ ReleaseSlot(t)

PoolNext == (\E t \in Threads : Dispatch(t) \/ ThreadStep(t)) \/ PoolRestart

PoolSpec == PoolInit /\ [][PoolNext]_pool

---------------------------------------------------------------------------
(* Properties. *)

\* Every slot is free or held by a thread in progress, however its pipeline
\* ends: the pipelines at work are bounded, and the slots do not run out.
SlotsBalance ==
    /\ slots \in 0..Slots
    /\ slots + Cardinality(Holding) = Slots

\* The pool never comes to a stop: while a pipeline waits for a slot or holds
\* one, some thread can go on.  A waiting thread needs nothing that is not held
\* by a thread which gives it back without waiting for anything itself.
Runnable(t) ==
    \/ thread[t] \in {"incrementing", "decrementing", "releasing"}
    \/ /\ thread[t] = "working" \/ (thread[t] = "waiting" /\ slots > 0)
       /\ Updating = {} \/ overlaps < MaxOverlaps

NoStandstill ==
    (\E t \in Threads : thread[t] # "none") => \E t \in Threads : Runnable(t)

\* As long as no two updates of the gauge overlapped, none was lost: it counts
\* the pipelines at work (processing_active: "Pipeline runs currently
\* executing in this process").
GaugeExact == overlaps = 0 => processing = Cardinality(Counted)
===========================================================================
