-------------------------- MODULE LifecycleProofs --------------------------
(***************************************************************************)
(* That the status never goes back along one chain, and that Pipeline      *)
(* implements JobLifecycle.                                                *)
(***************************************************************************)
EXTENDS PipelineProofs

---------------------------------------------------------------------------
(* How far a status says a job is. *)

LEMMA TablesDiffer ==
    \A s, t \in Stages :
       /\ InFlightStatus[s] = InFlightStatus[t] => s = t
       /\ DoneStatus[s] = DoneStatus[t] => s = t
       /\ DoneStatus[s] \notin InFlight
  BY DEF Stages, InFlightStatus, DoneStatus, InFlight

LEMMA ProgressOfStage ==
    ASSUME NEW s \in Stages
    PROVE  /\ Progress(InFlightStatus[s]) = 2 * s - 1
           /\ Progress(DoneStatus[s]) = 2 * s
  <1>1. InFlightStatus[s] \in InFlight
    BY DEF InFlight
  <1>2. (CHOOSE t \in Stages : InFlightStatus[t] = InFlightStatus[s]) = s
    BY TablesDiffer
  <1>3. DoneStatus[s] \in Done /\ DoneStatus[s] \notin InFlight
    BY TablesDiffer DEF Done
  <1>4. (CHOOSE t \in Stages : DoneStatus[t] = DoneStatus[s]) = s
    BY TablesDiffer
  <1> QED
    BY <1>1, <1>2, <1>3, <1>4 DEF Progress

LEMMA NoProgress ==
    \A st \in {"queued", "failed", "cancelled"} : Progress(st) = 0
  BY DEF Progress, InFlight, Done, InFlightStatus, DoneStatus, Stages

LEMMA ProgressRange ==
    ASSUME NEW st \in Status
    PROVE  /\ Progress(st) \in 0..12
           /\ Progress(st) = 0 \/ \E s \in Stages :
                 \/ st = InFlightStatus[s] /\ Progress(st) = 2 * s - 1
                 \/ st = DoneStatus[s] /\ Progress(st) = 2 * s
  <1>1. CASE st \in InFlight
    <2>1. PICK s \in Stages : st = InFlightStatus[s]
      BY <1>1 DEF InFlight
    <2> QED
      BY <2>1, ProgressOfStage DEF Stages
  <1>2. CASE st \in Done
    <2>1. PICK s \in Stages : st = DoneStatus[s]
      BY <1>2 DEF Done
    <2> QED
      BY <2>1, ProgressOfStage DEF Stages
  <1>3. CASE st \in {"queued", "failed", "cancelled"}
    BY <1>3, NoProgress
  <1> QED
    BY <1>1, <1>2, <1>3 DEF Status

\* What _stage_done tells: a stage that is not done can only go on.
LEMMA NotDoneIsBehind ==
    ASSUME NEW st \in Status, NEW s \in Stages,
           Progress(st) <= 2 * s, ~StageDone(st, s)
    PROVE  Progress(st) <= 2 * s - 1
  <1>1. SUFFICES ASSUME Progress(st) = 2 * s PROVE FALSE
    BY ProgressRange DEF Stages
  <1>2. PICK t \in Stages : \/ st = InFlightStatus[t] /\ 2 * s = 2 * t - 1
                            \/ st = DoneStatus[t] /\ 2 * s = 2 * t
    BY <1>1, ProgressRange DEF Stages
  <1>3. st = DoneStatus[s]
    BY <1>2 DEF Stages
  <1> QED
    BY <1>3 DEF StageDone, Stages

---------------------------------------------------------------------------
(* With a single carrier the status is never ahead of it: of a task that   *)
(* is going to write one, it is at most the in-flight status of its stage. *)

Reach(place, s) ==
    IF place \in {"starting", "reading", "calling", "storing", "reporting"}
      THEN 2 * s - 1 ELSE 2 * s

NotAhead ==
    ~raced =>
       /\ \A d \in Deliveries :
             pc[d] # "idle" => Progress(status) <= Reach(pc[d], stage[d])
       /\ \A r \in Requests : op[r] = "dispatching" => Progress(status) = 0

LEMMA CarrierNotAhead ==
    ASSUME ChainInv', NEW d \in Deliveries, pc'[d] # "idle",
           Progress(status') <= Reach(pc'[d], stage'[d])
    PROVE  NotAhead'
  BY DEF NotAhead, ChainInv, OneCarrier

LEMMA DispatchNotAhead ==
    ASSUME ChainInv', NEW r \in Requests, op'[r] = "dispatching",
           Progress(status') = 0
    PROVE  NotAhead'
  BY DEF NotAhead, ChainInv, OneCarrier

LEMMA NobodyAhead ==
    ASSUME \A d \in Deliveries : pc'[d] = "idle",
           \A r \in Requests : op'[r] # "dispatching"
    PROVE  NotAhead'
  BY DEF NotAhead

\* Who writes a status that shows no progress leaves nobody behind.
LEMMA NothingNotAhead ==
    ASSUME TypeInv', status' \in {"queued", "failed", "cancelled"}
    PROVE  NotAhead'
  <1>1. Progress(status') = 0
    BY NoProgress
  <1>2. \A d \in Deliveries : stage'[d] \in 0..6
    BY DEF TypeInv, TypeOK
  <1>3. \A d \in Deliveries : pc'[d] # "idle" => 0 <= Reach(pc'[d], stage'[d])
    <2> SUFFICES ASSUME NEW d \in Deliveries
                 PROVE  0 <= Reach(pc'[d], stage'[d])
      OBVIOUS
    <2>1. pc'[d] \in {"starting", "reading", "calling", "storing", "reporting"}
             => stage'[d] \in Stages
      BY DEF TypeInv, Shape, Stages, SyncAv, Package, Transcribe, Translate
    <2> QED
      BY <2>1, <1>2 DEF Reach, Stages
  <1> QED
    BY <1>1, <1>3 DEF NotAhead

\* A task that moves on without writing the status.
LEMMA CarrierKeepsBehind ==
    ASSUME TypeInv, NotAhead, ChainInv', ~raced, UNCHANGED status,
           NEW d \in Deliveries, pc[d] # "idle", pc'[d] # "idle",
           Reach(pc[d], stage[d]) <= Reach(pc'[d], stage'[d]),
           stage'[d] \in 0..6
    PROVE  NotAhead'
  <1>1. Progress(status) \in 0..12
    BY ProgressRange DEF TypeInv, TypeOK
  <1>2. Progress(status) <= Reach(pc[d], stage[d])
    BY DEF NotAhead
  <1>3. stage[d] \in 0..6
    BY DEF TypeInv, TypeOK
  <1>4. Reach(pc[d], stage[d]) \in Int /\ Reach(pc'[d], stage'[d]) \in Int
    BY <1>3 DEF Reach
  <1>5. Progress(status') <= Reach(pc'[d], stage'[d])
    BY <1>1, <1>2, <1>4
  <1> QED
    BY <1>5, CarrierNotAhead

\* A task that writes a status of its own stage.
LEMMA CarrierWrites ==
    ASSUME ChainInv', NEW d \in Deliveries, NEW s \in Stages,
           stage'[d] = s, pc'[d] \in Places \ {"idle"},
           \/ status' = InFlightStatus[s]
           \/ status' = DoneStatus[s] /\ pc'[d] = "returned"
    PROVE  NotAhead'
  <1>1. Progress(status') <= Reach(pc'[d], stage'[d])
    BY ProgressOfStage DEF Reach, Stages, Places
  <1> QED
    BY <1>1, CarrierNotAhead

THEOREM NextNotAhead ==
    TypeInv /\ ChainInv /\ NotAhead /\ [Next]_vars
       /\ TypeInv' /\ ChainInv' => NotAhead'
  <1> SUFFICES ASSUME TypeInv, ChainInv, NotAhead, [Next]_vars,
                      TypeInv', ChainInv'
               PROVE  NotAhead'
    OBVIOUS
  <1>0. TypeOK /\ Shape
    BY DEF TypeInv
  <1>1. CASE raced'
    BY <1>1 DEF NotAhead
  <1>2. ASSUME ~raced', NEW d \in Deliveries, TaskStep(d) PROVE NotAhead'
    <2>1. CASE StartPipeline(d)
      BY <2>1, <1>0, <1>2, CarrierKeepsBehind
      DEF StartPipeline, Goto, TypeOK, Reach, history, job
    <2>2. CASE CheckCancelled(d)
      BY <2>2, <1>0, <1>2, CarrierKeepsBehind
      DEF CheckCancelled, Goto, TypeOK, Reach, history, job
    <2>3. CASE CheckDone(d)
      <3>1. ~raced /\ UNCHANGED <<status, stage>> /\ stage[d] \in Stages
        BY <2>3, <1>0, <1>2 DEF CheckDone, Goto, Shape, history, job
      <3>2. CASE StageDone(status, stage[d])
        <4>1. pc'[d] = "returned" /\ pc[d] = "entered"
          BY <2>3, <3>2, <1>0 DEF CheckDone, Goto, TypeOK
        <4> QED
          BY <3>1, <4>1, <1>0, CarrierKeepsBehind DEF Reach, TypeOK, Stages
      <3>3. CASE ~StageDone(status, stage[d])
        <4>1. pc'[d] = "starting" /\ pc[d] = "entered"
          BY <2>3, <3>3, <1>0 DEF CheckDone, Goto, TypeOK
        <4>2. Progress(status) <= 2 * stage[d]
          BY <3>1, <4>1 DEF NotAhead, Reach
        <4>3. Progress(status) <= 2 * stage[d] - 1
          BY <3>1, <3>3, <4>2, <1>0, NotDoneIsBehind DEF TypeOK
        <4>4. Progress(status') <= Reach(pc'[d], stage'[d])
          BY <3>1, <4>1, <4>3 DEF Reach
        <4> QED
          BY <4>1, <4>4, CarrierNotAhead
      <3> QED
        BY <3>2, <3>3
    <2>4. CASE Begin(d)
      BY <2>4, <1>0, CarrierWrites DEF Begin, Goto, TypeOK, Shape, Places
    <2>5. CASE ReadInput(d)
      BY <2>5, <1>0, <1>2, CarrierKeepsBehind
      DEF ReadInput, Hold, TypeOK, Reach, history, job
    <2>6. CASE RetryTask(d)
      <3>1. PublishAndAck(d, stage[d], attempt[d] + 1)
        BY <2>6, <1>2 DEF RetryTask, Publish, PublishNoAck
      <3>2. /\ pc[d] = "calling" /\ pc'[d] = "queued" /\ stage'[d] = stage[d]
            /\ UNCHANGED status /\ ~raced
        BY <2>6, <3>1, <1>0, <1>2 DEF RetryTask, PublishAndAck, Become, TypeOK, job
      <3> QED
        BY <3>2, <1>0, CarrierKeepsBehind DEF Reach, TypeOK
    <2>7. CASE \E error \in Errors \ {"lost"} : FailTask(d, error)
      BY <2>7, <1>0, <1>2, CarrierKeepsBehind
      DEF FailTask, Hold, TypeOK, Reach, history, job
    <2>8. CASE MarkFailed(d)
      BY <2>8, NothingNotAhead DEF MarkFailed
    <2>9. CASE PublishNext(d)
      <3>1. PublishAndAck(d, stage[d] + 1, 0)
        BY <2>9, <1>2 DEF PublishNext, Publish, PublishNoAck
      <3>2. /\ pc[d] = "returned" /\ pc'[d] = "queued" /\ stage'[d] = stage[d] + 1
            /\ stage[d] < 6 /\ UNCHANGED status /\ ~raced
        BY <2>9, <3>1, <1>0, <1>2
        DEF PublishNext, PublishAndAck, Become, TypeOK, job, Package
      <3> QED
        BY <3>2, <1>0, CarrierKeepsBehind DEF Reach, TypeOK
    <2>10. CASE EndChain(d)
      <3>1. ~raced /\ pc[d] # "idle" /\ UNCHANGED op
            /\ pc' = [pc EXCEPT ![d] = "idle"]
        BY <2>10, <1>2 DEF EndChain, Discard, Become, history, api
      <3>2. /\ \A e \in Deliveries : pc'[e] = "idle"
            /\ \A r \in Requests : op'[r] # "dispatching"
        BY <3>1, <1>0 DEF ChainInv, OneCarrier, TypeOK
      <3> QED
        BY <3>2, NobodyAhead
    <2>11. CASE DiarizeReport(d)
      BY <2>11, <1>0, CarrierWrites
      DEF DiarizeReport, Hold, TypeOK, Places, Diarize, Stages
    <2>12. CASE SynthesizeReport(d)
      BY <2>12, <1>0, CarrierWrites
      DEF SynthesizeReport, Hold, TypeOK, Places, Synthesize, Stages
    <2>13. CASE TranscribePersist(d) \/ TranslatePersist(d)
      BY <2>13, <1>0, <1>2, CarrierKeepsBehind
      DEF TranscribePersist, TranslatePersist, Hold, TypeOK, Reach, history, job
    <2>14. CASE UploadVideo(d) \/ UploadOutputs(d)
      BY <2>14, <1>0, <1>2, CarrierKeepsBehind
      DEF UploadVideo, UploadOutputs, Hold, TypeOK, Reach, history, job
    <2>15. CASE SaveVideoKey(d) \/ SaveOutputKeys(d)
      BY <2>15, <1>0, <1>2, CarrierKeepsBehind
      DEF SaveVideoKey, SaveOutputKeys, Goto, TypeOK, Reach, history, job
    <2>16. CASE Report(d)
      <3>1. stage[d] \in Stages
        BY <2>16, <1>0 DEF Report, Shape, Transcribe, Translate, Package, Stages
      <3> QED
        BY <2>16, <3>1, <1>0, CarrierWrites DEF Report, Goto, TypeOK, Places
    <2> QED
      BY <1>2, <2>1, <2>2, <2>3, <2>4, <2>5, <2>6, <2>7, <2>8, <2>9, <2>10,
         <2>11, <2>12, <2>13, <2>14, <2>15, <2>16
      DEF TaskStep, StageWork
  <1>3. ASSUME ~raced', NEW d \in Deliveries, TaskFault(d) PROVE NotAhead'
    <2>0. ASSUME ~raced, pc[d] # "idle", UNCHANGED op, Discard(d) PROVE NotAhead'
      <3>1. /\ \A e \in Deliveries : pc'[e] = "idle"
            /\ \A r \in Requests : op'[r] # "dispatching"
        BY <2>0, <1>0 DEF ChainInv, OneCarrier, TypeOK, Discard, Become
      <3> QED
        BY <3>1, NobodyAhead
    <2>1. CASE PipelineNotPublished(d)
      BY <2>1, NothingNotAhead DEF PipelineNotPublished
    <2>2. CASE Crash(d)
      <3>1. ~raced /\ pc[d] # "idle" /\ UNCHANGED <<status, op>>
        BY <2>2, <1>3 DEF Crash, Executing, job, api
      <3>2. CASE Acknowledged(d)
        BY <2>2, <3>1, <3>2, <2>0 DEF Crash
      <3>3. CASE ~Acknowledged(d)
        BY <2>2, <3>1, <3>3, <1>0, CarrierKeepsBehind
        DEF Crash, Redeliver, Become, TypeOK, Reach
      <3> QED
        BY <3>2, <3>3
    <2>3. CASE LoseChild(d)
      <3>1. ~raced /\ pc[d] # "idle" /\ UNCHANGED <<status, op>>
        BY <2>3, <1>3 DEF LoseChild, Executing, job, api
      <3>2. CASE Discard(d)
        BY <3>1, <3>2, <2>0
      <3>3. CASE Hold(d, "failing", "lost")
        BY <3>1, <3>3, <1>0, CarrierKeepsBehind DEF Hold, TypeOK, Reach
      <3> QED
        BY <2>3, <3>2, <3>3 DEF LoseChild
    <2>4. CASE LoseMessage(d)
      BY <2>4, <1>3, <2>0 DEF LoseMessage, job, api
    <2> QED
      BY <1>3, <2>1, <2>2, <2>3, <2>4 DEF TaskFault
  <1>4. ASSUME ~raced', NEW r \in Requests, Request(r) PROVE NotAhead'
    <2>1. CASE DispatchPipeline(r)
      <3>1. PICK d \in Deliveries : pc[d] = "idle" /\ Become(d, "queued", 0, 0)
        BY <2>1 DEF DispatchPipeline
      <3>2. Progress(status') = 0
        BY <2>1, <1>4 DEF DispatchPipeline, NotAhead, history, job
      <3>3. pc'[d] = "queued" /\ stage'[d] = 0
        BY <3>1, <1>0 DEF Become, TypeOK
      <3> QED
        BY <3>2, <3>3, CarrierNotAhead DEF Reach
    <2>2. CASE RetryCommit(r) \/ CancelCommit(r) \/ EnqueueFails(r)
      BY <2>2, NothingNotAhead DEF RetryCommit, CancelCommit, EnqueueFails
    <2>3. CASE RetryRead(r) \/ CancelRead(r) \/ ApiCrash(r)
      <3>1. /\ UNCHANGED <<status, pc, stage>> /\ ~raced
            /\ \A q \in Requests : op'[q] = "dispatching" => op[q] = "dispatching"
        BY <2>3, <1>0, <1>4
        DEF RetryRead, CancelRead, ApiCrash, TypeOK, job, tasks, history
      <3> QED
        BY <3>1 DEF NotAhead
    <2> QED
      BY <1>4, <2>1, <2>2, <2>3 DEF Request, RequestEnd
  <1>5. CASE RecoverCommit
    BY <1>5, NothingNotAhead DEF RecoverCommit
  <1>6. CASE RecoverSelect \/ UNCHANGED vars
    <2>1. UNCHANGED <<status, pc, stage, op, raced>>
      BY <1>6 DEF RecoverSelect, vars, job, tasks, api, history
    <2> QED
      BY <2>1 DEF NotAhead
  <1> QED
    BY <1>1, <1>2, <1>3, <1>4, <1>5, <1>6 DEF Next

THEOREM NeverAhead == Spec => [](TypeInv /\ ChainInv /\ NotAhead)
  <1>1. Init => NotAhead
    BY NoProgress DEF Init, NotAhead
  <1> QED
    BY <1>1, ChainAlways, NextNotAhead, PTL DEF Spec

\* Only the stage tasks write a status with progress, and each writes one that
\* is at least as far as what it finds.
LEMMA OnlyStagesProgress ==
    ASSUME TypeInv, NotAhead, [Next]_vars, ~raced', Progress(status') > 0
    PROVE  Progress(status') >= Progress(status)
  <1>0. TypeOK /\ Shape
    BY DEF TypeInv
  <1>1. Progress(status) \in 0..12
    BY <1>0, ProgressRange DEF TypeOK
  <1>2. CASE UNCHANGED status
    BY <1>1, <1>2
  <1>3. CASE status' \in {"queued", "failed", "cancelled"}
    BY <1>3, NoProgress
  <1>4. ASSUME NEW d \in Deliveries, NEW s \in Stages, ~raced,
               stage[d] = s, pc[d] \in {"starting", "calling", "reporting"},
               status' = InFlightStatus[s] \/ status' = DoneStatus[s]
        PROVE  Progress(status') >= Progress(status)
    <2>1. Progress(status) <= 2 * s - 1
      BY <1>4 DEF NotAhead, Reach
    <2>2. Progress(status') \in {2 * s - 1, 2 * s}
      BY <1>4, ProgressOfStage
    <2> QED
      BY <2>1, <2>2, <1>1 DEF Stages
  <1>5. ASSUME NEW d \in Deliveries, TaskStep(d)
        PROVE  Progress(status') >= Progress(status)
    <2>1. CASE Begin(d)
      BY <2>1, <1>0, <1>4 DEF Begin, Shape, history
    <2>2. CASE DiarizeReport(d)
      BY <2>2, <1>4 DEF DiarizeReport, Diarize, Stages, history
    <2>3. CASE SynthesizeReport(d)
      BY <2>3, <1>4 DEF SynthesizeReport, Synthesize, Stages, history
    <2>4. CASE Report(d)
      BY <2>4, <1>0, <1>4
      DEF Report, Shape, Transcribe, Translate, Package, Stages, history
    <2>5. CASE MarkFailed(d)
      BY <2>5, <1>3 DEF MarkFailed
    <2>6. CASE UNCHANGED status
      BY <2>6, <1>2
    <2> QED
      BY <1>5, <2>1, <2>2, <2>3, <2>4, <2>5, <2>6
      DEF TaskStep, StageWork, StartPipeline, CheckCancelled, CheckDone, ReadInput,
          RetryTask, FailTask, PublishNext, EndChain, TranscribePersist,
          TranslatePersist, UploadVideo, SaveVideoKey, UploadOutputs,
          SaveOutputKeys, job
  <1>6. ASSUME ~\E d \in Deliveries : TaskStep(d)
        PROVE  Progress(status') >= Progress(status)
    <2>1. \/ UNCHANGED status
          \/ status' \in {"queued", "failed", "cancelled"}
      BY <1>6
      DEF Next, TaskFault, PipelineNotPublished, Crash, LoseChild, LoseMessage,
          Request, RequestEnd, DispatchPipeline, RetryCommit, CancelCommit,
          EnqueueFails, RetryRead, CancelRead, ApiCrash, RecoverSelect,
          RecoverCommit, vars, job
    <2> QED
      BY <2>1, <1>2, <1>3
  <1> QED
    BY <1>5, <1>6

\* Redelivering a stage, or retrying it, never takes the job back along one
\* chain, for any number of messages and faults.
THEOREM NeverRegresses == Spec => NoRegress
  <1>1. TypeInv /\ ChainInv /\ NotAhead /\ [Next]_vars =>
          [~raced' /\ Progress(status) > 0 /\ Progress(status') > 0
              => Progress(status') >= Progress(status)]_vars
    BY OnlyStagesProgress
  <1> QED
    BY <1>1, NeverAhead, PTL DEF Spec, NoRegress

---------------------------------------------------------------------------
(* Pipeline implements JobLifecycle: every step shows the client a step of *)
(* the abstract specification, or nothing.                                 *)

ShownStep == Lifecycle!Next \/ UNCHANGED Lifecycle!vars

LEMMA PhaseOfStatus ==
    /\ \A st \in {"queued", "completed", "failed", "cancelled"} : PhaseOf(st) = st
    /\ \A s \in Stages : PhaseOf(InFlightStatus[s]) = "running"
    /\ \A s \in Stages \ {Package} : PhaseOf(DoneStatus[s]) = "running"
    /\ \A st : Sweepable(st) => PhaseOf(st) = "running"
    /\ \A st : PhaseOf(st) \in Lifecycle!Terminal <=> st \in Terminal
  BY DEF PhaseOf, Terminal, Stages, InFlightStatus, DoneStatus, Package, Sweepable,
         InFlight, Lifecycle!Terminal

\* A step of which the row shows nothing at most begins or ends an ownership,
\* and ends it only as NoOrphan allows.
LEMMA NothingShown ==
    ASSUME NoOrphan',
           UNCHANGED <<status, retryCount, videoKey, srtKey, raced, dropped>>
    PROVE  ShownStep
  <1>1. /\ UNCHANGED <<PhaseOf(status), Progress(status), retryCount>>
        /\ UNCHANGED <<Published, raced, dropped>>
    BY DEF Published
  <1>2. CASE Pursuers' # {}
    <2>1. Lifecycle!Reclaim
      BY <1>1, <1>2 DEF Lifecycle!Reclaim
    <2> QED
      BY <2>1 DEF ShownStep, Lifecycle!Next
  <1>3. CASE Pursuers' = {} /\ status' \in Terminal
    <2>1. PhaseOf(status) \in Lifecycle!Terminal
      BY <1>3, PhaseOfStatus
    <2>2. Lifecycle!Release
      BY <1>1, <1>3, <2>1 DEF Lifecycle!Release
    <2> QED
      BY <2>2 DEF ShownStep, Lifecycle!Next
  <1>4. CASE Pursuers' = {} /\ dropped'
    <2>1. Lifecycle!Abandon
      BY <1>1, <1>4 DEF Lifecycle!Abandon, Lifecycle!MayLetGo
    <2> QED
      BY <2>1 DEF ShownStep, Lifecycle!Next
  <1> QED
    BY <1>2, <1>3, <1>4 DEF NoOrphan

\* A stage writes its in-flight status, or its done status if more follow.
LEMMA WorkShown ==
    ASSUME TypeInv, NotAhead, NEW d \in Deliveries, NEW s \in Stages,
           stage[d] = s, pc[d] \in {"starting", "calling", "reporting"},
           \/ status' = InFlightStatus[s]
           \/ status' = DoneStatus[s] /\ s # Package,
           Pursuers' # {},
           UNCHANGED <<retryCount, videoKey, srtKey, raced, dropped>>
    PROVE  ShownStep
  <1>1. PhaseOf(status') = "running"
    BY PhaseOfStatus
  <1>2. Progress(status') \in 1..Lifecycle!Goal - 1
    BY ProgressOfStage DEF Stages, Package, Lifecycle!Goal
  <1>3. raced \/ Progress(status) <= Progress(status')
    <2>1. SUFFICES ASSUME ~raced PROVE Progress(status) <= Progress(status')
      OBVIOUS
    <2>2. Progress(status) <= 2 * s - 1
      BY <2>1 DEF NotAhead, Reach
    <2>3. Progress(status) \in 0..12
      BY ProgressRange DEF TypeInv, TypeOK
    <2> QED
      BY <2>2, <2>3, ProgressOfStage DEF Stages
  <1>4. Pursuers # {}
    BY DEF Pursuers
  <1>5. UNCHANGED <<Published, Pursuers # {}>>
    BY <1>4 DEF Published
  <1>6. Lifecycle!Work(Progress(status'))
    BY <1>1, <1>3, <1>4, <1>5 DEF Lifecycle!Work, Lifecycle!Show
  <1> QED
    BY <1>2, <1>6 DEF ShownStep, Lifecycle!Next

\* Whoever fails the job owns it, or is the sweep.
LEMMA FailShown ==
    ASSUME status' = "failed", raced' \in {raced, TRUE},
           Pursuers # {} \/ Sweepable(status) \/ raced',
           Pursuers' # {} => Pursuers # {},
           UNCHANGED <<retryCount, videoKey, srtKey, dropped>>
    PROVE  ShownStep
  <1>1. PhaseOf(status') = "failed" /\ Progress(status') = 0
    BY PhaseOfStatus, NoProgress
  <1>2. Sweepable(status) => PhaseOf(status) = "running"
    BY PhaseOfStatus
  <1>3. UNCHANGED <<Published, retryCount, dropped>>
    BY DEF Published
  <1>4. Lifecycle!Fail
    BY <1>1, <1>2, <1>3
    DEF Lifecycle!Fail, Lifecycle!Show, Lifecycle!MayLetGo, Lifecycle!MayContend
  <1> QED
    BY <1>4 DEF ShownStep, Lifecycle!Next

\* A message or a dispatch is lost with its owner.
LEMMA LossShown ==
    ASSUME dropped' = TRUE, Pursuers' # {} => Pursuers # {},
           UNCHANGED <<status, retryCount, videoKey, srtKey, raced>>
    PROVE  ShownStep
  <1>1. UNCHANGED <<PhaseOf(status), Progress(status), Published, retryCount, raced>>
    BY DEF Published
  <1>2. Lifecycle!Abandon
    BY <1>1 DEF Lifecycle!Abandon, Lifecycle!MayLetGo
  <1> QED
    BY <1>2 DEF ShownStep, Lifecycle!Next

\* Publishing is not shown, unless the message is there twice.
LEMMA PublishShown ==
    ASSUME TypeInv, NoOrphan', NEW d \in Deliveries, NEW s, NEW a,
           pc[d] \in {"calling", "returned"},
           pc[d] = "returned" => stage[d] < Package,
           stage[d] \in 0..6, pc'[d] = "queued", Publish(d, s, a),
           UNCHANGED <<status, retryCount, videoKey, srtKey, dropped>>
    PROVE  ShownStep
  <1>1. CASE PublishAndAck(d, s, a)
    BY <1>1, NothingShown DEF PublishAndAck
  <1>2. CASE PublishNoAck(d, s, a)
    <2>1. d \in Pursuers
      BY DEF Pursuers, Package
    <2>2. d \in Pursuers'
      BY DEF Pursuers
    <2>3. UNCHANGED <<PhaseOf(status), Progress(status), Published,
                      retryCount, dropped, Pursuers # {}>>
      BY <2>1, <2>2 DEF Published
    <2>4. Lifecycle!Duplicate
      BY <1>2, <2>1, <2>3 DEF PublishNoAck, Lifecycle!Duplicate
    <2> QED
      BY <2>4 DEF ShownStep, Lifecycle!Next
  <1> QED
    BY <1>1, <1>2 DEF Publish

\* The keys and the last status.
LEMMA StoreShown ==
    ASSUME NEW o \in {"video", "subtitles"}, Pursuers # {}, Pursuers' # {},
           o = "video" => videoKey' = TRUE /\ srtKey' = srtKey,
           o = "subtitles" => srtKey' = TRUE /\ videoKey' = videoKey,
           UNCHANGED <<status, retryCount, raced, dropped>>
    PROVE  ShownStep
  <1>1. Published' = Published \cup {o}
    BY DEF Published
  <1>2. UNCHANGED <<PhaseOf(status), Progress(status), Pursuers # {}>>
    OBVIOUS
  <1>3. Lifecycle!Store(o)
    BY <1>1, <1>2 DEF Lifecycle!Store
  <1> QED
    BY <1>3 DEF ShownStep, Lifecycle!Next, Lifecycle!Outputs

LEMMA CompleteShown ==
    ASSUME srtKey, raced \/ videoKey, raced \/ status # "queued",
           status \in Status, Pursuers # {}, status' = "completed",
           UNCHANGED <<retryCount, videoKey, srtKey, raced, dropped>>
    PROVE  ShownStep
  <1>1. Package \in Stages /\ DoneStatus[Package] = "completed" /\ Package = 6
    BY DEF Package, Stages, DoneStatus
  <1>2. PhaseOf(status') = "completed" /\ Progress(status') = Lifecycle!Goal
    BY <1>1, PhaseOfStatus, ProgressOfStage DEF Lifecycle!Goal
  <1>3. "subtitles" \in Published /\ (raced \/ Published = Lifecycle!Outputs)
    BY DEF Published, Lifecycle!Outputs
  <1>4. UNCHANGED Published
    BY DEF Published
  <1>5. raced \/ PhaseOf(status) # "queued"
    BY DEF PhaseOf, Terminal, Status
  <1>6. Lifecycle!Complete
    BY <1>2, <1>3, <1>4, <1>5 DEF Lifecycle!Complete, Lifecycle!Show, Lifecycle!MayLetGo
  <1> QED
    BY <1>6 DEF ShownStep, Lifecycle!Next

LEMMA RetryShown ==
    ASSUME TypeInv, NEW r \in Requests, RetryCommit(r)
    PROVE  ShownStep
  <1>1. PhaseOf(status') = "queued" /\ Progress(status') = 0
    BY PhaseOfStatus, NoProgress DEF RetryCommit
  <1>2. retryCount' \in 1..RetryCount
    BY RetryCountAssumption DEF RetryCommit, TypeInv, TypeOK, Shape
  <1>3. r \in Pursuers'
    BY DEF RetryCommit, TypeInv, TypeOK, Pursuers
  <1>4. raced' \in {raced, TRUE} /\ (Pursuers # {} => raced')
    BY DEF RetryCommit, Pursuers, Carriers, TypeInv, TypeOK
  <1>5. UNCHANGED <<Published, dropped>>
    BY DEF RetryCommit, artifacts, Published
  <1>6. Lifecycle!Retry
    BY <1>1, <1>2, <1>3, <1>4, <1>5
    DEF Lifecycle!Retry, Lifecycle!Show, Lifecycle!MayContend
  <1> QED
    BY <1>6 DEF ShownStep, Lifecycle!Next

LEMMA CancelShown ==
    ASSUME TypeInv, NEW r \in Requests, CancelCommit(r)
    PROVE  ShownStep
  <1>1. PhaseOf(status') = "cancelled" /\ Progress(status') = 0
    BY PhaseOfStatus, NoProgress DEF CancelCommit
  <1>2. UNCHANGED Pursuers
    BY DEF CancelCommit, Pursuers, TypeInv, TypeOK, tasks
  <1>3. UNCHANGED <<Published, retryCount, raced, dropped>>
    BY DEF CancelCommit, artifacts, history, Published
  <1>4. Lifecycle!Cancel
    BY <1>1, <1>2, <1>3 DEF Lifecycle!Cancel, Lifecycle!Show
  <1> QED
    BY <1>4 DEF ShownStep, Lifecycle!Next

---------------------------------------------------------------------------

LEMMA TaskShown ==
    ASSUME TypeInv, ChainInv, NotAhead, SubtitlesStored, NoOrphan',
           NEW d \in Deliveries, TaskStep(d)
    PROVE  ShownStep
  <1>0. TypeOK /\ Shape
    BY DEF TypeInv
  <1>1. ASSUME pc[d] \in {"starting", "calling", "reporting"}
        PROVE  d \in Pursuers
    BY <1>1 DEF Pursuers
  <1>2. ASSUME pc'[d] # "idle", stage'[d] # Package
        PROVE  d \in Pursuers'
    BY <1>2 DEF Pursuers
  <1>3. ASSUME UNCHANGED <<status, retryCount, videoKey, srtKey, raced, dropped>>
        PROVE  ShownStep
    BY <1>3, NothingShown
  <1>4. CASE StartPipeline(d) \/ CheckCancelled(d) \/ CheckDone(d) \/ ReadInput(d)
    BY <1>4, <1>3
    DEF StartPipeline, CheckCancelled, CheckDone, ReadInput, job, artifacts, history
  <1>5. CASE Begin(d)
    <2>1. d \in Pursuers'
      BY <1>5, <1>0 DEF Begin, Goto, TypeOK, Pursuers
    <2> QED
      BY <1>5, <2>1, <1>0, WorkShown DEF Begin, Shape, artifacts, history
  <1>6. CASE RetryTask(d)
    <2>1. /\ Publish(d, stage[d], attempt[d] + 1) /\ stage[d] \in Stages
          /\ attempt[d] + 1 \in 0..RetryCount
      BY <1>6, <1>0, RetryCountAssumption DEF RetryTask, Shape, TypeOK
    <2>2. pc'[d] = "queued"
      BY <2>1, <1>0, PublishEffect
    <2> QED
      BY <1>6, <2>1, <2>2, <1>0, PublishShown
      DEF RetryTask, Stages, job, artifacts
  <1>7. CASE \E error \in Errors \ {"lost"} : FailTask(d, error)
    BY <1>7, <1>3 DEF FailTask, job, artifacts, history
  <1>8. CASE MarkFailed(d)
    <2>1. d \in Pursuers
      BY <1>8 DEF MarkFailed, Pursuers
    <2> QED
      BY <1>8, <2>1, FailShown DEF MarkFailed, artifacts
  <1>9. CASE PublishNext(d)
    <2>1. /\ Publish(d, stage[d] + 1, 0) /\ stage[d] + 1 \in Stages
          /\ 0 \in 0..RetryCount
      BY <1>9, <1>0, RetryCountAssumption DEF PublishNext, TypeOK, Stages, Package
    <2>2. pc'[d] = "queued"
      BY <2>1, <1>0, PublishEffect
    <2> QED
      BY <1>9, <2>1, <2>2, <1>0, PublishShown
      DEF PublishNext, TypeOK, job, artifacts
  <1>10. CASE EndChain(d)
    BY <1>10, <1>3 DEF EndChain, job, artifacts, history
  <1>11. CASE DiarizeReport(d)
    <2>1. Diarize \in Stages /\ Diarize # Package
      BY DEF Diarize, Stages, Package
    <2>2. d \in Pursuers'
      BY <1>11, <2>1, <1>0, <1>2 DEF DiarizeReport, Hold, TypeOK
    <2> QED
      BY <1>11, <2>1, <2>2, WorkShown DEF DiarizeReport, history
  <1>12. CASE SynthesizeReport(d)
    <2>1. Synthesize \in Stages /\ Synthesize # Package
      BY DEF Synthesize, Stages, Package
    <2>2. d \in Pursuers'
      BY <1>12, <2>1, <1>0, <1>2 DEF SynthesizeReport, Hold, TypeOK
    <2> QED
      BY <1>12, <2>1, <2>2, WorkShown DEF SynthesizeReport, history
  <1>13. CASE TranscribePersist(d) \/ TranslatePersist(d)
    BY <1>13, <1>3 DEF TranscribePersist, TranslatePersist, job, history
  <1>14. CASE UploadVideo(d) \/ UploadOutputs(d)
    BY <1>14, <1>3 DEF UploadVideo, UploadOutputs, job, history
  <1>15. CASE SaveVideoKey(d)
    <2>1. d \in Pursuers /\ d \in Pursuers'
      BY <1>15, <1>0 DEF SaveVideoKey, Goto, TypeOK, Pursuers, SyncAv, Package
    <2> QED
      BY <1>15, <2>1, StoreShown DEF SaveVideoKey, job, history
  <1>16. CASE SaveOutputKeys(d)
    <2>1. d \in Pursuers /\ d \in Pursuers'
      BY <1>16, <1>0 DEF SaveOutputKeys, Goto, TypeOK, Pursuers
    <2> QED
      BY <1>16, <2>1, StoreShown DEF SaveOutputKeys, job, history
  <1>17. CASE Report(d) /\ stage[d] # Package
    <2>1. d \in Pursuers'
      BY <1>17, <1>0, <1>2 DEF Report, Goto, TypeOK
    <2>2. stage[d] \in Stages
      BY <1>17, <1>0 DEF Report, Shape, Transcribe, Translate, Package, Stages
    <2> QED
      BY <1>17, <2>1, <2>2, WorkShown DEF Report, artifacts, history
  <1>18. CASE Report(d) /\ stage[d] = Package
    <2>1. d \in Pursuers
      BY <1>18, <1>1 DEF Report
    <2>2. srtKey
      BY <1>18 DEF Report, SubtitlesStored
    <2>3. raced \/ videoKey
      BY <1>18 DEF Report, ChainInv, Behind, Produced, SyncAv, Package
    <2>4. status' = "completed"
      BY <1>18 DEF Report, DoneStatus, Package
    <2>5. raced \/ status # "queued"
      BY <1>18 DEF Report, ChainInv, InOrder, AtWork, InFlightStatus, Package
    <2> QED
      BY <1>18, <1>0, <2>1, <2>2, <2>3, <2>4, <2>5, CompleteShown
      DEF Report, artifacts, history, TypeOK
  <1> QED
    BY <1>4, <1>5, <1>6, <1>7, <1>8, <1>9, <1>10, <1>11, <1>12, <1>13, <1>14,
       <1>15, <1>16, <1>17, <1>18
    DEF TaskStep, StageWork

THEOREM NextShown ==
    TypeInv /\ ChainInv /\ NotAhead /\ SubtitlesStored /\ NoOrphan'
       /\ [Next]_vars => [Lifecycle!Next]_(Lifecycle!vars)
  <1> SUFFICES ASSUME TypeInv, ChainInv, NotAhead, SubtitlesStored, NoOrphan',
                      [Next]_vars
               PROVE  ShownStep
    BY DEF ShownStep
  <1>0. TypeOK /\ Shape
    BY DEF TypeInv
  <1>1. ASSUME UNCHANGED <<status, retryCount, videoKey, srtKey, raced, dropped>>
        PROVE  ShownStep
    BY <1>1, NothingShown
  <1>2. CASE UNCHANGED vars \/ RecoverSelect
    BY <1>2, <1>1 DEF vars, RecoverSelect, job, artifacts, history
  <1>3. ASSUME NEW d \in Deliveries, TaskStep(d) PROVE ShownStep
    BY <1>3, TaskShown
  <1>4. ASSUME NEW d \in Deliveries, TaskFault(d) PROVE ShownStep
    <2>0. ASSUME UNCHANGED op, Discard(d) PROVE Pursuers' \subseteq Pursuers
      BY <2>0, <1>0 DEF Discard, Become, Pursuers, TypeOK
    <2>1. CASE PipelineNotPublished(d)
      <3>1. d \in Pursuers
        BY <2>1 DEF PipelineNotPublished, Pursuers, Package
      <3> QED
        BY <2>1, <3>1, FailShown DEF PipelineNotPublished, artifacts
    <2>2. CASE Crash(d)
      <3>1. UNCHANGED <<status, retryCount, videoKey, srtKey, raced, op>>
        BY <2>2 DEF Crash, job, artifacts, api
      <3>2. CASE Acknowledged(d)
        BY <2>2, <3>1, <3>2, <2>0, LossShown DEF Crash
      <3>3. CASE ~Acknowledged(d)
        BY <2>2, <3>1, <3>3, <1>1 DEF Crash
      <3> QED
        BY <3>2, <3>3
    <2>3. CASE LoseChild(d)
      <3>1. UNCHANGED <<status, retryCount, videoKey, srtKey, raced, op>>
        BY <2>3 DEF LoseChild, job, artifacts, api
      <3>2. CASE Discard(d) /\ dropped' = TRUE
        BY <3>1, <3>2, <2>0, LossShown
      <3>3. CASE UNCHANGED dropped
        BY <3>1, <3>3, <1>1
      <3> QED
        BY <2>3, <3>2, <3>3 DEF LoseChild
    <2>4. CASE LoseMessage(d)
      BY <2>4, <2>0, LossShown DEF LoseMessage, job, artifacts, api
    <2> QED
      BY <1>4, <2>1, <2>2, <2>3, <2>4 DEF TaskFault
  <1>5. ASSUME NEW r \in Requests, Request(r) PROVE ShownStep
    <2>0. ASSUME UNCHANGED <<pc, stage>>, op' = [op EXCEPT ![r] = "idle"]
          PROVE  Pursuers' \subseteq Pursuers
      BY <2>0, <1>0 DEF Pursuers, TypeOK
    <2>1. CASE DispatchPipeline(r)
      BY <2>1, <1>1 DEF DispatchPipeline, job, artifacts, history
    <2>2. CASE RetryCommit(r)
      BY <2>2, RetryShown
    <2>3. CASE CancelCommit(r)
      BY <2>3, CancelShown
    <2>4. CASE EnqueueFails(r)
      <3>1. r \in Pursuers
        BY <2>4 DEF EnqueueFails, Pursuers
      <3> QED
        BY <2>4, <3>1, FailShown DEF EnqueueFails, artifacts
    <2>5. CASE RetryRead(r) \/ CancelRead(r)
      BY <2>5, <1>1 DEF RetryRead, CancelRead, job, artifacts, history
    <2>6. CASE ApiCrash(r)
      <3>1. /\ UNCHANGED <<status, retryCount, videoKey, srtKey, raced>>
            /\ Pursuers' \subseteq Pursuers
        BY <2>6, <2>0 DEF ApiCrash, job, artifacts, tasks
      <3>2. CASE dropped' = TRUE
        BY <3>1, <3>2, LossShown
      <3>3. CASE UNCHANGED dropped
        BY <3>1, <3>3, <1>1
      <3> QED
        BY <2>6, <3>2, <3>3, <1>0 DEF ApiCrash, TypeOK
    <2> QED
      BY <1>5, <2>1, <2>2, <2>3, <2>4, <2>5, <2>6 DEF Request, RequestEnd
  <1>6. CASE RecoverCommit
    <2>1. UNCHANGED Pursuers
      BY <1>6 DEF RecoverCommit, tasks, api, Pursuers
    <2> QED
      BY <1>6, <2>1, <1>0, FailShown DEF RecoverCommit, artifacts, TypeOK
  <1> QED
    BY <1>2, <1>3, <1>4, <1>5, <1>6 DEF Next

\* Pipeline implements the abstract specification, for any number of messages,
\* requests and faults.
THEOREM Implements == Spec => ImplementsLifecycle
  <1>1. Init => Lifecycle!Init
    <2> SUFFICES ASSUME Init PROVE Lifecycle!Init
      OBVIOUS
    <2>1. PICK u \in Requests :
            op = [r \in Requests |-> IF r = u THEN "dispatching" ELSE "idle"]
      BY DEF Init
    <2>2. u \in Pursuers
      BY <2>1 DEF Pursuers
    <2>3. PhaseOf(status) = "queued" /\ Progress(status) = 0
      BY PhaseOfStatus, NoProgress DEF Init
    <2>4. Published = {}
      BY DEF Init, Published
    <2> QED
      BY <2>2, <2>3, <2>4 DEF Init, Lifecycle!Init
  <1> QED
    BY <1>1, NextShown, NeverAhead, SubtitlesAlwaysStored, NeverOrphaned, PTL
    DEF Spec, ImplementsLifecycle, Lifecycle!Spec

---------------------------------------------------------------------------
(* What the abstract specification promises therefore holds of Pipeline.   *)

LEMMA PromiseStep ==
    Lifecycle!Promise /\ [Lifecycle!Next]_(Lifecycle!vars) => Lifecycle!Promise'
  <1> SUFFICES ASSUME Lifecycle!Promise, [Lifecycle!Next]_(Lifecycle!vars)
               PROVE  Lifecycle!Promise'
    OBVIOUS
  <1> USE DEF Lifecycle!Promise, Lifecycle!Terminal, Lifecycle!Outputs, Lifecycle!Show,
              Lifecycle!MayLetGo, Lifecycle!MayContend
  <1>1. CASE UNCHANGED Lifecycle!vars
    BY <1>1 DEF Lifecycle!vars
  <1>2. CASE \E p \in 1..Lifecycle!Goal - 1 : Lifecycle!Work(p)
    BY <1>2 DEF Lifecycle!Work
  <1>3. CASE \E o \in Lifecycle!Outputs : Lifecycle!Store(o)
    <2>1. Published \subseteq {"video", "subtitles"}
      BY DEF Published
    <2> QED
      BY <1>3, <2>1 DEF Lifecycle!Store
  <1>4. CASE Lifecycle!Complete
    BY <1>4 DEF Lifecycle!Complete
  <1>5. CASE Lifecycle!Fail \/ Lifecycle!Cancel \/ Lifecycle!Retry
    BY <1>5 DEF Lifecycle!Fail, Lifecycle!Cancel, Lifecycle!Retry
  <1>6. CASE Lifecycle!Release \/ Lifecycle!Reclaim
    BY <1>6 DEF Lifecycle!Release, Lifecycle!Reclaim
  <1>7. CASE Lifecycle!Duplicate \/ Lifecycle!Abandon
    BY <1>7 DEF Lifecycle!Duplicate, Lifecycle!Abandon
  <1> QED
    BY <1>1, <1>2, <1>3, <1>4, <1>5, <1>6, <1>7 DEF Lifecycle!Next

\* A completed job has its subtitles, and its video too unless two chains have
\* overlapped; a job that is not settled has an owner or was abandoned.
THEOREM PromiseKept == Spec => []Lifecycle!Promise
  <1>1. Lifecycle!Init => Lifecycle!Promise
    BY DEF Lifecycle!Init, Lifecycle!Promise
  <1>2. Lifecycle!Spec => []Lifecycle!Promise
    BY <1>1, PromiseStep, PTL DEF Lifecycle!Spec
  <1> QED
    BY <1>2, Implements, PTL DEF ImplementsLifecycle

LEMMA InTurnStep ==
    /\ Lifecycle!Promise
    /\ [Lifecycle!Next]_(Lifecycle!vars)
    => [PhaseOf(status) \notin Lifecycle!Terminal /\ ~raced' /\ ~dropped'
           => PhaseOf(status)' \in {PhaseOf(status)} \cup Lifecycle!Phases(PhaseOf(status))
       ]_(Lifecycle!vars)
  <1> SUFFICES ASSUME Lifecycle!Promise, Lifecycle!Next,
                      PhaseOf(status) \notin Lifecycle!Terminal, ~raced', ~dropped'
               PROVE  PhaseOf(status)' \in
                         {PhaseOf(status)} \cup Lifecycle!Phases(PhaseOf(status))
    OBVIOUS
  <1>1. PhaseOf(status) \in {"queued", "running"}
    BY DEF PhaseOf, Terminal, Lifecycle!Terminal
  <1> USE DEF Lifecycle!Phases, Lifecycle!Terminal, Lifecycle!Show
  <1>2. CASE \E p \in 1..Lifecycle!Goal - 1 : Lifecycle!Work(p)
    BY <1>1, <1>2 DEF Lifecycle!Work
  <1>3. CASE Lifecycle!Complete
    BY <1>1, <1>3 DEF Lifecycle!Complete
  <1>4. CASE Lifecycle!Fail \/ Lifecycle!Cancel
    BY <1>1, <1>4 DEF Lifecycle!Fail, Lifecycle!Cancel
  <1>5. CASE Lifecycle!Retry
    BY <1>5 DEF Lifecycle!Retry, Lifecycle!Promise
  <1>6. CASE UNCHANGED PhaseOf(status)
    BY <1>6
  <1> QED
    BY <1>2, <1>3, <1>4, <1>5, <1>6
    DEF Lifecycle!Next, Lifecycle!Store, Lifecycle!Release, Lifecycle!Reclaim,
        Lifecycle!Duplicate, Lifecycle!Abandon

\* A job is queued, then running, then settled: the page's view of it, for any
\* number of messages, requests and faults.  It follows from the abstract
\* specification alone: what a retry could put back has an owner (Promise).
THEOREM AlwaysInTurn == Spec => PhasesInTurn
  <1>1. Spec => [][Lifecycle!Next]_(Lifecycle!vars)
    BY Implements, PTL DEF ImplementsLifecycle, Lifecycle!Spec
  <1> QED
    BY <1>1, PromiseKept, InTurnStep, PTL DEF PhasesInTurn, Lifecycle!InTurn
===========================================================================
