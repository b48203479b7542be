-------------------------- MODULE PipelineProofs --------------------------
(***************************************************************************)
(* Theorems about Pipeline, for every number of messages, requests,        *)
(* retries and faults.                                                     *)
(***************************************************************************)
EXTENDS Pipeline, TLAPS

---------------------------------------------------------------------------
(* The tables. *)

LEMMA StageStatus ==
    ASSUME NEW s \in Stages
    PROVE  /\ InFlightStatus[s] \in Status
           /\ DoneStatus[s] \in Status
           /\ InFlightStatus[s] \notin Terminal
           /\ s # Package => DoneStatus[s] \notin Terminal
           /\ s = Package => DoneStatus[s] = "completed"
  BY DEF Stages, Status, InFlight, Done, Terminal, InFlightStatus, DoneStatus, Package

LEMMA PlainStatus ==
    /\ {"queued", "failed", "cancelled", "completed"} \subseteq Status
    /\ \A t \in {"diarized", "synthesized"} : t \in Status /\ t \notin Terminal
  BY DEF Stages, Status, InFlight, Done, Terminal, InFlightStatus, DoneStatus

---------------------------------------------------------------------------
(* Type correctness.  TypeOK is not inductive: what a task writes has its  *)
(* type only because of where the task is.                                 *)

Shape ==
    /\ \A d \in Deliveries :
          /\ pc[d] \in {"entered", "starting", "reading", "calling", "failing"}
                => stage[d] \in Stages
          /\ pc[d] = "storing" => stage[d] \in {SyncAv, Package}
          /\ pc[d] = "reporting" => stage[d] \in {Transcribe, Translate, Package}
          /\ pc[d] = "calling" /\ stage[d] \in Translate..Package => out[d] \in Texts
    /\ \A r \in Requests : op[r] = "retrying" => seen[r] < RetryCount

TypeInv == TypeOK /\ Shape

LEMMA InputType ==
    ASSUME TypeOK, NEW s \in Stages
    PROVE  /\ Input(s) \in Texts \cup Labels
           /\ s \in Translate..Package => Input(s) \in Texts
  BY DEF TypeOK, Input, Texts, Labels, Stages, Diarize, Transcribe, Translate,
         Synthesize, SyncAv, Package

LEMMA InitTypeInv == Init => TypeInv
  <1> SUFFICES ASSUME Init PROVE TypeInv
    OBVIOUS
  <1> USE RetryCountAssumption, MaxFaultsAssumption DEF Init
  <1>1. PICK u \in Requests :
          op = [r \in Requests |-> IF r = u THEN "dispatching" ELSE "idle"]
    OBVIOUS
  <1>2. op \in [Requests -> {"idle", "dispatching", "retrying", "cancelling"}]
    BY <1>1
  <1>3. \A r \in Requests : op[r] # "retrying"
    BY <1>1
  <1>4. TypeOK
    <2>1. status \in Status /\ retryCount \in 0..RetryCount /\ faults \in 0..MaxFaults
      BY PlainStatus
    <2>2. /\ pc \in [Deliveries -> Places]
          /\ stage \in [Deliveries -> 0..6]
          /\ attempt \in [Deliveries -> 0..RetryCount]
          /\ out \in [Deliveries -> Texts \cup Labels \cup Errors]
          /\ seen \in [Requests -> 0..RetryCount]
      BY DEF Texts, Places
    <2> QED
      BY <1>2, <2>1, <2>2 DEF TypeOK, Texts
  <1>5. Shape
    BY <1>3 DEF Shape
  <1> QED
    BY <1>4, <1>5 DEF TypeInv

\* Publishing puts messages on the broker and leaves the others alone.
LEMMA PublishEffect ==
    ASSUME TypeOK, NEW d \in Deliveries, NEW s \in Stages,
           NEW a \in 0..RetryCount, Publish(d, s, a)
    PROVE  /\ pc' \in [Deliveries -> Places]
           /\ stage' \in [Deliveries -> 0..6]
           /\ attempt' \in [Deliveries -> 0..RetryCount]
           /\ out' \in [Deliveries -> Texts \cup Labels \cup Errors]
           /\ faults' \in 0..MaxFaults
           /\ raced' \in BOOLEAN
           /\ pc'[d] = "queued"
           /\ \A c \in Deliveries :
                 \/ pc'[c] = "queued"
                 \/ pc'[c] = pc[c] /\ stage'[c] = stage[c] /\ out'[c] = out[c]
  <1> USE DEF TypeOK, Places, Texts, Stages
  <1>1. CASE PublishAndAck(d, s, a)
    BY <1>1 DEF PublishAndAck, Become
  <1>2. CASE PublishNoAck(d, s, a)
    <2>1. PICK e \in Deliveries :
            /\ pc' = [pc EXCEPT ![d] = "queued", ![e] = "queued"]
            /\ stage' = [stage EXCEPT ![e] = s]
            /\ attempt' = [attempt EXCEPT ![e] = a]
      BY <1>2 DEF PublishNoAck
    <2>2. out' = [out EXCEPT ![d] = "none"] /\ raced' = TRUE
      BY <1>2 DEF PublishNoAck
    <2>3. faults' \in 0..MaxFaults
      BY <1>2, MaxFaultsAssumption DEF PublishNoAck, Fault
    <2> QED
      BY <2>1, <2>2, <2>3
  <1> QED
    BY <1>1, <1>2 DEF Publish

THEOREM NextTypeInv == TypeInv /\ [Next]_vars => TypeInv'
  <1> SUFFICES ASSUME TypeInv, [Next]_vars PROVE TypeInv'
    OBVIOUS
  <1> USE RetryCountAssumption, MaxFaultsAssumption, PlainStatus
      DEF TypeInv, TypeOK, Shape, Texts, Labels, Errors, Places, Stages, Diarize,
          Transcribe, Translate, Synthesize, SyncAv, Package, job, artifacts,
          tasks, api, history
  <1>1. CASE UNCHANGED vars
    BY <1>1 DEF vars
  <1>2. ASSUME NEW d \in Deliveries, TaskStep(d) PROVE TypeInv'
    <2>1. CASE StartPipeline(d)
      BY <2>1 DEF StartPipeline, Goto
    <2>2. CASE CheckCancelled(d)
      BY <2>2 DEF CheckCancelled, Goto
    <2>3. CASE CheckDone(d)
      BY <2>3 DEF CheckDone, Goto
    <2>4. CASE Begin(d)
      BY <2>4, StageStatus DEF Begin, Goto
    <2>5. CASE ReadInput(d)
      BY <2>5, InputType DEF ReadInput, Hold
    <2>6. CASE RetryTask(d)
      <3>1. /\ stage[d] \in Stages /\ attempt[d] + 1 \in 0..RetryCount
            /\ Publish(d, stage[d], attempt[d] + 1)
        BY <2>6 DEF RetryTask
      <3> QED
        BY <2>6, <3>1, PublishEffect DEF RetryTask
    <2>7. CASE \E error \in Errors \ {"lost"} : FailTask(d, error)
      BY <2>7 DEF FailTask, Hold
    <2>8. CASE MarkFailed(d)
      BY <2>8 DEF MarkFailed, Discard, Redeliver, Become, Fault
    <2>9. CASE PublishNext(d)
      BY <2>9, PublishEffect DEF PublishNext
    <2>10. CASE EndChain(d)
      BY <2>10 DEF EndChain, Discard, Become
    <2>11. CASE DiarizeReport(d)
      BY <2>11, StageStatus DEF DiarizeReport, Hold
    <2>12. CASE TranscribePersist(d)
      BY <2>12 DEF TranscribePersist, Hold
    <2>13. CASE TranslatePersist(d)
      BY <2>13 DEF TranslatePersist, Hold, Translated
    <2>14. CASE SynthesizeReport(d)
      BY <2>14, StageStatus DEF SynthesizeReport, Hold
    <2>15. CASE UploadVideo(d)
      BY <2>15 DEF UploadVideo, Hold
    <2>16. CASE SaveVideoKey(d)
      BY <2>16 DEF SaveVideoKey, Goto
    <2>17. CASE UploadOutputs(d)
      BY <2>17 DEF UploadOutputs, Hold
    <2>18. CASE SaveOutputKeys(d)
      BY <2>18 DEF SaveOutputKeys, Goto
    <2>19. CASE Report(d)
      BY <2>19, StageStatus DEF Report, Goto
    <2> QED
      BY <1>2, <2>1, <2>2, <2>3, <2>4, <2>5, <2>6, <2>7, <2>8, <2>9, <2>10,
         <2>11, <2>12, <2>13, <2>14, <2>15, <2>16, <2>17, <2>18, <2>19
      DEF TaskStep, StageWork
  <1>3. ASSUME NEW d \in Deliveries, TaskFault(d) PROVE TypeInv'
    <2>1. CASE PipelineNotPublished(d)
      BY <2>1 DEF PipelineNotPublished, Discard, Become, Fault
    <2>2. CASE Crash(d)
      <3>1. CASE Acknowledged(d)
        BY <2>2, <3>1 DEF Crash, Discard, Become, Fault
      <3>2. CASE ~Acknowledged(d)
        BY <2>2, <3>2 DEF Crash, Redeliver, Become, Fault
      <3> QED
        BY <3>1, <3>2
    <2>3. CASE LoseChild(d)
      <3>1. CASE stage[d] = 0
        BY <2>3, <3>1 DEF LoseChild, Discard, Become, Fault
      <3>2. CASE stage[d] \in Stages
        BY <2>3, <3>2 DEF LoseChild, Hold, Fault
      <3> QED
        BY <2>3, <3>1, <3>2 DEF LoseChild
    <2>4. CASE LoseMessage(d)
      BY <2>4 DEF LoseMessage, Discard, Become, Fault
    <2> QED
      BY <1>3, <2>1, <2>2, <2>3, <2>4 DEF TaskFault
  <1>4. ASSUME NEW r \in Requests, Request(r) PROVE TypeInv'
    <2>1. CASE DispatchPipeline(r)
      BY <2>1 DEF DispatchPipeline, Become
    <2>2. CASE RetryCommit(r)
      BY <2>2 DEF RetryCommit
    <2>3. CASE CancelCommit(r)
      BY <2>3 DEF CancelCommit
    <2>4. CASE EnqueueFails(r)
      BY <2>4 DEF EnqueueFails, Fault
    <2>5. CASE RetryRead(r)
      BY <2>5 DEF RetryRead
    <2>6. CASE CancelRead(r)
      BY <2>6 DEF CancelRead
    <2>7. CASE ApiCrash(r)
      BY <2>7 DEF ApiCrash, Fault
    <2> QED
      BY <1>4, <2>1, <2>2, <2>3, <2>4, <2>5, <2>6, <2>7 DEF Request, RequestEnd
  <1>5. CASE RecoverSelect
    BY <1>5 DEF RecoverSelect
  <1>6. CASE RecoverCommit
    BY <1>6 DEF RecoverCommit
  <1> QED
    BY <1>1, <1>2, <1>3, <1>4, <1>5, <1>6 DEF Next

\* The type invariant holds of every behaviour, for all constants.
THEOREM TypeCorrect == Spec => []TypeOK
  <1>1. Spec => []TypeInv
    BY InitTypeInv, NextTypeInv, PTL DEF Spec
  <1>2. TypeInv => TypeOK
    BY DEF TypeInv
  <1> QED
    BY <1>1, <1>2, PTL

---------------------------------------------------------------------------
(* No job is left behind.  The property is inductive: whoever gives up a   *)
(* job, or writes a status that is not terminal, either leaves a terminal  *)
(* status or goes on pursuing it.                                          *)

LEMMA StillPursued ==
    ASSUME NEW d \in Deliveries, pc'[d] \notin {"idle", "returned"}
    PROVE  NoOrphan'
  <1>1. d \in Pursuers'
    BY DEF Pursuers
  <1> QED
    BY <1>1 DEF NoOrphan

LEMMA ReturnsPursued ==
    ASSUME TypeOK, NEW d \in Deliveries, pc'[d] = "returned", stage'[d] # Package
    PROVE  NoOrphan'
  <1>1. d \in Pursuers'
    BY DEF Pursuers
  <1> QED
    BY <1>1 DEF NoOrphan

LEMMA SettledOrDropped ==
    ASSUME status' \in Terminal \/ dropped'
    PROVE  NoOrphan'
  BY DEF NoOrphan

LEMMA NobodyLeaves ==
    ASSUME NoOrphan, UNCHANGED <<status, dropped>>, Pursuers \subseteq Pursuers'
    PROVE  NoOrphan'
  BY DEF NoOrphan

LEMMA OnlyCompletedEndsPackage ==
    ASSUME NEW st, StageDone(st, Package)
    PROVE  st \in Terminal
  BY DEF StageDone, Package, DoneStatus, Terminal

THEOREM NextNoOrphan == TypeInv /\ NoOrphan /\ [Next]_vars => NoOrphan'
  <1> SUFFICES ASSUME TypeInv, NoOrphan, [Next]_vars PROVE NoOrphan'
    OBVIOUS
  <1>0. TypeOK /\ Shape
    BY DEF TypeInv
  <1>1. CASE UNCHANGED vars
    BY <1>1, NobodyLeaves
    DEF vars, job, tasks, api, history, Pursuers
  <1>2. ASSUME NEW d \in Deliveries, TaskStep(d) PROVE NoOrphan'
    <2>1. CASE StartPipeline(d)
      BY <2>1, <1>0, ReturnsPursued DEF StartPipeline, Goto, TypeOK, Package
    <2>2. CASE CheckCancelled(d)
      <3>1. CASE status = "cancelled"
        BY <2>2, <3>1, SettledOrDropped DEF CheckCancelled, job, Terminal
      <3>2. CASE status # "cancelled"
        BY <2>2, <3>2, <1>0, StillPursued DEF CheckCancelled, Goto, TypeOK
      <3> QED
        BY <3>1, <3>2
    <2>3. CASE CheckDone(d)
      <3>1. CASE ~StageDone(status, stage[d])
        BY <2>3, <3>1, <1>0, StillPursued DEF CheckDone, Goto, TypeOK
      <3>2. CASE StageDone(status, stage[d]) /\ stage[d] # Package
        BY <2>3, <3>2, <1>0, ReturnsPursued DEF CheckDone, Goto, TypeOK
      <3>3. CASE StageDone(status, stage[d]) /\ stage[d] = Package
        BY <2>3, <3>3, OnlyCompletedEndsPackage, SettledOrDropped DEF CheckDone, job
      <3> QED
        BY <3>1, <3>2, <3>3
    <2>4. CASE Begin(d)
      BY <2>4, <1>0, StillPursued DEF Begin, Goto, TypeOK
    <2>5. CASE ReadInput(d)
      BY <2>5, <1>0, StillPursued DEF ReadInput, Hold, TypeOK
    <2>6. CASE RetryTask(d)
      <3>1. stage[d] \in Stages /\ attempt[d] + 1 \in 0..RetryCount
        BY <2>6, <1>0, RetryCountAssumption DEF RetryTask, Shape, TypeOK
      <3>2. pc'[d] = "queued"
        BY <2>6, <3>1, <1>0, PublishEffect DEF RetryTask
      <3> QED
        BY <3>2, StillPursued
    <2>7. CASE \E error \in Errors \ {"lost"} : FailTask(d, error)
      BY <2>7, <1>0, StillPursued DEF FailTask, Hold, TypeOK
    <2>8. CASE MarkFailed(d)
      BY <2>8, SettledOrDropped DEF MarkFailed, Terminal
    <2>9. CASE PublishNext(d)
      <3>1. stage[d] + 1 \in Stages /\ 0 \in 0..RetryCount
        BY <2>9, <1>0, RetryCountAssumption DEF PublishNext, TypeOK, Stages, Package
      <3>2. pc'[d] = "queued"
        BY <2>9, <3>1, <1>0, PublishEffect DEF PublishNext
      <3> QED
        BY <3>2, StillPursued
    <2>10. CASE EndChain(d)
      <3>1. Pursuers \subseteq Pursuers'
        BY <2>10, <1>0 DEF EndChain, Discard, Become, Pursuers, TypeOK, api
      <3> QED
        BY <2>10, <3>1, NobodyLeaves DEF EndChain, job, history
    <2>11. CASE DiarizeReport(d) \/ SynthesizeReport(d)
      BY <2>11, <1>0, ReturnsPursued
      DEF DiarizeReport, SynthesizeReport, Hold, TypeOK, Diarize, Synthesize, Package
    <2>12. CASE TranscribePersist(d) \/ TranslatePersist(d) \/ SaveOutputKeys(d)
      BY <2>12, <1>0, StillPursued
      DEF TranscribePersist, TranslatePersist, SaveOutputKeys, Hold, Goto, TypeOK
    <2>13. CASE UploadVideo(d) \/ UploadOutputs(d)
      BY <2>13, <1>0, StillPursued DEF UploadVideo, UploadOutputs, Hold, TypeOK
    <2>14. CASE SaveVideoKey(d)
      BY <2>14, <1>0, ReturnsPursued DEF SaveVideoKey, Goto, TypeOK, SyncAv, Package
    <2>15. CASE Report(d)
      <3>1. CASE stage[d] = Package
        BY <2>15, <3>1, SettledOrDropped DEF Report, Package, DoneStatus, Terminal
      <3>2. CASE stage[d] # Package
        BY <2>15, <3>2, <1>0, ReturnsPursued DEF Report, Goto, TypeOK
      <3> QED
        BY <3>1, <3>2
    <2> QED
      BY <1>2, <2>1, <2>2, <2>3, <2>4, <2>5, <2>6, <2>7, <2>8, <2>9, <2>10,
         <2>11, <2>12, <2>13, <2>14, <2>15
      DEF TaskStep, StageWork
  <1>3. ASSUME NEW d \in Deliveries, TaskFault(d) PROVE NoOrphan'
    <2>1. CASE PipelineNotPublished(d)
      BY <2>1, SettledOrDropped DEF PipelineNotPublished, Terminal
    <2>2. CASE Crash(d)
      <3>1. CASE Acknowledged(d)
        BY <2>2, <3>1, SettledOrDropped DEF Crash
      <3>2. CASE ~Acknowledged(d)
        BY <2>2, <3>2, <1>0, StillPursued DEF Crash, Redeliver, Become, TypeOK
      <3> QED
        BY <3>1, <3>2
    <2>3. CASE LoseChild(d)
      BY <2>3, <1>0, StillPursued, SettledOrDropped DEF LoseChild, Hold, TypeOK
    <2>4. CASE LoseMessage(d)
      BY <2>4, SettledOrDropped DEF LoseMessage
    <2> QED
      BY <1>3, <2>1, <2>2, <2>3, <2>4 DEF TaskFault
  <1>4. ASSUME NEW r \in Requests, Request(r) PROVE NoOrphan'
    <2>1. CASE DispatchPipeline(r)
      BY <2>1, <1>0, StillPursued DEF DispatchPipeline, Become, TypeOK
    <2>2. CASE RetryCommit(r)
      <3>1. r \in Pursuers'
        BY <2>2, <1>0 DEF RetryCommit, Pursuers, TypeOK
      <3> QED
        BY <3>1 DEF NoOrphan
    <2>3. CASE CancelCommit(r) \/ EnqueueFails(r)
      BY <2>3, SettledOrDropped DEF CancelCommit, EnqueueFails, Terminal
    <2>4. CASE RetryRead(r) \/ CancelRead(r)
      <3>1. Pursuers \subseteq Pursuers'
        BY <2>4, <1>0 DEF RetryRead, CancelRead, Pursuers, TypeOK, tasks
      <3> QED
        BY <2>4, <3>1, NobodyLeaves DEF RetryRead, CancelRead, job, history
    <2>5. CASE ApiCrash(r)
      <3>1. CASE op[r] = "dispatching"
        BY <2>5, <3>1, SettledOrDropped DEF ApiCrash
      <3>2. CASE op[r] # "dispatching"
        <4>1. Pursuers \subseteq Pursuers'
          BY <2>5, <3>2, <1>0 DEF ApiCrash, Pursuers, TypeOK, tasks
        <4>2. UNCHANGED <<status, dropped>>
          BY <2>5, <3>2, <1>0 DEF ApiCrash, job, TypeOK
        <4> QED
          BY <4>1, <4>2, NobodyLeaves
      <3> QED
        BY <3>1, <3>2
    <2> QED
      BY <1>4, <2>1, <2>2, <2>3, <2>4, <2>5 DEF Request, RequestEnd
  <1>5. CASE RecoverSelect
    <2>1. Pursuers \subseteq Pursuers'
      BY <1>5 DEF RecoverSelect, Pursuers, tasks, api
    <2> QED
      BY <1>5, <2>1, NobodyLeaves DEF RecoverSelect, job, history
  <1>6. CASE RecoverCommit
    BY <1>6, SettledOrDropped DEF RecoverCommit, Terminal
  <1> QED
    BY <1>1, <1>2, <1>3, <1>4, <1>5, <1>6 DEF Next

\* Unless a message or a dispatch was lost, a job whose status is not terminal
\* has a carrier that will still write it, for any number of messages,
\* requests, retries and crashes.
THEOREM NeverOrphaned == Spec => []NoOrphan
  <1>1. Init => NoOrphan
    BY DEF Init, NoOrphan, Pursuers
  <1> QED
    BY <1>1, InitTypeInv, NextTypeInv, NextNoOrphan, PTL DEF Spec

---------------------------------------------------------------------------
(* A completed job is whole.  With a single carrier, ChainInv says what is *)
(* behind it at every place it can be, and only it writes the outputs.     *)

LEMMA IdleIsFine ==
    ASSUME NEW d \in Deliveries, pc[d] = "idle"
    PROVE  Behind(d) /\ InHand(d) /\ InOrder(d)
  BY DEF Behind, InHand, InOrder, AtWork

\* One carrier moves: the others are idle, and only it has to be looked at.
LEMMA CarrierMoves ==
    ASSUME ChainInv, ~raced, NEW d \in Deliveries, pc[d] # "idle",
           UNCHANGED op, \A e \in Deliveries \ {d} : pc'[e] = pc[e],
           Behind(d)', InHand(d)', InOrder(d)',
           \A s \in Stages : status' = DoneStatus[s] => Produced(s)'
    PROVE  ChainInv'
  <1>1. \A e \in Deliveries \ {d} : pc'[e] = "idle"
    BY DEF ChainInv, OneCarrier
  <1>2. OneCarrier'
    BY <1>1 DEF ChainInv, OneCarrier
  <1>3. \A e \in Deliveries : (Behind(e) /\ InHand(e) /\ InOrder(e))'
    <2>1. ASSUME NEW e \in Deliveries, e # d
          PROVE  (Behind(e) /\ InHand(e) /\ InOrder(e))'
      BY <1>1, <2>1 DEF Behind, InHand, InOrder, AtWork
    <2> QED
      BY <2>1
  <1> QED
    BY <1>2, <1>3 DEF ChainInv

\* Nobody carries the job: whatever happens to its status, unless it is said
\* to be done, is fine.
LEMMA NobodyMoves ==
    ASSUME OneCarrier', \A d \in Deliveries : pc'[d] = "idle",
           \A s \in Stages : status' = DoneStatus[s] => Produced(s)'
    PROVE  ChainInv'
  BY DEF ChainInv, Behind, InHand, InOrder, AtWork

LEMMA ProducedDown ==
    ASSUME NEW n \in Int, NEW m \in Int, m <= n, Produced(n)
    PROVE  Produced(m)
  BY DEF Produced, Diarize, Transcribe, Translate, Synthesize, SyncAv, Package

LEMMA ProducedNothing == \A n \in {0, 0 - 1} : Produced(n)
  BY DEF Produced, Diarize, Transcribe, Translate, Synthesize, SyncAv, Package

LEMMA DoneIsNotOther ==
    \A s \in Stages :
       /\ DoneStatus[s] \notin {"queued", "failed", "cancelled"}
       /\ DoneStatus[s] \notin InFlight
       /\ InFlightStatus[s] \in InFlight
       /\ InFlightStatus[s] # "cancelled"
  BY DEF Stages, DoneStatus, InFlight, InFlightStatus

LEMMA DoneInjective ==
    ASSUME NEW s \in Stages, NEW t \in Stages, DoneStatus[s] = DoneStatus[t]
    PROVE  s = t
  BY DEF Stages, DoneStatus

LEMMA SweepableIsNotCancelled == "cancelled" \notin InFlight /\ "failed" \notin InFlight
  BY DEF Stages, InFlight, InFlightStatus

\* A step that raises raced has nothing to show.
LEMMA RacedIsFree ==
    ASSUME raced' = TRUE
    PROVE  ChainInv'
  BY DEF ChainInv

THEOREM NextChainInv == TypeInv /\ ChainInv /\ [Next]_vars => ChainInv'
  <1> SUFFICES ASSUME TypeInv, ChainInv, [Next]_vars PROVE ChainInv'
    OBVIOUS
  <1>0. TypeOK /\ Shape
    BY DEF TypeInv
  <1>1. CASE UNCHANGED vars
    BY <1>1 DEF vars, job, artifacts, tasks, api, history, ChainInv, OneCarrier,
                Behind, InHand, InOrder, AtWork, Produced, Acknowledged
  <1>2. ASSUME NEW d \in Deliveries, TaskStep(d), ~raced PROVE ChainInv'
    <2>0. Behind(d) /\ InHand(d) /\ InOrder(d)
      BY <1>2 DEF ChainInv
    <2>00. \A s \in Stages : status = DoneStatus[s] => Produced(s)
      BY <1>2 DEF ChainInv
    <2> USE DEF Diarize, Transcribe, Translate, Synthesize, SyncAv, Package, Stages
    <2>1. CASE StartPipeline(d)
      <3>1. /\ pc[d] = "queued" /\ pc'[d] = "returned" /\ stage'[d] = 0
            /\ \A e \in Deliveries \ {d} : pc'[e] = pc[e]
            /\ UNCHANGED op /\ status' = status
        BY <2>1, <1>0 DEF StartPipeline, Goto, TypeOK, job, api
      <3>2. Behind(d)' /\ InHand(d)' /\ InOrder(d)'
        BY <3>1 DEF Behind, InHand, InOrder, AtWork, Produced
      <3>3. \A s \in Stages : status' = DoneStatus[s] => Produced(s)'
        BY <2>1, <2>00, <3>1 DEF StartPipeline, artifacts, Produced
      <3> QED
        BY <1>2, <3>1, <3>2, <3>3, CarrierMoves
    <2>2. CASE CheckCancelled(d)
      <3>1. /\ pc[d] = "queued" /\ stage'[d] = stage[d] /\ stage[d] \in Stages
            /\ pc'[d] = IF status = "cancelled" THEN "returned" ELSE "entered"
            /\ \A e \in Deliveries \ {d} : pc'[e] = pc[e]
            /\ UNCHANGED op /\ status' = status /\ UNCHANGED artifacts
        BY <2>2, <1>0 DEF CheckCancelled, Goto, TypeOK, job, api
      <3>2. Behind(d)' /\ InHand(d)' /\ InOrder(d)'
        BY <3>1, <2>0 DEF Behind, InHand, InOrder, AtWork, Produced, artifacts
      <3>3. \A s \in Stages : status' = DoneStatus[s] => Produced(s)'
        BY <2>00, <3>1 DEF artifacts, Produced
      <3> QED
        BY <1>2, <3>1, <3>2, <3>3, CarrierMoves
    <2>3. CASE CheckDone(d)
      <3>1. /\ pc[d] = "entered" /\ stage'[d] = stage[d] /\ stage[d] \in Stages
            /\ pc'[d] = IF StageDone(status, stage[d]) THEN "returned" ELSE "starting"
            /\ \A e \in Deliveries \ {d} : pc'[e] = pc[e]
            /\ UNCHANGED op /\ status' = status /\ UNCHANGED artifacts
        BY <2>3, <1>0 DEF CheckDone, Goto, TypeOK, Shape, job, api
      <3>2. StageDone(status, stage[d]) => Produced(stage[d])
        BY <3>1, <2>00, ProducedDown DEF StageDone
      <3>3. Behind(d)' /\ InHand(d)' /\ InOrder(d)'
        BY <3>1, <3>2, <2>0 DEF Behind, InHand, InOrder, AtWork, Produced, artifacts
      <3>4. \A s \in Stages : status' = DoneStatus[s] => Produced(s)'
        BY <2>00, <3>1 DEF artifacts, Produced
      <3> QED
        BY <1>2, <3>1, <3>3, <3>4, CarrierMoves
    <2>4. CASE Begin(d)
      <3>1. /\ pc[d] = "starting" /\ stage'[d] = stage[d] /\ stage[d] \in Stages
            /\ pc'[d] = "reading"
            /\ \A e \in Deliveries \ {d} : pc'[e] = pc[e]
            /\ UNCHANGED op /\ status' = InFlightStatus[stage[d]] /\ UNCHANGED artifacts
        BY <2>4, <1>0 DEF Begin, Goto, TypeOK, Shape, api
      <3>2. Behind(d)' /\ InHand(d)' /\ InOrder(d)'
        BY <3>1, <2>0 DEF Behind, InHand, InOrder, AtWork, Produced, artifacts
      <3>3. \A s \in Stages : status' = DoneStatus[s] => Produced(s)'
        BY <3>1, DoneIsNotOther
      <3> QED
        BY <1>2, <3>1, <3>2, <3>3, CarrierMoves
    <2>5. CASE ReadInput(d)
      <3>1. /\ pc[d] = "reading" /\ stage'[d] = stage[d] /\ stage[d] \in Stages
            /\ pc'[d] = "calling" /\ out'[d] = Input(stage[d])
            /\ \A e \in Deliveries \ {d} : pc'[e] = pc[e]
            /\ UNCHANGED op /\ status' = status /\ UNCHANGED artifacts
        BY <2>5, <1>0 DEF ReadInput, Hold, TypeOK, Shape, job, api
      <3>2. Produced(stage[d] - 1)
        BY <3>1, <2>0 DEF Behind
      <3>3. InHand(d)'
        BY <3>1, <3>2 DEF InHand, Input, Produced
      <3>4. Behind(d)' /\ InOrder(d)'
        BY <3>1, <3>2, <2>0 DEF Behind, InOrder, AtWork, Produced, artifacts
      <3>5. \A s \in Stages : status' = DoneStatus[s] => Produced(s)'
        BY <2>00, <3>1 DEF artifacts, Produced
      <3> QED
        BY <1>2, <3>1, <3>3, <3>4, <3>5, CarrierMoves
    <2>6. CASE RetryTask(d)
      <3>1. CASE PublishNoAck(d, stage[d], attempt[d] + 1)
        BY <3>1, RacedIsFree DEF PublishNoAck
      <3>2. CASE PublishAndAck(d, stage[d], attempt[d] + 1)
        <4>1. /\ pc[d] = "calling" /\ stage'[d] = stage[d] /\ stage[d] \in Stages
              /\ pc'[d] = "queued"
              /\ \A e \in Deliveries \ {d} : pc'[e] = pc[e]
              /\ UNCHANGED op /\ status' = status /\ UNCHANGED artifacts
          BY <2>6, <3>2, <1>0 DEF RetryTask, PublishAndAck, Become, TypeOK, job, api
        <4>2. Behind(d)' /\ InHand(d)' /\ InOrder(d)'
          BY <4>1, <2>0 DEF Behind, InHand, InOrder, AtWork, Produced, artifacts
        <4>3. \A s \in Stages : status' = DoneStatus[s] => Produced(s)'
          BY <2>00, <4>1 DEF artifacts, Produced
        <4> QED
          BY <1>2, <4>1, <4>2, <4>3, CarrierMoves
      <3> QED
        BY <2>6, <3>1, <3>2 DEF RetryTask, Publish
    <2>7. CASE \E error \in Errors \ {"lost"} : FailTask(d, error)
      <3>1. /\ pc[d] = "calling" /\ stage'[d] = stage[d] /\ stage[d] \in Stages
            /\ pc'[d] = "failing"
            /\ \A e \in Deliveries \ {d} : pc'[e] = pc[e]
            /\ UNCHANGED op /\ status' = status /\ UNCHANGED artifacts
        BY <2>7, <1>0 DEF FailTask, Hold, TypeOK, Shape, job, api
      <3>2. Behind(d)' /\ InHand(d)' /\ InOrder(d)'
        BY <3>1, <2>0 DEF Behind, InHand, InOrder, AtWork, Produced, artifacts, Acknowledged
      <3>3. \A s \in Stages : status' = DoneStatus[s] => Produced(s)'
        BY <2>00, <3>1 DEF artifacts, Produced
      <3> QED
        BY <1>2, <3>1, <3>2, <3>3, CarrierMoves
    <2>8. CASE MarkFailed(d)
      <3>1. /\ pc[d] = "failing" /\ stage[d] \in Stages
            /\ \/ pc'[d] = "idle"
               \/ ~Acknowledged(d) /\ pc'[d] = "queued" /\ stage'[d] = stage[d]
            /\ \A e \in Deliveries \ {d} : pc'[e] = pc[e]
            /\ UNCHANGED op /\ status' = "failed" /\ UNCHANGED artifacts
        BY <2>8, <1>0
        DEF MarkFailed, Discard, Redeliver, Become, TypeOK, Shape, api
      <3>2. Behind(d)' /\ InHand(d)' /\ InOrder(d)'
        BY <3>1, <2>0 DEF Behind, InHand, InOrder, AtWork, Produced, artifacts
      <3>3. \A s \in Stages : status' = DoneStatus[s] => Produced(s)'
        BY <3>1, DoneIsNotOther
      <3> QED
        BY <1>2, <3>1, <3>2, <3>3, CarrierMoves
    <2>9. CASE PublishNext(d)
      <3>1. CASE PublishNoAck(d, stage[d] + 1, 0)
        BY <3>1, RacedIsFree DEF PublishNoAck
      <3>2. CASE PublishAndAck(d, stage[d] + 1, 0)
        <4>1. /\ pc[d] = "returned" /\ stage'[d] = stage[d] + 1 /\ stage[d] \in 0..6
              /\ pc'[d] = "queued"
              /\ \A e \in Deliveries \ {d} : pc'[e] = pc[e]
              /\ UNCHANGED op /\ status' = status /\ UNCHANGED artifacts
          BY <2>9, <3>2, <1>0 DEF PublishNext, PublishAndAck, Become, TypeOK, job, api
        <4>2. Behind(d)' /\ InHand(d)' /\ InOrder(d)'
          BY <4>1, <2>0 DEF Behind, InHand, InOrder, AtWork, Produced, artifacts
        <4>3. \A s \in Stages : status' = DoneStatus[s] => Produced(s)'
          BY <2>00, <4>1 DEF artifacts, Produced
        <4> QED
          BY <1>2, <4>1, <4>2, <4>3, CarrierMoves
      <3> QED
        BY <2>9, <3>1, <3>2 DEF PublishNext, Publish
    <2>10. CASE EndChain(d)
      <3>1. /\ pc[d] = "returned" /\ pc'[d] = "idle"
            /\ \A e \in Deliveries \ {d} : pc'[e] = pc[e]
            /\ UNCHANGED op /\ status' = status /\ UNCHANGED artifacts
        BY <2>10, <1>0 DEF EndChain, Discard, Become, TypeOK, job, api
      <3>2. Behind(d)' /\ InHand(d)' /\ InOrder(d)'
        BY <3>1 DEF Behind, InHand, InOrder, AtWork
      <3>3. \A s \in Stages : status' = DoneStatus[s] => Produced(s)'
        BY <2>00, <3>1 DEF artifacts, Produced
      <3> QED
        BY <1>2, <3>1, <3>2, <3>3, CarrierMoves
    <2>11. CASE DiarizeReport(d)
      <3>1. /\ pc[d] = "calling" /\ stage'[d] = 1
            /\ pc'[d] = "returned" /\ diarized'
            /\ \A e \in Deliveries \ {d} : pc'[e] = pc[e]
            /\ UNCHANGED op /\ status' = DoneStatus[1]
        BY <2>11, <1>0 DEF DiarizeReport, Hold, TypeOK, api
      <3>2. Produced(1)'
        BY <3>1 DEF Produced
      <3>3. Behind(d)' /\ InHand(d)' /\ InOrder(d)'
        BY <3>1, <3>2 DEF Behind, InHand, InOrder, AtWork
      <3>4. ASSUME NEW s \in Stages, status' = DoneStatus[s] PROVE Produced(s)'
        <4>1. s = 1
          <5>1. 1 \in Stages /\ DoneStatus[s] = DoneStatus[1]
            BY <3>1, <3>4
          <5> QED
            BY <5>1, DoneInjective
        <4> QED
          BY <3>2, <4>1
      <3> QED
        BY <1>2, <3>1, <3>3, <3>4, CarrierMoves
    <2>12. CASE TranscribePersist(d)
      <3>1. /\ pc[d] = "calling" /\ stage[d] = 2 /\ stage'[d] = 2
            /\ pc'[d] = "reporting"
            /\ \A e \in Deliveries \ {d} : pc'[e] = pc[e]
            /\ UNCHANGED op /\ status' = status
        BY <2>12, <1>0 DEF TranscribePersist, Hold, TypeOK, job, api
      <3>2. Produced(2)'
        <4>1. out[d] = "labelled" /\ diarized
          BY <3>1, <2>0 DEF Behind, InHand, Produced
        <4>2. text' = "source" /\ speakers' /\ diarized'
          BY <4>1, <2>12 DEF TranscribePersist
        <4> QED
          BY <4>2 DEF Produced
      <3>3. status \in {InFlightStatus[2], "cancelled", "failed"}
        BY <3>1, <2>0 DEF InOrder, AtWork
      <3>4. Behind(d)' /\ InHand(d)' /\ InOrder(d)'
        BY <3>1, <3>2, <3>3, ProducedDown DEF Behind, InHand, InOrder, AtWork, Produced
      <3>5. \A s \in Stages : status' = DoneStatus[s] => Produced(s)'
        BY <3>1, <3>3, DoneIsNotOther
      <3> QED
        BY <1>2, <3>1, <3>4, <3>5, CarrierMoves
    <2>13. CASE TranslatePersist(d)
      <3>1. /\ pc[d] = "calling" /\ stage[d] = 3 /\ stage'[d] = 3
            /\ pc'[d] = "reporting"
            /\ \A e \in Deliveries \ {d} : pc'[e] = pc[e]
            /\ UNCHANGED op /\ status' = status
        BY <2>13, <1>0 DEF TranslatePersist, Hold, TypeOK, job, api
      <3>2. Produced(3)'
        BY <2>13, <2>0 DEF TranslatePersist, Translated, Behind, InHand, Produced
      <3>3. status \in {InFlightStatus[3], "cancelled", "failed"}
        BY <3>1, <2>0 DEF InOrder, AtWork
      <3>4. Behind(d)' /\ InHand(d)' /\ InOrder(d)'
        BY <3>1, <3>2, <3>3 DEF Behind, InHand, InOrder, AtWork, Produced
      <3>5. \A s \in Stages : status' = DoneStatus[s] => Produced(s)'
        BY <3>1, <3>3, DoneIsNotOther
      <3> QED
        BY <1>2, <3>1, <3>4, <3>5, CarrierMoves
    <2>14. CASE SynthesizeReport(d)
      <3>1. /\ pc[d] = "calling" /\ stage'[d] = 4
            /\ pc'[d] = "returned"
            /\ \A e \in Deliveries \ {d} : pc'[e] = pc[e]
            /\ UNCHANGED op /\ status' = DoneStatus[4]
        BY <2>14, <1>0 DEF SynthesizeReport, Hold, TypeOK, api
      <3>2. Produced(4)'
        BY <2>14, <2>0 DEF SynthesizeReport, Behind, InHand, Produced
      <3>3. Behind(d)' /\ InHand(d)' /\ InOrder(d)'
        BY <3>1, <3>2 DEF Behind, InHand, InOrder, AtWork
      <3>4. ASSUME NEW s \in Stages, status' = DoneStatus[s] PROVE Produced(s)'
        <4>1. s = 4
          <5>1. 4 \in Stages /\ DoneStatus[s] = DoneStatus[4]
            BY <3>1, <3>4
          <5> QED
            BY <5>1, DoneInjective
        <4> QED
          BY <3>2, <4>1
      <3> QED
        BY <1>2, <3>1, <3>3, <3>4, CarrierMoves
    <2>15. CASE UploadVideo(d)
      <3>1. /\ pc[d] = "calling" /\ stage[d] = 5 /\ stage'[d] = 5
            /\ pc'[d] = "storing"
            /\ \A e \in Deliveries \ {d} : pc'[e] = pc[e]
            /\ UNCHANGED op /\ status' = status
        BY <2>15, <1>0 DEF UploadVideo, Hold, TypeOK, job, api
      <3>2. Produced(4)' /\ video' = "translated"
        BY <2>15, <2>0 DEF UploadVideo, Behind, InHand, Produced
      <3>3. status \in {InFlightStatus[5], "cancelled", "failed"}
        BY <3>1, <2>0 DEF InOrder, AtWork
      <3>4. Behind(d)' /\ InHand(d)' /\ InOrder(d)'
        BY <3>1, <3>2, <3>3 DEF Behind, InHand, InOrder, AtWork
      <3>5. \A s \in Stages : status' = DoneStatus[s] => Produced(s)'
        BY <3>1, <3>3, DoneIsNotOther
      <3> QED
        BY <1>2, <3>1, <3>4, <3>5, CarrierMoves
    <2>16. CASE SaveVideoKey(d)
      <3>1. /\ pc[d] = "storing" /\ stage[d] = 5 /\ stage'[d] = 5
            /\ pc'[d] = "returned"
            /\ \A e \in Deliveries \ {d} : pc'[e] = pc[e]
            /\ UNCHANGED op /\ status' = status
        BY <2>16, <1>0 DEF SaveVideoKey, Goto, TypeOK, job, api
      <3>2. Produced(5)'
        BY <2>16, <2>0 DEF SaveVideoKey, Behind, InHand, Produced
      <3>3. status \in {InFlightStatus[5], "cancelled", "failed"}
        BY <3>1, <2>0 DEF InOrder, AtWork
      <3>4. Behind(d)' /\ InHand(d)' /\ InOrder(d)'
        BY <3>1, <3>2, <3>3 DEF Behind, InHand, InOrder, AtWork
      <3>5. \A s \in Stages : status' = DoneStatus[s] => Produced(s)'
        BY <3>1, <3>3, DoneIsNotOther
      <3> QED
        BY <1>2, <3>1, <3>4, <3>5, CarrierMoves
    <2>17. CASE UploadOutputs(d)
      <3>1. /\ pc[d] = "calling" /\ stage[d] = 6 /\ stage'[d] = 6
            /\ pc'[d] = "storing"
            /\ \A e \in Deliveries \ {d} : pc'[e] = pc[e]
            /\ UNCHANGED op /\ status' = status
        BY <2>17, <1>0 DEF UploadOutputs, Hold, TypeOK, job, api
      <3>2. Produced(5)' /\ subtitles' = "translated"
        BY <2>17, <2>0 DEF UploadOutputs, Behind, InHand, Produced
      <3>3. status \in {InFlightStatus[6], "cancelled", "failed"}
        BY <3>1, <2>0 DEF InOrder, AtWork
      <3>4. Behind(d)' /\ InHand(d)' /\ InOrder(d)'
        BY <3>1, <3>2, <3>3 DEF Behind, InHand, InOrder, AtWork
      <3>5. \A s \in Stages : status' = DoneStatus[s] => Produced(s)'
        BY <3>1, <3>3, DoneIsNotOther
      <3> QED
        BY <1>2, <3>1, <3>4, <3>5, CarrierMoves
    <2>18. CASE SaveOutputKeys(d)
      <3>1. /\ pc[d] = "storing" /\ stage[d] = 6 /\ stage'[d] = 6
            /\ pc'[d] = "reporting"
            /\ \A e \in Deliveries \ {d} : pc'[e] = pc[e]
            /\ UNCHANGED op /\ status' = status
        BY <2>18, <1>0 DEF SaveOutputKeys, Goto, TypeOK, job, api
      <3>2. Produced(6)'
        BY <2>18, <2>0 DEF SaveOutputKeys, Behind, InHand, Produced
      <3>3. status \in {InFlightStatus[6], "cancelled", "failed"}
        BY <3>1, <2>0 DEF InOrder, AtWork
      <3>4. Behind(d)' /\ InHand(d)' /\ InOrder(d)'
        BY <3>1, <3>2, <3>3 DEF Behind, InHand, InOrder, AtWork, Produced
      <3>5. \A s \in Stages : status' = DoneStatus[s] => Produced(s)'
        BY <3>1, <3>3, DoneIsNotOther
      <3> QED
        BY <1>2, <3>1, <3>4, <3>5, CarrierMoves
    <2>19. CASE Report(d)
      <3>1. /\ pc[d] = "reporting" /\ stage'[d] = stage[d] /\ stage[d] \in Stages
            /\ pc'[d] = "returned"
            /\ \A e \in Deliveries \ {d} : pc'[e] = pc[e]
            /\ UNCHANGED op /\ status' = DoneStatus[stage[d]] /\ UNCHANGED artifacts
        BY <2>19, <1>0 DEF Report, Goto, TypeOK, Shape, api
      <3>2. Produced(stage[d])'
        BY <3>1, <2>0 DEF Behind, Produced, artifacts
      <3>3. Behind(d)' /\ InHand(d)' /\ InOrder(d)'
        BY <3>1, <3>2 DEF Behind, InHand, InOrder, AtWork, Produced
      <3>4. ASSUME NEW s \in Stages, status' = DoneStatus[s] PROVE Produced(s)'
        <4>1. s = stage[d]
          BY <3>1, <3>4, DoneInjective
        <4> QED
          BY <3>1, <3>2, <4>1 DEF Produced
      <3> QED
        BY <1>2, <3>1, <3>3, <3>4, CarrierMoves
    <2> QED
      BY <1>2, <2>1, <2>2, <2>3, <2>4, <2>5, <2>6, <2>7, <2>8, <2>9, <2>10,
         <2>11, <2>12, <2>13, <2>14, <2>15, <2>16, <2>17, <2>18, <2>19
      DEF TaskStep, StageWork
  <1>3. ASSUME NEW d \in Deliveries, TaskFault(d), ~raced PROVE ChainInv'
    <2>0. Behind(d) /\ InHand(d) /\ InOrder(d)
      BY <1>3 DEF ChainInv
    <2>00. \A s \in Stages : status = DoneStatus[s] => Produced(s)
      BY <1>3 DEF ChainInv
    <2> USE DEF Stages
    <2>1. CASE PipelineNotPublished(d)
      <3>1. /\ pc[d] = "returned" /\ pc'[d] = "idle"
            /\ \A e \in Deliveries \ {d} : pc'[e] = pc[e]
            /\ UNCHANGED op /\ status' = "failed"
        BY <2>1, <1>0 DEF PipelineNotPublished, Discard, Become, TypeOK, api
      <3>2. Behind(d)' /\ InHand(d)' /\ InOrder(d)'
        BY <3>1 DEF Behind, InHand, InOrder, AtWork
      <3>3. \A s \in Stages : status' = DoneStatus[s] => Produced(s)'
        BY <3>1, DoneIsNotOther
      <3> QED
        BY <1>3, <3>1, <3>2, <3>3, CarrierMoves
    <2>2. CASE Crash(d)
      <3>1. /\ pc[d] \notin {"idle", "queued"}
            /\ \/ pc'[d] = "idle"
               \/ ~Acknowledged(d) /\ pc'[d] = "queued" /\ stage'[d] = stage[d]
            /\ \A e \in Deliveries \ {d} : pc'[e] = pc[e]
            /\ UNCHANGED op /\ status' = status /\ UNCHANGED artifacts
        BY <2>2, <1>0
        DEF Crash, Executing, Discard, Redeliver, Become, TypeOK, job, api
      <3>2. stage[d] \in 0..6
        BY <1>0 DEF TypeOK
      <3>3. Behind(d)'
        <4>1. ~Acknowledged(d) => status = "cancelled" \/ Produced(stage[d] - 1)
          BY <3>1, <3>2, <2>0, ProducedDown DEF Behind
        <4> QED
          BY <3>1, <4>1 DEF Behind, Produced, artifacts
      <3>4. InHand(d)' /\ InOrder(d)'
        BY <3>1 DEF InHand, InOrder, AtWork
      <3>5. \A s \in Stages : status' = DoneStatus[s] => Produced(s)'
        BY <2>00, <3>1 DEF artifacts, Produced
      <3> QED
        BY <1>3, <3>1, <3>3, <3>4, <3>5, CarrierMoves
    <2>3. CASE LoseChild(d)
      <3>1. /\ pc[d] \notin {"idle", "queued"}
            /\ \/ pc'[d] = "idle"
               \/ pc'[d] = "failing" /\ out'[d] = "lost"
            /\ \A e \in Deliveries \ {d} : pc'[e] = pc[e]
            /\ UNCHANGED op /\ status' = status /\ UNCHANGED artifacts
        BY <2>3, <1>0
        DEF LoseChild, Executing, Discard, Hold, Become, TypeOK, job, api
      <3>2. Behind(d)' /\ InHand(d)' /\ InOrder(d)'
        BY <3>1 DEF Behind, InHand, InOrder, AtWork, Acknowledged
      <3>3. \A s \in Stages : status' = DoneStatus[s] => Produced(s)'
        BY <2>00, <3>1 DEF artifacts, Produced
      <3> QED
        BY <1>3, <3>1, <3>2, <3>3, CarrierMoves
    <2>4. CASE LoseMessage(d)
      <3>1. /\ pc[d] = "queued" /\ pc'[d] = "idle"
            /\ \A e \in Deliveries \ {d} : pc'[e] = pc[e]
            /\ UNCHANGED op /\ status' = status /\ UNCHANGED artifacts
        BY <2>4, <1>0 DEF LoseMessage, Discard, Become, TypeOK, job, api
      <3>2. Behind(d)' /\ InHand(d)' /\ InOrder(d)'
        BY <3>1 DEF Behind, InHand, InOrder, AtWork
      <3>3. \A s \in Stages : status' = DoneStatus[s] => Produced(s)'
        BY <2>00, <3>1 DEF artifacts, Produced
      <3> QED
        BY <1>3, <3>1, <3>2, <3>3, CarrierMoves
    <2> QED
      BY <1>3, <2>1, <2>2, <2>3, <2>4 DEF TaskFault
  <1>4. ASSUME NEW r \in Requests, Request(r), ~raced PROVE ChainInv'
    <2>0. OneCarrier /\ \A d \in Deliveries : Behind(d) /\ InHand(d) /\ InOrder(d)
      BY <1>4 DEF ChainInv
    <2>00. \A s \in Stages : status = DoneStatus[s] => Produced(s)
      BY <1>4 DEF ChainInv
    <2>1. CASE DispatchPipeline(r)
      <3>1. PICK d \in Deliveries : pc[d] = "idle" /\ Become(d, "queued", 0, 0)
        BY <2>1 DEF DispatchPipeline
      <3>2. /\ pc'[d] = "queued" /\ stage'[d] = 0
            /\ \A e \in Deliveries \ {d} : pc'[e] = "idle"
            /\ \A q \in Requests : op'[q] # "dispatching"
            /\ status' = status /\ UNCHANGED artifacts
        BY <2>1, <3>1, <2>0, <1>0
        DEF DispatchPipeline, Become, OneCarrier, TypeOK, job
      <3>3. OneCarrier'
        BY <3>2 DEF OneCarrier
      <3>4. \A e \in Deliveries : (Behind(e) /\ InHand(e) /\ InOrder(e))'
        <4>1. (Behind(d) /\ InHand(d) /\ InOrder(d))'
          BY <3>2 DEF Behind, InHand, InOrder, AtWork, Produced, Diarize,
                      Transcribe, Translate, Synthesize, SyncAv, Package
        <4>2. ASSUME NEW e \in Deliveries, e # d
              PROVE  (Behind(e) /\ InHand(e) /\ InOrder(e))'
          BY <3>2, <4>2 DEF Behind, InHand, InOrder, AtWork
        <4> QED
          BY <4>1, <4>2
      <3>5. \A s \in Stages : status' = DoneStatus[s] => Produced(s)'
        BY <2>00, <3>2 DEF artifacts, Produced
      <3> QED
        BY <3>3, <3>4, <3>5 DEF ChainInv
    <2>2. CASE RetryCommit(r)
      <3>1. CASE Carriers # {}
        BY <2>2, <3>1, RacedIsFree DEF RetryCommit
      <3>2. CASE Carriers = {}
        <4>1. /\ \A d \in Deliveries : pc'[d] = "idle"
              /\ \A q \in Requests \ {r} : op'[q] # "dispatching"
              /\ status' = "queued"
          BY <2>2, <3>2, <1>0 DEF RetryCommit, Carriers, TypeOK, tasks
        <4>2. OneCarrier'
          BY <4>1 DEF OneCarrier
        <4>3. \A s \in Stages : status' = DoneStatus[s] => Produced(s)'
          BY <4>1, DoneIsNotOther
        <4> QED
          BY <4>1, <4>2, <4>3, NobodyMoves
      <3> QED
        BY <3>1, <3>2
    <2>3. CASE EnqueueFails(r)
      <3>1. /\ \A d \in Deliveries : pc'[d] = "idle"
            /\ \A q \in Requests : op'[q] # "dispatching"
            /\ status' = "failed"
        BY <2>3, <2>0, <1>0 DEF EnqueueFails, OneCarrier, TypeOK, tasks
      <3>2. OneCarrier'
        BY <3>1 DEF OneCarrier
      <3>3. \A s \in Stages : status' = DoneStatus[s] => Produced(s)'
        BY <3>1, DoneIsNotOther
      <3> QED
        BY <3>1, <3>2, <3>3, NobodyMoves
    <2>4. CASE CancelCommit(r)
      <3>1. /\ UNCHANGED <<pc, stage, out>> /\ UNCHANGED artifacts
            /\ \A q \in Requests : op'[q] = "dispatching" => op[q] = "dispatching"
            /\ status' = "cancelled"
        BY <2>4, <1>0 DEF CancelCommit, tasks, TypeOK
      <3>2. OneCarrier'
        BY <3>1, <2>0 DEF OneCarrier
      <3>3. \A d \in Deliveries : (Behind(d) /\ InHand(d) /\ InOrder(d))'
        BY <3>1, <2>0
        DEF Behind, InHand, InOrder, AtWork, Acknowledged, Produced, artifacts
      <3>4. \A s \in Stages : status' = DoneStatus[s] => Produced(s)'
        BY <3>1, DoneIsNotOther
      <3> QED
        BY <3>2, <3>3, <3>4 DEF ChainInv
    <2>5. CASE RetryRead(r) \/ CancelRead(r) \/ ApiCrash(r)
      <3>1. /\ UNCHANGED <<pc, stage, out>> /\ UNCHANGED artifacts
            /\ \A q \in Requests : op'[q] = "dispatching" => op[q] = "dispatching"
            /\ status' = status
        BY <2>5, <1>0 DEF RetryRead, CancelRead, ApiCrash, tasks, job, TypeOK
      <3>2. OneCarrier'
        BY <3>1, <2>0 DEF OneCarrier
      <3>3. \A d \in Deliveries : (Behind(d) /\ InHand(d) /\ InOrder(d))'
        BY <3>1, <2>0
        DEF Behind, InHand, InOrder, AtWork, Acknowledged, Produced, artifacts
      <3>4. \A s \in Stages : status' = DoneStatus[s] => Produced(s)'
        BY <3>1, <2>00 DEF Produced, artifacts
      <3> QED
        BY <3>2, <3>3, <3>4 DEF ChainInv
    <2> QED
      BY <1>4, <2>1, <2>2, <2>3, <2>4, <2>5 DEF Request, RequestEnd
  <1>5. ASSUME RecoverSelect, ~raced PROVE ChainInv'
    BY <1>5
    DEF RecoverSelect, job, artifacts, tasks, api, ChainInv, OneCarrier, Behind,
        InHand, InOrder, AtWork, Produced, Acknowledged, history
  <1>6. ASSUME RecoverCommit, ~raced PROVE ChainInv'
    <2>1. CASE ~Sweepable(status)
      BY <1>6, <2>1, RacedIsFree DEF RecoverCommit
    <2>2. CASE Sweepable(status)
      <3>0. OneCarrier /\ \A d \in Deliveries : Behind(d) /\ InHand(d) /\ InOrder(d)
        BY <1>6 DEF ChainInv
      <3>1. UNCHANGED <<pc, stage, out, op>> /\ UNCHANGED artifacts
        BY <1>6 DEF RecoverCommit, tasks, api
      <3>2. status # "cancelled" /\ status' = "failed"
        BY <1>6, <2>2, SweepableIsNotCancelled DEF RecoverCommit, Sweepable
      <3>3. \A d \in Deliveries : (Behind(d) /\ InHand(d) /\ InOrder(d))'
        BY <3>0, <3>1, <3>2
        DEF Behind, InHand, InOrder, AtWork, Acknowledged, Produced, artifacts
      <3>4. \A s \in Stages : status' = DoneStatus[s] => Produced(s)'
        BY <3>2, DoneIsNotOther
      <3> QED
        BY <3>0, <3>1, <3>3, <3>4 DEF ChainInv, OneCarrier
    <2> QED
      BY <2>1, <2>2
  <1>7. CASE raced
    <2>1. raced' = TRUE
      BY <1>7, <1>0
      DEF TypeOK, Next, vars, history, TaskStep, StageWork, TaskFault, Request,
          RequestEnd, StartPipeline, CheckCancelled, CheckDone, Begin, ReadInput,
          RetryTask, FailTask, MarkFailed, PublishNext, Publish, PublishAndAck,
          PublishNoAck, EndChain, DiarizeReport, TranscribePersist,
          TranslatePersist, SynthesizeReport, UploadVideo, SaveVideoKey,
          UploadOutputs, SaveOutputKeys, Report, PipelineNotPublished, Crash,
          LoseChild, LoseMessage, DispatchPipeline, RetryCommit, CancelCommit,
          EnqueueFails, RetryRead, CancelRead, ApiCrash, RecoverSelect,
          RecoverCommit
    <2> QED
      BY <2>1, RacedIsFree
  <1> QED
    BY <1>1, <1>2, <1>3, <1>4, <1>5, <1>6, <1>7 DEF Next

\* The chain's invariant holds of every behaviour: unless raced, the job has
\* one carrier, with what it needs behind it and in its hands.
THEOREM ChainAlways == Spec => [](TypeInv /\ ChainInv)
  <1>1. Init => ChainInv
    <2> SUFFICES ASSUME Init PROVE ChainInv
      OBVIOUS
    <2>1. PICK u \in Requests :
            op = [r \in Requests |-> IF r = u THEN "dispatching" ELSE "idle"]
      BY DEF Init
    <2>2. \A d \in Deliveries : pc[d] = "idle"
      BY DEF Init
    <2>3. OneCarrier
      BY <2>1, <2>2 DEF OneCarrier
    <2>4. \A d \in Deliveries : Behind(d) /\ InHand(d) /\ InOrder(d)
      BY <2>2, IdleIsFine
    <2>5. \A s \in Stages : status = DoneStatus[s] => Produced(s)
      BY DoneIsNotOther DEF Init
    <2> QED
      BY <2>3, <2>4, <2>5 DEF ChainInv
  <1> QED
    BY <1>1, InitTypeInv, NextTypeInv, NextChainInv, PTL DEF Spec

\* As long as no two carriers overlapped, a completed job has every output,
\* each made from the one before, for any number of messages, requests, retries
\* and crashes.
THEOREM CompletedWhole == Spec => []CompletedIsWhole
  <1>1. Package \in Stages /\ DoneStatus[Package] = "completed"
    BY DEF Package, Stages, DoneStatus
  <1>2. ChainInv => CompletedIsWhole
    BY <1>1 DEF ChainInv, CompletedIsWhole
  <1> QED
    BY <1>2, ChainAlways, PTL

\* Neither does a stage at work ever miss an output of the stages before it,
\* and the status it works under is its own, or tells of a cancellation or a
\* failure.
THEOREM WorkAlwaysInOrder == Spec => []WorkInOrder
  <1>1. ChainInv => WorkInOrder
    BY DEF ChainInv, WorkInOrder
  <1> QED
    BY <1>1, ChainAlways, PTL

\* What a stage makes is stored by a step of the stage at work, and by nothing
\* else: no request, no sweep, no fault and no publishing touches it.
LEMMA MadeAtWork ==
    ASSUME [Next]_vars, artifacts' # artifacts
    PROVE  \E d \in Deliveries : pc[d] \in {"calling", "storing"}
  <1>1. ASSUME NEW d \in Deliveries, TaskStep(d), pc[d] \notin {"calling", "storing"}
        PROVE  artifacts' = artifacts
    <2>1. ~StageWork(d) \/ Report(d)
      BY <1>1 DEF StageWork, DiarizeReport, TranscribePersist, TranslatePersist,
                  SynthesizeReport, UploadVideo, SaveVideoKey, UploadOutputs, SaveOutputKeys
    <2> QED
      BY <1>1, <2>1 DEF TaskStep, StartPipeline, CheckCancelled, CheckDone, Begin, ReadInput,
                        RetryTask, FailTask, MarkFailed, PublishNext, EndChain, Report
  <1>2. ASSUME NEW d \in Deliveries, TaskFault(d) PROVE artifacts' = artifacts
    BY <1>2 DEF TaskFault, PipelineNotPublished, Crash, LoseChild, LoseMessage
  <1>3. ASSUME NEW r \in Requests, Request(r) PROVE artifacts' = artifacts
    BY <1>3 DEF Request, RequestEnd, DispatchPipeline, EnqueueFails, RetryRead, RetryCommit,
                CancelRead, CancelCommit, ApiCrash
  <1>4. CASE RecoverSelect \/ RecoverCommit \/ UNCHANGED vars
    BY <1>4 DEF RecoverSelect, RecoverCommit, vars
  <1> QED
    BY <1>1, <1>2, <1>3, <1>4 DEF Next

\* As long as no two carriers overlapped, a completed job is not at work, and so
\* nothing replaces an output that a client may be fetching.
THEOREM OutputsAlwaysStay == Spec => OutputsStay
  <1>1. \A s \in Stages : InFlightStatus[s] # "completed"
    BY DEF Stages, InFlightStatus, Diarize, Transcribe, Translate, Synthesize, SyncAv, Package
  <1>2. ASSUME TypeInv, ChainInv, [Next]_vars, status = "completed", ~raced
        PROVE  UNCHANGED artifacts
    <2>1. ASSUME NEW d \in Deliveries PROVE pc[d] \notin {"calling", "storing"}
      <3> SUFFICES ASSUME pc[d] \in {"calling", "storing"} PROVE FALSE
        OBVIOUS
      <3>1. stage[d] \in Stages
        BY <1>2 DEF TypeInv, Shape, Stages, SyncAv, Package
      <3>2. status = InFlightStatus[stage[d]]
        BY <1>2 DEF ChainInv, InOrder, AtWork
      <3> QED
        BY <1>1, <1>2, <3>1, <3>2
    <2> QED
      BY <1>2, <2>1, MadeAtWork
  <1> QED
    BY <1>2, ChainAlways, PTL DEF Spec, OutputsStay

\* CompletedDownloadable does not hold of the program; this is what does: where no
\* two carriers overlapped a completed job has both outputs to offer.
THEOREM DownloadableUnlessRaced ==
    Spec => [](status = "completed" /\ ~raced => Downloadable /\ srtKey)
  <1>1. CompletedIsWhole => (status = "completed" /\ ~raced => Downloadable /\ srtKey)
    <2>1. Package >= SyncAv /\ Package >= Package
      BY DEF Package, SyncAv
    <2> QED
      BY <2>1 DEF CompletedIsWhole, Downloadable, Produced
  <1> QED
    BY <1>1, CompletedWhole, PTL

---------------------------------------------------------------------------
(* A completed job has its subtitles, overlapping carriers or not.         *)

SubtitlesStored ==
    /\ CompletedHasSubtitles
    /\ \A d \in Deliveries : stage[d] = Package =>
          /\ pc[d] \in {"storing", "reporting"} => subtitles # "absent"
          /\ pc[d] = "reporting" => srtKey

THEOREM NextSubtitlesStored ==
    TypeInv /\ SubtitlesStored /\ [Next]_vars => SubtitlesStored'
  <1> SUFFICES ASSUME TypeInv, SubtitlesStored, [Next]_vars PROVE SubtitlesStored'
    OBVIOUS
  <1>0. TypeOK /\ Shape
    BY DEF TypeInv
  <1> USE DEF SubtitlesStored, CompletedHasSubtitles
  <1>1. CASE UNCHANGED vars
    BY <1>1 DEF vars, job, artifacts, tasks
  <1>2. ASSUME NEW d \in Deliveries, TaskStep(d) PROVE SubtitlesStored'
    <2> USE <1>0 DEF TypeOK, Shape, job, artifacts, Diarize, Transcribe, Translate,
                     Synthesize, SyncAv, Package, Stages
    <2>1. CASE StartPipeline(d) \/ CheckCancelled(d) \/ CheckDone(d)
      BY <2>1 DEF StartPipeline, CheckCancelled, CheckDone, Goto
    <2>2. CASE Begin(d)
      BY <2>2, DoneIsNotOther DEF Begin, Goto, InFlightStatus
    <2>3. CASE ReadInput(d) \/ \E error \in Errors \ {"lost"} : FailTask(d, error)
      BY <2>3 DEF ReadInput, FailTask, Hold
    <2>4. CASE RetryTask(d)
      <3>1. stage[d] \in Stages /\ attempt[d] + 1 \in 0..RetryCount
        BY <2>4, RetryCountAssumption DEF RetryTask
      <3> QED
        BY <2>4, <3>1, PublishEffect DEF RetryTask
    <2>5. CASE MarkFailed(d)
      BY <2>5 DEF MarkFailed, Discard, Redeliver, Become
    <2>6. CASE PublishNext(d)
      <3>1. stage[d] + 1 \in Stages /\ 0 \in 0..RetryCount
        BY <2>6, RetryCountAssumption DEF PublishNext
      <3> QED
        BY <2>6, <3>1, PublishEffect DEF PublishNext
    <2>7. CASE EndChain(d)
      BY <2>7 DEF EndChain, Discard, Become
    <2>8. CASE DiarizeReport(d) \/ SynthesizeReport(d)
      BY <2>8 DEF DiarizeReport, SynthesizeReport, Hold, DoneStatus
    <2>9. CASE TranscribePersist(d) \/ TranslatePersist(d) \/ UploadVideo(d)
      BY <2>9 DEF TranscribePersist, TranslatePersist, UploadVideo, Hold
    <2>10. CASE SaveVideoKey(d) \/ SaveOutputKeys(d)
      BY <2>10 DEF SaveVideoKey, SaveOutputKeys, Goto
    <2>11. CASE UploadOutputs(d)
      BY <2>11 DEF UploadOutputs, Hold, Texts
    <2>12. CASE Report(d)
      <3>1. CASE stage[d] = Package
        BY <2>12, <3>1 DEF Report, Goto
      <3>2. CASE stage[d] # Package
        BY <2>12, <3>2 DEF Report, Goto, DoneStatus
      <3> QED
        BY <3>1, <3>2
    <2> QED
      BY <1>2, <2>1, <2>2, <2>3, <2>4, <2>5, <2>6, <2>7, <2>8, <2>9, <2>10,
         <2>11, <2>12
      DEF TaskStep, StageWork
  <1>3. ASSUME NEW d \in Deliveries, TaskFault(d) PROVE SubtitlesStored'
    <2> USE <1>0 DEF TypeOK, job, artifacts, Package
    <2>1. CASE PipelineNotPublished(d) \/ LoseMessage(d)
      BY <2>1 DEF PipelineNotPublished, LoseMessage, Discard, Become
    <2>2. CASE Crash(d)
      BY <2>2 DEF Crash, Discard, Redeliver, Become
    <2>3. CASE LoseChild(d)
      BY <2>3 DEF LoseChild, Discard, Become, Hold
    <2> QED
      BY <1>3, <2>1, <2>2, <2>3 DEF TaskFault
  <1>4. ASSUME NEW r \in Requests, Request(r) PROVE SubtitlesStored'
    <2> USE <1>0 DEF TypeOK, job, artifacts, tasks, Package
    <2>1. CASE DispatchPipeline(r)
      BY <2>1 DEF DispatchPipeline, Become
    <2>2. CASE RetryCommit(r) \/ CancelCommit(r) \/ EnqueueFails(r)
      BY <2>2 DEF RetryCommit, CancelCommit, EnqueueFails
    <2>3. CASE RetryRead(r) \/ CancelRead(r) \/ ApiCrash(r)
      BY <2>3 DEF RetryRead, CancelRead, ApiCrash
    <2> QED
      BY <1>4, <2>1, <2>2, <2>3 DEF Request, RequestEnd
  <1>5. CASE RecoverSelect \/ RecoverCommit
    BY <1>5 DEF RecoverSelect, RecoverCommit, job, artifacts, tasks
  <1> QED
    BY <1>1, <1>2, <1>3, <1>4, <1>5 DEF Next

\* The package task has stored the subtitles before it says so.
THEOREM SubtitlesAlwaysStored == Spec => []SubtitlesStored
  <1>1. Init => SubtitlesStored
    BY DEF Init, SubtitlesStored, CompletedHasSubtitles
  <1> QED
    BY <1>1, InitTypeInv, NextTypeInv, NextSubtitlesStored, PTL DEF Spec

\* The subtitles of a completed job are stored and their key is set, whatever
\* overlapped on the way.
THEOREM SubtitlesThere == Spec => []CompletedHasSubtitles
  <1>1. SubtitlesStored => CompletedHasSubtitles
    BY DEF SubtitlesStored
  <1> QED
    BY <1>1, SubtitlesAlwaysStored, PTL

---------------------------------------------------------------------------
(* A cancellation settles.                                                 *)

LEMMA FaultCounts ==
    ASSUME TypeOK, NEW kind, Fault(kind)
    PROVE  faults' # faults
  BY MaxFaultsAssumption DEF TypeOK, Fault

LEMMA CancelStep ==
    ASSUME TypeInv, [Next]_vars, status = "cancelled", Quiet, faults' = faults
    PROVE  (status' = "cancelled" /\ Quiet') \/ status' = "queued"
  <1>0. TypeOK
    BY DEF TypeInv
  <1>1. CASE UNCHANGED vars
    BY <1>1 DEF vars, job, tasks, api, Quiet
  <1>2. ASSUME NEW d \in Deliveries, TaskStep(d) PROVE status' = "cancelled" /\ Quiet'
    <2>1. pc[d] \in {"idle", "queued", "returned"}
      BY DEF Quiet
    <2>2. CASE StartPipeline(d) \/ CheckCancelled(d)
      BY <2>2, <1>0 DEF StartPipeline, CheckCancelled, Goto, Quiet, TypeOK, job, api
    <2>3. CASE PublishNext(d)
      <3>1. PublishAndAck(d, stage[d] + 1, 0)
        BY <2>3, <1>0, FaultCounts DEF PublishNext, Publish, PublishNoAck
      <3> QED
        BY <2>3, <3>1, <1>0 DEF PublishNext, PublishAndAck, Become, Quiet, TypeOK, job, api
    <2>4. CASE EndChain(d)
      BY <2>4, <1>0 DEF EndChain, Discard, Become, Quiet, TypeOK, job, api
    <2> QED
      BY <1>2, <2>1, <2>2, <2>3, <2>4
      DEF TaskStep, StageWork, CheckDone, Begin, ReadInput, RetryTask, FailTask,
          MarkFailed, DiarizeReport, TranscribePersist, TranslatePersist,
          SynthesizeReport, UploadVideo, SaveVideoKey, UploadOutputs,
          SaveOutputKeys, Report
  <1>3. ASSUME NEW d \in Deliveries, TaskFault(d) PROVE FALSE
    BY <1>0, <1>3, FaultCounts
    DEF TaskFault, PipelineNotPublished, Crash, LoseChild, LoseMessage
  <1>4. ASSUME NEW r \in Requests, Request(r)
        PROVE  (status' = "cancelled" /\ Quiet') \/ status' = "queued"
    <2>1. CASE RetryCommit(r)
      BY <2>1 DEF RetryCommit
    <2>2. CASE CancelCommit(r) \/ RetryRead(r) \/ CancelRead(r)
      BY <2>2, <1>0 DEF CancelCommit, RetryRead, CancelRead, Quiet, TypeOK, tasks, job
    <2>3. CASE EnqueueFails(r) \/ ApiCrash(r)
      BY <2>3, <1>0, FaultCounts DEF EnqueueFails, ApiCrash
    <2>4. CASE DispatchPipeline(r)
      BY <2>4 DEF DispatchPipeline, Quiet
    <2> QED
      BY <1>4, <2>1, <2>2, <2>3, <2>4 DEF Request, RequestEnd
  <1>5. CASE RecoverSelect \/ RecoverCommit
    BY <1>5, SweepableIsNotCancelled DEF RecoverSelect, RecoverCommit, Sweepable, Quiet
  <1> QED
    BY <1>1, <1>2, <1>3, <1>4, <1>5 DEF Next

\* Once what had read the row before a cancellation is through, only a retry
\* or a fault takes the job out of the cancelled status.
THEOREM CancellationSettles == Spec => CancelSettles
  <1>1. TypeInv /\ [Next]_vars =>
          [status = "cancelled" /\ Quiet /\ faults' = faults =>
              \/ status' = "cancelled" /\ Quiet'
              \/ status' = "queued"]_vars
    BY CancelStep
  <1> QED
    BY <1>1, InitTypeInv, NextTypeInv, PTL DEF Spec, CancelSettles
===========================================================================
