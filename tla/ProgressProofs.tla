-------------------------- MODULE ProgressProofs --------------------------
(***************************************************************************)
(* That the messages of Pipeline get on: every step brings a message        *)
(* nearer to its end, an execution that has begun is over some time, a      *)
(* queued job is taken, and a job that is left alone is settled for good.   *)
(***************************************************************************)
EXTENDS PipelineProofs

---------------------------------------------------------------------------
(* The distance.  The product is the only one in the model, so its facts    *)
(* are stated once, stage by stage.                                         *)

Load(s, a) == (Package - s) * (RetryCount + 1) + (RetryCount - a)

LEMMA LoadFacts ==
    ASSUME NEW s \in 0..6, NEW a \in 0..RetryCount
    PROVE  /\ Load(s, a) \in Nat
           /\ a < RetryCount => Load(s, a + 1) = Load(s, a) - 1
           /\ s < 6 => Load(s + 1, 0) < Load(s, a)
  <1> USE RetryCountAssumption DEF Load, Package
  <1>1. CASE s = 0
    BY <1>1
  <1>2. CASE s = 1
    BY <1>2
  <1>3. CASE s = 2
    BY <1>3
  <1>4. CASE s = 3
    BY <1>4
  <1>5. CASE s = 4
    BY <1>5
  <1>6. CASE s = 5
    BY <1>6
  <1>7. CASE s = 6
    BY <1>7
  <1> QED
    BY <1>1, <1>2, <1>3, <1>4, <1>5, <1>6, <1>7

LEMMA DistanceFacts ==
    ASSUME NEW s \in 0..6, NEW a \in 0..RetryCount, NEW p \in Places, p # "idle"
    PROVE  /\ Distance(p, s, a) = 8 * Load(s, a) + PlacesLeft[p]
           /\ PlacesLeft[p] \in 1..8
  BY DEF Distance, Load, PlacesLeft, Places

\* Moving to a later place of the same execution.
LEMMA NextPlace ==
    ASSUME NEW s \in 0..6, NEW a \in 0..RetryCount,
           NEW p \in Places \ {"idle"}, NEW q \in Places \ {"idle"},
           PlacesLeft[q] < PlacesLeft[p]
    PROVE  Distance(q, s, a) < Distance(p, s, a)
  BY DistanceFacts, LoadFacts

LEMMA NoMessage ==
    ASSUME NEW s \in 0..6, NEW a \in 0..RetryCount, NEW p \in Places \ {"idle"},
           NEW t, NEW b
    PROVE  Distance("idle", t, b) < Distance(p, s, a)
  <1>1. Distance("idle", t, b) = 0
    BY DEF Distance
  <1> QED
    BY <1>1, DistanceFacts, LoadFacts

LEMMA NextAttempt ==
    ASSUME NEW s \in 0..6, NEW a \in 0..RetryCount, a < RetryCount
    PROVE  Distance("queued", s, a + 1) < Distance("calling", s, a)
  <1>1. a + 1 \in 0..RetryCount /\ "queued" \in Places /\ "calling" \in Places
    BY RetryCountAssumption DEF Places
  <1>2. PlacesLeft["queued"] = 8 /\ PlacesLeft["calling"] = 4
    BY DEF PlacesLeft
  <1>3. /\ Distance("queued", s, a + 1) = 8 * Load(s, a + 1) + 8
        /\ Distance("calling", s, a) = 8 * Load(s, a) + 4
    BY <1>1, <1>2, DistanceFacts
  <1> QED
    BY <1>3, LoadFacts

LEMMA NextStage ==
    ASSUME NEW s \in 0..6, NEW a \in 0..RetryCount, s < 6
    PROVE  Distance("queued", s + 1, 0) < Distance("returned", s, a)
  <1>1. /\ s + 1 \in 0..6 /\ 0 \in 0..RetryCount
        /\ "queued" \in Places /\ "returned" \in Places
    BY RetryCountAssumption DEF Places
  <1>2. PlacesLeft["queued"] = 8 /\ PlacesLeft["returned"] = 1
    BY DEF PlacesLeft
  <1>3. /\ Distance("queued", s + 1, 0) = 8 * Load(s + 1, 0) + 8
        /\ Distance("returned", s, a) = 8 * Load(s, a) + 1
    BY <1>1, <1>2, DistanceFacts
  <1>4. Load(s + 1, 0) \in Nat /\ Load(s, a) \in Nat /\ Load(s + 1, 0) < Load(s, a)
    BY <1>1, LoadFacts
  <1> QED
    BY <1>3, <1>4

---------------------------------------------------------------------------
(* The steps of the task that executes a message.                           *)

Onward(d) == Ahead(d)' < Ahead(d)

LEMMA MovesOnward ==
    ASSUME TypeOK, NEW d \in Deliveries, pc[d] # "idle",
           NEW q \in Places \ {"idle"}, PlacesLeft[q] < PlacesLeft[pc[d]],
           Goto(d, q) \/ \E data : Hold(d, q, data)
    PROVE  Onward(d)
  <1>1. pc'[d] = q /\ stage'[d] = stage[d] /\ attempt'[d] = attempt[d]
    BY DEF Goto, Hold, TypeOK
  <1>2. Distance(q, stage[d], attempt[d]) < Distance(pc[d], stage[d], attempt[d])
    BY NextPlace DEF TypeOK
  <1> QED
    BY <1>1, <1>2 DEF Onward, Ahead

LEMMA DiscardOnward ==
    ASSUME TypeOK, NEW d \in Deliveries, pc[d] # "idle", Discard(d)
    PROVE  Onward(d)
  <1>1. pc'[d] = "idle"
    BY DEF Discard, Become, TypeOK
  <1>2. Distance("idle", stage'[d], attempt'[d]) < Distance(pc[d], stage[d], attempt[d])
    BY NoMessage DEF TypeOK
  <1> QED
    BY <1>1, <1>2 DEF Onward, Ahead

\* Without a fault, publishing replaces the message and touches no other.
LEMMA PublishReplaces ==
    ASSUME TypeOK, faults' = faults, NEW d \in Deliveries, NEW s, NEW a, Publish(d, s, a)
    PROVE  /\ Become(d, "queued", s, a)
           /\ pc'[d] = "queued" /\ stage'[d] = s /\ attempt'[d] = a
  <1>1. ~PublishNoAck(d, s, a)
    BY DEF PublishNoAck, Fault, TypeOK
  <1>2. Become(d, "queued", s, a)
    BY <1>1 DEF Publish, PublishAndAck
  <1> QED
    BY <1>2 DEF Become, TypeOK

LEMMA TaskOnward ==
    ASSUME TypeInv, faults' = faults, NEW d \in Deliveries, TaskStep(d)
    PROVE  Onward(d)
  <1>0. TypeOK /\ Shape
    BY DEF TypeInv
  <1> USE DEF PlacesLeft, Places
  <1>1. CASE StartPipeline(d)
    BY <1>1, <1>0, MovesOnward DEF StartPipeline
  <1>2. CASE CheckCancelled(d)
    <2>1. Goto(d, "returned") \/ Goto(d, "entered")
      BY <1>2 DEF CheckCancelled
    <2> QED
      BY <1>2, <2>1, <1>0, MovesOnward DEF CheckCancelled
  <1>3. CASE CheckDone(d)
    <2>1. Goto(d, "returned") \/ Goto(d, "starting")
      BY <1>3 DEF CheckDone
    <2> QED
      BY <1>3, <2>1, <1>0, MovesOnward DEF CheckDone
  <1>4. CASE Begin(d)
    BY <1>4, <1>0, MovesOnward DEF Begin
  <1>5. CASE ReadInput(d)
    BY <1>5, <1>0, MovesOnward DEF ReadInput
  <1>6. CASE RetryTask(d)
    <2>1. /\ pc[d] = "calling" /\ attempt[d] < RetryCount
          /\ pc'[d] = "queued" /\ stage'[d] = stage[d] /\ attempt'[d] = attempt[d] + 1
      BY <1>6, <1>0, PublishReplaces DEF RetryTask
    <2> QED
      BY <2>1, <1>0, NextAttempt DEF Onward, Ahead, TypeOK
  <1>7. CASE \E error \in Errors \ {"lost"} : FailTask(d, error)
    BY <1>7, <1>0, MovesOnward DEF FailTask
  <1>8. CASE MarkFailed(d)
    <2>1. pc[d] = "failing" /\ Discard(d)
      BY <1>8, <1>0 DEF MarkFailed, Fault, TypeOK
    <2> QED
      BY <2>1, <1>0, DiscardOnward
  <1>9. CASE PublishNext(d)
    <2>1. /\ pc[d] = "returned" /\ stage[d] < 6
          /\ pc'[d] = "queued" /\ stage'[d] = stage[d] + 1 /\ attempt'[d] = 0
      BY <1>9, <1>0, PublishReplaces DEF PublishNext, Package
    <2> QED
      BY <2>1, <1>0, NextStage DEF Onward, Ahead, TypeOK
  <1>10. CASE EndChain(d)
    BY <1>10, <1>0, DiscardOnward DEF EndChain
  <1>11. CASE StageWork(d)
    <2>1. CASE DiarizeReport(d) \/ SynthesizeReport(d)
      BY <2>1, <1>0, MovesOnward DEF DiarizeReport, SynthesizeReport
    <2>2. CASE TranscribePersist(d) \/ TranslatePersist(d)
      BY <2>2, <1>0, MovesOnward DEF TranscribePersist, TranslatePersist
    <2>3. CASE UploadVideo(d) \/ UploadOutputs(d)
      BY <2>3, <1>0, MovesOnward DEF UploadVideo, UploadOutputs
    <2>4. CASE SaveVideoKey(d) \/ SaveOutputKeys(d)
      BY <2>4, <1>0, MovesOnward DEF SaveVideoKey, SaveOutputKeys
    <2>5. CASE Report(d)
      BY <2>5, <1>0, MovesOnward DEF Report
    <2> QED
      BY <1>11, <2>1, <2>2, <2>3, <2>4, <2>5 DEF StageWork
  <1> QED
    BY <1>1, <1>2, <1>3, <1>4, <1>5, <1>6, <1>7, <1>8, <1>9, <1>10, <1>11 DEF TaskStep

---------------------------------------------------------------------------
(* Everybody else leaves a message alone.                                   *)

Unmoved(d) == pc'[d] = pc[d] /\ stage'[d] = stage[d] /\ attempt'[d] = attempt[d]

LEMMA TouchesOne ==
    ASSUME TypeOK, NEW c \in Deliveries, NEW d \in Deliveries, c # d,
           \/ \E p : Goto(c, p)
           \/ \E p, x : Hold(c, p, x)
           \/ \E p, s, a : Become(c, p, s, a)
    PROVE  Unmoved(d)
  BY DEF Goto, Hold, Become, Unmoved, TypeOK

LEMMA TaskAlone ==
    ASSUME TypeInv, faults' = faults, NEW c \in Deliveries, NEW d \in Deliveries,
           c # d, TaskStep(c)
    PROVE  Unmoved(d)
  <1>0. TypeOK
    BY DEF TypeInv
  <1>1. CASE StartPipeline(c) \/ CheckCancelled(c) \/ CheckDone(c) \/ Begin(c)
    BY <1>1, <1>0, TouchesOne DEF StartPipeline, CheckCancelled, CheckDone, Begin
  <1>2. CASE ReadInput(c) \/ \E error \in Errors \ {"lost"} : FailTask(c, error)
    BY <1>2, <1>0, TouchesOne DEF ReadInput, FailTask
  <1>3. CASE RetryTask(c) \/ PublishNext(c)
    <2>1. \E s, a : Become(c, "queued", s, a)
      BY <1>3, <1>0, PublishReplaces DEF RetryTask, PublishNext
    <2> QED
      BY <2>1, <1>0, TouchesOne
  <1>4. CASE MarkFailed(c) \/ EndChain(c)
    BY <1>4, <1>0, TouchesOne DEF MarkFailed, EndChain, Discard, Redeliver
  <1>5. CASE StageWork(c)
    <2>1. \E p : Goto(c, p) \/ \E x : Hold(c, p, x)
      BY <1>5 DEF StageWork, DiarizeReport, TranscribePersist, TranslatePersist,
                  SynthesizeReport, UploadVideo, SaveVideoKey, UploadOutputs,
                  SaveOutputKeys, Report
    <2> QED
      BY <2>1, <1>0, TouchesOne
  <1> QED
    BY <1>1, <1>2, <1>3, <1>4, <1>5 DEF TaskStep, Executing

LEMMA FaultsCount ==
    ASSUME TypeOK, NEW d \in Deliveries, TaskFault(d)
    PROVE  faults' # faults
  BY DEF TaskFault, PipelineNotPublished, Crash, LoseChild, LoseMessage, Fault, TypeOK

LEMMA RequestAlone ==
    ASSUME TypeOK, NEW r \in Requests, Request(r), NEW d \in Deliveries, pc[d] # "idle"
    PROVE  Unmoved(d)
  <1>1. CASE DispatchPipeline(r)
    <2>1. PICK c \in Deliveries : pc[c] = "idle" /\ Become(c, "queued", 0, 0)
      BY <1>1 DEF DispatchPipeline
    <2> QED
      BY <2>1, TouchesOne
  <1>2. CASE ~DispatchPipeline(r)
    BY <1>2 DEF Request, RequestEnd, RetryCommit, CancelCommit, EnqueueFails,
                RetryRead, CancelRead, ApiCrash, tasks, Unmoved
  <1> QED
    BY <1>1, <1>2

LEMMA OthersStay ==
    ASSUME TypeInv, [Next]_vars, faults' = faults,
           NEW d \in Deliveries, pc[d] # "idle"
    PROVE  TaskStep(d) \/ Unmoved(d)
  <1>0. TypeOK
    BY DEF TypeInv
  <1>1. ASSUME NEW c \in Deliveries, TaskStep(c) PROVE TaskStep(d) \/ Unmoved(d)
    BY <1>1, TaskAlone
  <1>2. ASSUME NEW c \in Deliveries, TaskFault(c) PROVE TaskStep(d) \/ Unmoved(d)
    BY <1>2, <1>0, FaultsCount
  <1>3. ASSUME NEW r \in Requests, Request(r) PROVE TaskStep(d) \/ Unmoved(d)
    BY <1>3, <1>0, RequestAlone
  <1>4. CASE RecoverSelect \/ RecoverCommit \/ UNCHANGED vars
    BY <1>4 DEF RecoverSelect, RecoverCommit, vars, tasks, Unmoved
  <1> QED
    BY <1>1, <1>2, <1>3, <1>4 DEF Next

\* The steps of a message are numbered downwards: a task, its failures and its
\* retries included, can only go on for as long as there are numbers left.
THEOREM AlwaysAdvances == Spec => Advances
  <1>1. ASSUME TypeInv, [Next]_vars
        PROVE  \A d \in Deliveries : pc[d] # "idle" /\ faults' = faults =>
                  \/ Ahead(d)' < Ahead(d)
                  \/ pc[d]' = pc[d] /\ stage[d]' = stage[d] /\ attempt[d]' = attempt[d]
    BY <1>1, OthersStay, TaskOnward DEF Onward, Unmoved
  <1>2. Spec => []TypeInv
    BY InitTypeInv, NextTypeInv, PTL DEF Spec
  <1> QED
    BY <1>1, <1>2, PTL DEF Spec, Advances

---------------------------------------------------------------------------
(* An execution goes through its places in one direction, faults included.  *)

Turn == [entered |-> 8, starting |-> 7, reading |-> 6, calling |-> 5, storing |-> 4,
         reporting |-> 3, returned |-> 2, failing |-> 1, queued |-> 0, idle |-> 0]

LEMMA TurnFacts ==
    ASSUME TypeOK, NEW d \in Deliveries
    PROVE  Turn[pc[d]] \in 0..8 /\ (Turn[pc[d]] = 0 <=> ~Executing(d))
  BY DEF Turn, TypeOK, Places, Executing

\* Publishing, a fault in between included, leaves executions alone.
LEMMA PublishSpares ==
    ASSUME TypeOK, NEW c \in Deliveries, NEW d \in Deliveries, NEW s, NEW a,
           Publish(c, s, a), Executing(d)
    PROVE  IF c = d THEN pc'[d] = "queued" ELSE pc'[d] = pc[d]
  <1>1. CASE PublishAndAck(c, s, a)
    BY <1>1 DEF PublishAndAck, Become, TypeOK
  <1>2. CASE PublishNoAck(c, s, a)
    BY <1>2 DEF PublishNoAck, TypeOK, Executing
  <1> QED
    BY <1>1, <1>2 DEF Publish

LEMMA TurnOf ==
    ASSUME TypeOK, NEW c \in Deliveries, NEW d \in Deliveries, NEW q,
           pc' = [pc EXCEPT ![c] = q]
    PROVE  IF c = d THEN pc'[d] = q ELSE pc'[d] = pc[d]
  BY DEF TypeOK

LEMMA TaskTurns ==
    ASSUME TypeInv, NEW c \in Deliveries, NEW d \in Deliveries, TaskStep(c), Executing(d)
    PROVE  IF c = d THEN Turn[pc'[d]] < Turn[pc[d]] ELSE pc'[d] = pc[d]
  <1>0. TypeOK
    BY DEF TypeInv
  <1>1. CASE StartPipeline(c)
    BY <1>1, <1>0, TurnOf DEF StartPipeline, Executing, Goto, Turn
  <1>2. CASE CheckCancelled(c)
    <2>1. Goto(c, "returned") \/ Goto(c, "entered")
      BY <1>2 DEF CheckCancelled
    <2> QED
      BY <1>2, <2>1, <1>0, TurnOf DEF CheckCancelled, Executing, Goto, Turn
  <1>3. CASE CheckDone(c)
    <2>1. Goto(c, "returned") \/ Goto(c, "starting")
      BY <1>3 DEF CheckDone
    <2>2. IF c = d THEN pc'[d] \in {"returned", "starting"} ELSE pc'[d] = pc[d]
      BY <2>1, <1>0, TurnOf DEF Goto
    <2> QED
      BY <1>3, <2>2 DEF CheckDone, Turn
  <1>4. CASE Begin(c)
    <2>1. pc[c] = "starting" /\ pc' = [pc EXCEPT ![c] = "reading"]
      BY <1>4 DEF Begin, Goto
    <2>2. IF c = d THEN pc'[d] = "reading" ELSE pc'[d] = pc[d]
      BY <1>0, <2>1, TurnOf
    <2> QED
      BY <2>1, <2>2 DEF Turn
  <1>5. CASE ReadInput(c)
    <2>1. pc[c] = "reading" /\ pc' = [pc EXCEPT ![c] = "calling"]
      BY <1>5 DEF ReadInput, Hold
    <2>2. IF c = d THEN pc'[d] = "calling" ELSE pc'[d] = pc[d]
      BY <1>0, <2>1, TurnOf
    <2> QED
      BY <2>1, <2>2 DEF Turn
  <1>6. CASE RetryTask(c)
    BY <1>6, <1>0, PublishSpares DEF RetryTask, Turn
  <1>7. CASE \E error \in Errors \ {"lost"} : FailTask(c, error)
    <2>1. pc[c] = "calling" /\ pc' = [pc EXCEPT ![c] = "failing"]
      BY <1>7 DEF FailTask, Hold
    <2>2. IF c = d THEN pc'[d] = "failing" ELSE pc'[d] = pc[d]
      BY <1>0, <2>1, TurnOf
    <2> QED
      BY <2>1, <2>2 DEF Turn
  <1>8. CASE MarkFailed(c)
    BY <1>8, <1>0, TurnOf DEF MarkFailed, Discard, Redeliver, Become, Turn
  <1>9. CASE PublishNext(c)
    BY <1>9, <1>0, PublishSpares DEF PublishNext, Turn
  <1>10. CASE EndChain(c)
    <2>1. pc[c] = "returned" /\ pc' = [pc EXCEPT ![c] = "idle"]
      BY <1>10 DEF EndChain, Discard, Become
    <2>2. IF c = d THEN pc'[d] = "idle" ELSE pc'[d] = pc[d]
      BY <1>0, <2>1, TurnOf
    <2> QED
      BY <2>1, <2>2 DEF Turn
  <1>11. CASE StageWork(c)
    <2>1. CASE DiarizeReport(c) \/ SynthesizeReport(c)
      <3>1. pc[c] = "calling" /\ pc' = [pc EXCEPT ![c] = "returned"]
        BY <2>1 DEF DiarizeReport, SynthesizeReport, Hold
      <3>2. IF c = d THEN pc'[d] = "returned" ELSE pc'[d] = pc[d]
        BY <1>0, <3>1, TurnOf
      <3> QED
        BY <3>1, <3>2 DEF Turn
    <2>2. CASE TranscribePersist(c) \/ TranslatePersist(c)
      <3>1. pc[c] = "calling" /\ pc' = [pc EXCEPT ![c] = "reporting"]
        BY <2>2 DEF TranscribePersist, TranslatePersist, Hold
      <3>2. IF c = d THEN pc'[d] = "reporting" ELSE pc'[d] = pc[d]
        BY <1>0, <3>1, TurnOf
      <3> QED
        BY <3>1, <3>2 DEF Turn
    <2>3. CASE UploadVideo(c) \/ UploadOutputs(c)
      <3>1. pc[c] = "calling" /\ pc' = [pc EXCEPT ![c] = "storing"]
        BY <2>3 DEF UploadVideo, UploadOutputs, Hold
      <3>2. IF c = d THEN pc'[d] = "storing" ELSE pc'[d] = pc[d]
        BY <1>0, <3>1, TurnOf
      <3> QED
        BY <3>1, <3>2 DEF Turn
    <2>4. CASE SaveVideoKey(c) \/ SaveOutputKeys(c)
      <3>1. PICK q \in {"reporting", "returned"} :
               pc[c] = "storing" /\ pc' = [pc EXCEPT ![c] = q]
        BY <2>4 DEF SaveVideoKey, SaveOutputKeys, Goto
      <3>2. IF c = d THEN pc'[d] = q ELSE pc'[d] = pc[d]
        BY <1>0, <3>1, TurnOf
      <3> QED
        BY <3>1, <3>2 DEF Turn
    <2>5. CASE Report(c)
      <3>1. pc[c] = "reporting" /\ pc' = [pc EXCEPT ![c] = "returned"]
        BY <2>5 DEF Report, Goto
      <3>2. IF c = d THEN pc'[d] = "returned" ELSE pc'[d] = pc[d]
        BY <1>0, <3>1, TurnOf
      <3> QED
        BY <3>1, <3>2 DEF Turn
    <2> QED
      BY <1>11, <2>1, <2>2, <2>3, <2>4, <2>5 DEF StageWork
  <1> QED
    BY <1>1, <1>2, <1>3, <1>4, <1>5, <1>6, <1>7, <1>8, <1>9, <1>10, <1>11 DEF TaskStep

LEMMA FaultTurns ==
    ASSUME TypeInv, NEW c \in Deliveries, NEW d \in Deliveries, TaskFault(c), Executing(d)
    PROVE  pc'[d] = pc[d] \/ Turn[pc'[d]] < Turn[pc[d]]
  <1>0. TypeOK /\ Turn[pc[d]] \in 1..8
    BY TurnFacts DEF TypeInv
  <1>1. \/ \E q \in {"idle", "queued"} : \E s, a : Become(c, q, s, a)
        \/ pc[c] # "failing" /\ \E x : Hold(c, "failing", x)
    BY DEF TaskFault, PipelineNotPublished, Crash, LoseChild, LoseMessage, Discard, Redeliver
  <1>2. CASE \E q \in {"idle", "queued"} : \E s, a : Become(c, q, s, a)
    BY <1>0, <1>2, TurnOf DEF Turn, Become
  <1>3. CASE pc[c] # "failing" /\ \E x : Hold(c, "failing", x)
    <2>1. CASE c = d
      <3>1. pc'[d] = "failing" /\ pc[d] # "failing" /\ pc[d] \in Places
        BY <1>0, <1>3, <2>1, TurnOf DEF TypeOK, Hold
      <3> QED
        BY <1>0, <3>1 DEF Turn, Places
    <2>2. CASE c # d
      BY <1>0, <1>3, <2>2, TurnOf DEF Hold
    <2> QED
      BY <2>1, <2>2
  <1> QED
    BY <1>1, <1>2, <1>3

LEMMA EveryStepTurns ==
    ASSUME TypeInv, [Next]_vars, NEW d \in Deliveries, Executing(d)
    PROVE  pc'[d] = pc[d] \/ Turn[pc'[d]] < Turn[pc[d]]
  <1>0. TypeOK
    BY DEF TypeInv
  <1>1. ASSUME NEW c \in Deliveries, TaskStep(c)
        PROVE  pc'[d] = pc[d] \/ Turn[pc'[d]] < Turn[pc[d]]
    BY <1>1, TaskTurns
  <1>2. ASSUME NEW c \in Deliveries, TaskFault(c)
        PROVE  pc'[d] = pc[d] \/ Turn[pc'[d]] < Turn[pc[d]]
    BY <1>2, FaultTurns
  <1>3. ASSUME NEW r \in Requests, Request(r) PROVE pc'[d] = pc[d]
    BY <1>3, <1>0, RequestAlone DEF Unmoved, Executing
  <1>4. CASE RecoverSelect \/ RecoverCommit \/ UNCHANGED vars
    BY <1>4 DEF RecoverSelect, RecoverCommit, vars, tasks
  <1> QED
    BY <1>1, <1>2, <1>3, <1>4 DEF Next

---------------------------------------------------------------------------
(* What the theorems about progress need to know of ENABLED, which the       *)
(* prover cannot compute: that an action is enabled where its guard holds.   *)

\* The guards of the steps of a task, as their actions state them.
Ready(d) ==
    \/ pc[d] = "queued" /\ (stage[d] = 0 \/ stage[d] \in Stages)
    \/ pc[d] \in {"entered", "starting", "reading", "calling", "failing"}
         /\ stage[d] \in Stages
    \/ pc[d] = "storing" /\ stage[d] \in {SyncAv, Package}
    \/ pc[d] = "reporting" /\ stage[d] \in {Transcribe, Translate, Package}
    \/ pc[d] = "returned" /\ (stage[d] < Package \/ stage[d] = Package)

\* And those of the last step of a request.
Concludable(r) ==
    \/ op[r] = "dispatching" /\ \E d \in Deliveries : pc[d] = "idle"
    \/ op[r] = "retrying"
    \/ op[r] = "cancelling"

\* No step asks for more than its guard: an action whose guard holds is enabled.
GuardsSuffice ==
    /\ \A d \in Deliveries : Ready(d) => ENABLED <<TaskStep(d)>>_vars
    /\ \A r \in Requests : Concludable(r) => ENABLED <<RequestEnd(r)>>_vars

LEMMA TypeAlways == Spec => []TypeInv
  BY InitTypeInv, NextTypeInv, PTL DEF Spec

LEMMA SomeGuardHolds ==
    ASSUME TypeInv, NEW d \in Deliveries, pc[d] # "idle"
    PROVE  Ready(d)
  <1>1. pc[d] \in Places /\ stage[d] \in 0..6 /\ Shape
    BY DEF TypeInv, TypeOK
  <1> QED
    BY <1>1 DEF Ready, Places, Shape, Stages, Package

LEMMA RequestGuardHolds ==
    ASSUME TypeInv, NEW r \in Requests, op[r] # "idle",
           op[r] = "dispatching" => \E d \in Deliveries : pc[d] = "idle"
    PROVE  Concludable(r)
  BY DEF TypeInv, TypeOK, Concludable

\* Whoever executes a message can go on, and so can a request that has begun,
\* once there is a message free for it.
NeverStuck ==
    /\ \A d \in Deliveries : pc[d] # "idle" => ENABLED <<TaskStep(d)>>_vars
    /\ \A r \in Requests :
          op[r] # "idle" /\ (op[r] = "dispatching" => \E d \in Deliveries : pc[d] = "idle")
             => ENABLED <<RequestEnd(r)>>_vars

LEMMA NeverStuckByGuards == Spec /\ []GuardsSuffice => []NeverStuck
  <1>1. TypeInv /\ GuardsSuffice => NeverStuck
    BY SomeGuardHolds, RequestGuardHolds DEF GuardsSuffice, NeverStuck
  <1> QED
    BY <1>1, TypeAlways, PTL

---------------------------------------------------------------------------
(* Fairness takes an execution down these places.                           *)

Within(d, n) == Turn[pc[d]] <= n

\* The premises about d, and one place further down as a promise.
Tended(d) == Spec /\ Attended(d) /\ []NeverStuck
Lowers(d, n) == Within(d, n + 1) ~> Within(d, n)

\* One place further down, with fairness: the task can take a step and does.
LEMMA Descends ==
    ASSUME NEW d \in Deliveries, NEW n \in 0..7
    PROVE  Tended(d) => Lowers(d, n)
  <1> DEFINE At == Turn[pc[d]] = n + 1
  <1>1. TypeInv /\ At => Executing(d) /\ pc[d] # "idle"
    BY TurnFacts DEF TypeInv, Executing
  <1>2. TypeInv /\ Within(d, n + 1) => At \/ Within(d, n)
    BY TurnFacts DEF TypeInv, Within
  <1>3. TypeInv /\ At /\ [Next]_vars => At' \/ Within(d, n)'
    <2> SUFFICES ASSUME TypeInv, At, [Next]_vars PROVE At' \/ Within(d, n)'
      OBVIOUS
    <2>1. TypeOK'
      BY NextTypeInv DEF TypeInv
    <2>2. pc'[d] = pc[d] \/ Turn[pc'[d]] < n + 1
      BY <1>1, EveryStepTurns
    <2>3. Turn[pc'[d]] \in 0..8
      BY <2>1 DEF TypeOK, Turn, Places
    <2> QED
      BY <2>2, <2>3 DEF Within
  <1>4. TypeInv /\ At /\ [Next]_vars /\ <<TaskStep(d)>>_vars => Within(d, n)'
    <2> SUFFICES ASSUME TypeInv, At, [Next]_vars, TaskStep(d) PROVE Within(d, n)'
      OBVIOUS
    <2>1. TypeOK'
      BY NextTypeInv DEF TypeInv
    <2>2. Turn[pc'[d]] < n + 1
      BY <1>1, TaskTurns
    <2>3. Turn[pc'[d]] \in 0..8
      BY <2>1 DEF TypeOK, Turn, Places
    <2> QED
      BY <2>2, <2>3 DEF Within
  <1>5. NeverStuck /\ TypeInv /\ At => ENABLED <<TaskStep(d)>>_vars
    BY <1>1 DEF NeverStuck
  <1>6. Spec => []TypeInv
    BY InitTypeInv, NextTypeInv, PTL DEF Spec
  <1> QED
    BY <1>2, <1>3, <1>4, <1>5, <1>6, PTL DEF Spec, Attended, Tended, Lowers

\* Where the worker processes are scheduled fairly, an execution reaches its end:
\* eight places, one after another, from wherever it is.
THEOREM ExecutionsAlwaysEnd == FairSpec /\ []GuardsSuffice => ExecutionsEnd
  <1> SUFFICES ASSUME NEW d \in Deliveries
               PROVE  FairSpec /\ []GuardsSuffice => (Executing(d) ~> ~Executing(d))
    BY DEF ExecutionsEnd
  <1>1. FairSpec => Spec /\ Attended(d)
    <2>1. FairSpec => Spec /\ Fairness
      BY DEF FairSpec
    <2>2. Fairness => \A e \in Deliveries : Attended(e)
      BY DEF Fairness
    <2> QED
      BY <2>1, <2>2
  <1>2. Spec => []TypeInv
    BY InitTypeInv, NextTypeInv, PTL DEF Spec
  <1>3. TypeInv => Within(d, 8)
    BY TurnFacts DEF TypeInv, Within
  <1>4. TypeInv /\ Within(d, 0) => ~Executing(d)
    BY TurnFacts DEF TypeInv, Within
  <1>5. \A n \in 0..7 : Tended(d) => Lowers(d, n)
    BY Descends
  <1>6. /\ Tended(d) => Lowers(d, 7)
        /\ Tended(d) => Lowers(d, 6)
        /\ Tended(d) => Lowers(d, 5)
        /\ Tended(d) => Lowers(d, 4)
        /\ Tended(d) => Lowers(d, 3)
        /\ Tended(d) => Lowers(d, 2)
        /\ Tended(d) => Lowers(d, 1)
        /\ Tended(d) => Lowers(d, 0)
    BY <1>5
  <1>7. /\ Within(d, 8) <=> Within(d, 7 + 1)
        /\ Within(d, 7) <=> Within(d, 6 + 1)
        /\ Within(d, 6) <=> Within(d, 5 + 1)
        /\ Within(d, 5) <=> Within(d, 4 + 1)
        /\ Within(d, 4) <=> Within(d, 3 + 1)
        /\ Within(d, 3) <=> Within(d, 2 + 1)
        /\ Within(d, 2) <=> Within(d, 1 + 1)
        /\ Within(d, 1) <=> Within(d, 0 + 1)
    BY DEF Within
  <1> QED
    BY <1>1, <1>2, <1>3, <1>4, <1>6, <1>7, NeverStuckByGuards, PTL DEF Tended, Lowers

---------------------------------------------------------------------------
(* A queued job is taken.  Suppose it stayed queued: then no chain begins a  *)
(* stage, fails or reports, for each of these writes the status, and so a   *)
(* message could only go round the few steps that write none.               *)

\* How many steps a message can take, at most, before one writes the status;
\* 0 for one that will not write it again.
Unwritten(d) ==
    CASE pc[d] \in {"starting", "failing", "reporting"} -> 1
      [] pc[d] = "entered"  -> 2
      [] pc[d] = "queued"   -> IF stage[d] = 0 THEN 5 ELSE 3
      [] pc[d] = "returned" -> IF stage[d] = Package THEN 0 ELSE 4
      [] pc[d] = "storing"  -> 5
      [] pc[d] = "calling"  -> 6
      [] pc[d] = "reading"  -> 7
      [] OTHER              -> 0

\* The job waits in the queue, and its messages are not struck by faults.
Waiting == status = "queued" /\ ~dropped

LEMMA WritesQueued ==
    \A s \in Stages : InFlightStatus[s] # "queued" /\ DoneStatus[s] # "queued"
  BY DEF Stages, InFlightStatus, DoneStatus

LEMMA UnwrittenFacts ==
    ASSUME TypeOK, NEW d \in Deliveries
    PROVE  /\ Unwritten(d) \in 0..7
           /\ Unwritten(d) > 0 => pc[d] # "idle"
           /\ Unwritten(d) = 0 => pc[d] = "idle" \/ (pc[d] = "returned" /\ stage[d] = Package)
  BY DEF Unwritten, TypeOK, Places

\* Where a step takes the message, and that it is nearer to a write.
LEMMA UnwrittenAt ==
    ASSUME TypeOK, NEW d \in Deliveries, NEW p, NEW s,
           pc'[d] = p, stage'[d] = s
    PROVE  /\ p \in {"starting", "failing", "reporting"} => Unwritten(d)' = 1
           /\ p = "entered"  => Unwritten(d)' = 2
           /\ p = "queued"   => Unwritten(d)' = IF s = 0 THEN 5 ELSE 3
           /\ p = "returned" => Unwritten(d)' = IF s = Package THEN 0 ELSE 4
           /\ p = "storing"  => Unwritten(d)' = 5
           /\ p = "calling"  => Unwritten(d)' = 6
  BY DEF Unwritten

LEMMA TaskApproaches ==
    ASSUME TypeInv, faults' = faults, status = "queued", status' = "queued",
           NEW d \in Deliveries, Unwritten(d) > 0, TaskStep(d)
    PROVE  Unwritten(d)' < Unwritten(d) /\ Unwritten(d)' > 0
  <1>0. TypeOK /\ Shape
    BY DEF TypeInv
  <1>g. ASSUME NEW q, Goto(d, q) \/ \E x : Hold(d, q, x)
        PROVE  pc'[d] = q /\ stage'[d] = stage[d]
    BY <1>0, <1>g DEF Goto, Hold, TypeOK
  <1>1. CASE StartPipeline(d)
    <2>1. pc'[d] = "returned" /\ stage'[d] = 0
      BY <1>1, <1>g DEF StartPipeline
    <2> QED
      BY <1>1, <2>1, <1>0, UnwrittenAt DEF StartPipeline, Unwritten, Package
  <1>2. CASE CheckCancelled(d)
    <2>1. pc'[d] = "entered"
      BY <1>2, <1>g DEF CheckCancelled
    <2> QED
      BY <1>2, <2>1, <1>0, UnwrittenAt DEF CheckCancelled, Unwritten, Stages
  <1>3. CASE CheckDone(d)
    <2>1. stage[d] \in Stages
      BY <1>3, <1>0 DEF CheckDone, Shape
    <2>2. ~StageDone(status, stage[d])
      BY <2>1, WritesQueued DEF StageDone, Stages
    <2>3. pc'[d] = "starting"
      BY <1>3, <2>2, <1>g DEF CheckDone
    <2> QED
      BY <1>3, <2>3, <1>0, UnwrittenAt DEF CheckDone, Unwritten
  <1>4. CASE ReadInput(d)
    <2>1. pc'[d] = "calling"
      BY <1>4, <1>g DEF ReadInput
    <2> QED
      BY <1>4, <2>1, <1>0, UnwrittenAt DEF ReadInput, Unwritten
  <1>5. CASE RetryTask(d)
    <2>1. /\ pc[d] = "calling" /\ stage[d] # 0
          /\ pc'[d] = "queued" /\ stage'[d] = stage[d]
      BY <1>5, <1>0, PublishReplaces DEF RetryTask, Diarize, Synthesize
    <2> QED
      BY <2>1, <1>0, UnwrittenAt DEF Unwritten
  <1>6. CASE \E error \in Errors \ {"lost"} : FailTask(d, error)
    <2>1. pc[d] = "calling" /\ pc'[d] = "failing"
      BY <1>6, <1>g DEF FailTask
    <2> QED
      BY <2>1, <1>0, UnwrittenAt DEF Unwritten
  <1>7. CASE PublishNext(d)
    <2>1. /\ pc[d] = "returned" /\ stage[d] # Package
          /\ pc'[d] = "queued" /\ stage'[d] # 0
      BY <1>7, <1>0, PublishReplaces DEF PublishNext, Package, TypeOK
    <2> QED
      BY <2>1, <1>0, UnwrittenAt DEF Unwritten
  <1>8. CASE EndChain(d)
    BY <1>8 DEF EndChain, Unwritten
  <1>9. CASE TranscribePersist(d) \/ TranslatePersist(d)
    <2>1. pc[d] = "calling" /\ pc'[d] = "reporting"
      BY <1>9, <1>g DEF TranscribePersist, TranslatePersist
    <2> QED
      BY <2>1, <1>0, UnwrittenAt DEF Unwritten
  <1>10. CASE UploadVideo(d) \/ UploadOutputs(d)
    <2>1. pc[d] = "calling" /\ pc'[d] = "storing"
      BY <1>10, <1>g DEF UploadVideo, UploadOutputs
    <2> QED
      BY <2>1, <1>0, UnwrittenAt DEF Unwritten
  <1>11. CASE SaveVideoKey(d)
    <2>1. pc[d] = "storing" /\ pc'[d] = "returned" /\ stage'[d] # Package
      BY <1>11, <1>g DEF SaveVideoKey, SyncAv, Package
    <2> QED
      BY <2>1, <1>0, UnwrittenAt DEF Unwritten
  <1>12. CASE SaveOutputKeys(d)
    <2>1. pc[d] = "storing" /\ pc'[d] = "reporting"
      BY <1>12, <1>g DEF SaveOutputKeys
    <2> QED
      BY <2>1, <1>0, UnwrittenAt DEF Unwritten
  <1>13. ~(Begin(d) \/ MarkFailed(d) \/ DiarizeReport(d) \/ SynthesizeReport(d) \/ Report(d))
    BY <1>0, WritesQueued
    DEF Begin, MarkFailed, DiarizeReport, SynthesizeReport, Report, Shape, Stages,
        Diarize, Synthesize, Transcribe, Translate, Package
  <1> QED
    BY <1>1, <1>2, <1>3, <1>4, <1>5, <1>6, <1>7, <1>8, <1>9, <1>10, <1>11, <1>12, <1>13
    DEF TaskStep, StageWork

Calm == [][faults' = faults]_vars
Owned == TypeInv /\ NoOrphan
Goes == [][Next]_vars /\ []Owned /\ []NeverStuck /\ Calm
Waits == Goes /\ []Waiting

Near(d, n) == Unwritten(d) > 0 /\ Unwritten(d) <= n

LEMMA StaysUnwritten ==
    ASSUME Owned, [Next]_vars, [faults' = faults]_vars, Waiting, Waiting',
           NEW d \in Deliveries, Unwritten(d) > 0
    PROVE  /\ Unwritten(d)' = Unwritten(d)
              \/ (Unwritten(d)' < Unwritten(d) /\ Unwritten(d)' > 0)
           /\ TaskStep(d) => Unwritten(d)' < Unwritten(d) /\ Unwritten(d)' > 0
  <1>0. TypeInv /\ TypeOK /\ pc[d] # "idle"
    BY UnwrittenFacts DEF Owned, TypeInv
  <1>1. CASE UNCHANGED vars /\ ~TaskStep(d)
    BY <1>1 DEF vars, tasks, Unwritten
  <1>2. CASE faults' = faults
    <2>1. TaskStep(d) => Unwritten(d)' < Unwritten(d) /\ Unwritten(d)' > 0
      BY <1>0, <1>2, TaskApproaches DEF Waiting
    <2>2. Unmoved(d) => Unwritten(d)' = Unwritten(d)
      BY DEF Unmoved, Unwritten
    <2> QED
      BY <1>0, <1>2, <2>1, <2>2, OthersStay
  <1> QED
    BY <1>1, <1>2 DEF vars, history

Nearer(d, m, n) == Near(d, m) ~> Near(d, n)

\* One step nearer to the write that is not to happen.
LEMMA ComesNearer ==
    ASSUME NEW d \in Deliveries, NEW n \in 0..6, NEW m \in 1..7, m = n + 1
    PROVE  Waits /\ Attended(d) => Nearer(d, m, n)
  <1> DEFINE At == Unwritten(d) = m
             Steps == /\ Owned /\ Owned' /\ Waiting /\ Waiting'
                      /\ [Next]_vars /\ [faults' = faults]_vars
  <1>1. Owned => Unwritten(d) \in 0..7
    BY UnwrittenFacts DEF Owned, TypeInv
  <1>2. Owned' => (Unwritten(d) \in 0..7)'
    BY <1>1, PTL
  <1>3. Owned /\ Near(d, m) => At \/ Near(d, n)
    BY <1>1 DEF Near
  <1>4. Steps /\ At => At' \/ Near(d, n)'
    BY <1>2, StaysUnwritten DEF Near
  <1>5. Steps /\ At /\ <<TaskStep(d)>>_vars => Near(d, n)'
    BY <1>2, StaysUnwritten DEF Near
  <1>6. NeverStuck /\ Owned /\ At => ENABLED <<TaskStep(d)>>_vars
    BY UnwrittenFacts DEF Owned, NeverStuck, TypeInv
  <1> HIDE DEF At, Steps
  <1>7. Steps <=> /\ Owned /\ Owned' /\ Waiting /\ Waiting'
                  /\ [Next]_vars /\ [faults' = faults]_vars
    BY DEF Steps
  <1> QED
    BY <1>3, <1>4, <1>5, <1>6, <1>7, PTL DEF Waits, Goes, Calm, Attended, Nearer

\* A message that will not write the status again (Pursuers).
Through(d) == pc[d] = "idle" \/ (pc[d] = "returned" /\ stage[d] = Package)
AllThrough == \A d \in Deliveries : Through(d)

LEMMA AlwaysThrough ==
    ASSUME NEW d \in Deliveries
    PROVE  Waits /\ Attended(d) => []Through(d)
  <1>1. Owned => Through(d) \/ Near(d, 7)
    BY UnwrittenFacts DEF Owned, TypeInv, Near, Through
  <1>2. \A n \in 0..6 : \A m \in 1..7 : m = n + 1 =>
           (Waits /\ Attended(d) => Nearer(d, m, n))
    BY ComesNearer
  <1>3. /\ Waits /\ Attended(d) => Nearer(d, 7, 6)
        /\ Waits /\ Attended(d) => Nearer(d, 6, 5)
        /\ Waits /\ Attended(d) => Nearer(d, 5, 4)
        /\ Waits /\ Attended(d) => Nearer(d, 4, 3)
        /\ Waits /\ Attended(d) => Nearer(d, 3, 2)
        /\ Waits /\ Attended(d) => Nearer(d, 2, 1)
        /\ Waits /\ Attended(d) => Nearer(d, 1, 0)
    BY <1>2
  <1>4. Owned => ~Near(d, 0)
    BY UnwrittenFacts DEF Owned, TypeInv, Near
  <1> QED
    BY <1>1, <1>3, <1>4, PTL DEF Waits, Goes, Attended, Calm, Nearer

---------------------------------------------------------------------------
(* So somebody has yet to dispatch it, and a message is free for that.      *)

Idle(d) == pc[d] = "idle"
Dispatching(r) == op[r] = "dispatching"

\* A dispatch is a message that will write the status.
LEMMA DispatchSends ==
    ASSUME TypeOK, NEW r \in Requests, DispatchPipeline(r)
    PROVE  ~AllThrough'
  <1>1. PICK d \in Deliveries : pc[d] = "idle" /\ Become(d, "queued", 0, 0)
    BY DEF DispatchPipeline
  <1>2. pc'[d] = "queued"
    BY <1>1 DEF Become, TypeOK
  <1> QED
    BY <1>2 DEF AllThrough, Through

LEMMA ApiLeft ==
    ASSUME NEW d \in Deliveries, TaskStep(d) \/ TaskFault(d)
    PROVE  UNCHANGED api
  BY DEF TaskStep, TaskFault, StageWork, StartPipeline, CheckCancelled, CheckDone, Begin,
         ReadInput, RetryTask, FailTask, MarkFailed, PublishNext, EndChain, DiarizeReport,
         TranscribePersist, TranslatePersist, SynthesizeReport, UploadVideo, SaveVideoKey,
         UploadOutputs, SaveOutputKeys, Report, PipelineNotPublished, Crash, LoseChild,
         LoseMessage

\* Only the dispatch itself, or a fault, ends it.
LEMMA DispatchingStays ==
    ASSUME TypeOK, [Next]_vars, [faults' = faults]_vars, AllThrough',
           NEW r \in Requests, Dispatching(r)
    PROVE  Dispatching(r)' /\ ~RequestEnd(r)
  <1>0. faults' = faults
    BY DEF vars, history
  <1>1. ~RequestEnd(r)
    BY DispatchSends DEF RequestEnd, RetryCommit, CancelCommit, Dispatching
  <1>2. CASE UNCHANGED op
    BY <1>1, <1>2 DEF Dispatching
  <1>3. ASSUME NEW q \in Requests, Request(q) PROVE Dispatching(r)'
    <2>1. CASE q = r
      <3>1. EnqueueFails(r) \/ ApiCrash(r)
        BY <1>1, <1>3, <2>1 DEF Request, RetryRead, CancelRead, Dispatching
      <3> QED
        BY <1>0, <3>1 DEF EnqueueFails, ApiCrash, Fault, TypeOK
    <2>2. CASE q # r
      BY <1>3, <2>2 DEF Request, RequestEnd, DispatchPipeline, RetryCommit, CancelCommit,
                        EnqueueFails, RetryRead, CancelRead, ApiCrash, Dispatching, TypeOK
    <2> QED
      BY <2>1, <2>2
  <1>4. (\E d \in Deliveries : TaskStep(d) \/ TaskFault(d)) => UNCHANGED op
    BY ApiLeft DEF api
  <1> QED
    BY <1>1, <1>2, <1>3, <1>4 DEF Next, RecoverSelect, RecoverCommit, vars, api

LEMMA IdleStays ==
    ASSUME TypeInv, [Next]_vars, [faults' = faults]_vars, AllThrough',
           NEW d \in Deliveries, Idle(d)
    PROVE  Idle(d)'
  <1>0. TypeOK
    BY DEF TypeInv
  <1>1. CASE UNCHANGED pc
    BY <1>1 DEF Idle
  <1>2. ASSUME faults' = faults, NEW c \in Deliveries, TaskStep(c) PROVE Idle(d)'
    <2>1. c # d
      BY <1>2 DEF Idle, TaskStep, StageWork, StartPipeline, CheckCancelled, CheckDone, Begin,
             ReadInput, RetryTask, FailTask, MarkFailed, PublishNext, EndChain, DiarizeReport,
             TranscribePersist, TranslatePersist, SynthesizeReport, UploadVideo, SaveVideoKey,
             UploadOutputs, SaveOutputKeys, Report
    <2> QED
      BY <1>2, <2>1, TaskAlone DEF Unmoved, Idle
  <1>3. ASSUME faults' = faults, NEW c \in Deliveries, TaskFault(c) PROVE FALSE
    BY <1>0, <1>3, FaultsCount
  <1>4. ASSUME NEW r \in Requests, Request(r) PROVE UNCHANGED pc
    BY <1>0, <1>4, DispatchSends
    DEF Request, RequestEnd, RetryCommit, CancelCommit, EnqueueFails, RetryRead,
        CancelRead, ApiCrash, tasks
  <1> QED
    BY <1>1, <1>2, <1>3, <1>4
    DEF Next, RecoverSelect, RecoverCommit, vars, tasks, history

\* The end of a chain writes nothing and leaves a message free.
LEMMA BecomesIdle ==
    ASSUME NEW d \in Deliveries
    PROVE  Goes /\ []AllThrough /\ Attended(d) => <>[]Idle(d)
  <1> DEFINE Ending == pc[d] = "returned"
  <1>1. AllThrough => Idle(d) \/ Ending
    BY DEF AllThrough, Through, Idle
  <1>2. Owned /\ [Next]_vars /\ [faults' = faults]_vars /\ AllThrough' /\ Idle(d) => Idle(d)'
    BY IdleStays DEF Owned
  <1>3. Owned /\ Ending /\ AllThrough' /\ <<TaskStep(d)>>_vars => Idle(d)'
    <2> SUFFICES ASSUME Owned, Ending, AllThrough', TaskStep(d) PROVE Idle(d)'
      OBVIOUS
    <2>1. Turn[pc'[d]] < Turn["returned"]
      BY TaskTurns DEF Owned, Executing
    <2>2. pc'[d] \in {"idle", "returned"}
      BY DEF AllThrough, Through
    <2> QED
      BY <2>1, <2>2 DEF Turn, Idle
  <1>4. NeverStuck /\ Owned /\ Ending => ENABLED <<TaskStep(d)>>_vars
    BY DEF Owned, NeverStuck
  <1> HIDE DEF Ending
  <1> QED
    BY <1>1, <1>2, <1>3, <1>4, PTL DEF Goes, Calm, Attended

LEMMA NobodyDispatches ==
    ASSUME NEW d \in Deliveries, NEW r \in Requests
    PROVE  Goes /\ []AllThrough /\ Attended(d) /\ Concluded(r) => []~Dispatching(r)
  <1>1. Goes /\ []AllThrough /\ Attended(d) => <>[]Idle(d)
    BY BecomesIdle
  <1>2. /\ Owned /\ [Next]_vars /\ [faults' = faults]_vars /\ AllThrough' /\ Dispatching(r)
        => Dispatching(r)'
    BY DispatchingStays DEF Owned, TypeInv
  <1>3. /\ Owned /\ [Next]_vars /\ [faults' = faults]_vars /\ AllThrough' /\ Dispatching(r)
        => ~<<RequestEnd(r)>>_vars
    BY DispatchingStays DEF Owned, TypeInv
  <1>4. NeverStuck /\ Dispatching(r) /\ Idle(d) => ENABLED <<RequestEnd(r)>>_vars
    BY DEF NeverStuck, Dispatching, Idle
  <1> QED
    BY <1>1, <1>2, <1>3, <1>4, PTL DEF Goes, Calm, Concluded

NoDispatch == \A r \in Requests : ~Dispatching(r)
AllAttended == \A d \in Deliveries : Attended(d)
AllConcluded == \A r \in Requests : Concluded(r)

LEMMA KeepAttended == AllAttended => []AllAttended
  <1>1. ASSUME NEW d \in Deliveries PROVE Attended(d) => []Attended(d)
    BY PTL DEF Attended
  <1>2. AllAttended => \A d \in Deliveries : []Attended(d)
    BY <1>1 DEF AllAttended
  <1>3. (\A d \in Deliveries : []Attended(d)) => []AllAttended
    BY DEF AllAttended
  <1> QED
    BY <1>2, <1>3

LEMMA KeepConcluded == AllConcluded => []AllConcluded
  <1>1. ASSUME NEW r \in Requests PROVE Concluded(r) => []Concluded(r)
    BY PTL DEF Concluded
  <1>2. AllConcluded => \A r \in Requests : []Concluded(r)
    BY <1>1 DEF AllConcluded
  <1>3. (\A r \in Requests : []Concluded(r)) => []AllConcluded
    BY DEF AllConcluded
  <1> QED
    BY <1>2, <1>3

\* A job that is not settled and has lost nothing.
Unsettled == status \notin Terminal /\ ~dropped

LEMMA SomebodyIsLeft ==
    Goes /\ []Unsettled /\ []AllThrough /\ AllAttended /\ AllConcluded => FALSE
  <1>1. PICK d \in Deliveries : TRUE
    BY DeliveriesAssumption
  <1> DEFINE Forever == []AllThrough
  <1>2. ASSUME NEW r \in Requests
        PROVE  Goes /\ Forever /\ Attended(d) /\ Concluded(r) => []~Dispatching(r)
    BY NobodyDispatches
  <1> HIDE DEF Forever
  <1>3. Goes /\ Forever /\ AllAttended /\ AllConcluded
        => \A r \in Requests : []~Dispatching(r)
    BY <1>2 DEF AllAttended, AllConcluded
  <1>4. (\A r \in Requests : []~Dispatching(r)) => []NoDispatch
    BY DEF NoDispatch
  <1>5. Owned /\ Unsettled /\ AllThrough /\ NoDispatch => FALSE
    <2> SUFFICES ASSUME Owned, Unsettled, AllThrough, NoDispatch PROVE FALSE
      OBVIOUS
    <2>1. Pursuers # {}
      BY DEF Owned, NoOrphan, Unsettled
    <2> QED
      BY <2>1 DEF Pursuers, AllThrough, Through, NoDispatch, Dispatching
  <1>6. Forever <=> []AllThrough
    BY DEF Forever
  <1> QED
    BY <1>3, <1>4, <1>5, <1>6, PTL DEF Goes

LEMMA NotForEver == Waits /\ AllAttended /\ AllConcluded => FALSE
  <1>1. Waits /\ AllAttended => \A d \in Deliveries : []Through(d)
    BY AlwaysThrough DEF AllAttended
  <1>2. (\A d \in Deliveries : []Through(d)) => []AllThrough
    BY DEF AllThrough
  <1>3. Waiting => Unsettled
    BY DEF Waiting, Unsettled, Terminal
  <1> QED
    BY <1>1, <1>2, <1>3, SomebodyIsLeft, PTL DEF Waits

\* A queued job is taken, unless it lost its message or its dispatch: once the
\* faults are over, with workers and requests going on as long as they can, and
\* any number of retries, cancellations, sweeps and other chains in between.
\* Nobody watches over queued jobs (QueuedIsTaken is refuted); it is their owner
\* (NoOrphan) who takes them on.
THEOREM QueueAlwaysMoves == FairSpec /\ []GuardsSuffice /\ <>Calm => QueueMoves
  <1>1. FairSpec => Spec /\ AllAttended /\ AllConcluded
    BY DEF FairSpec, Fairness, AllAttended, AllConcluded
  <1>2. Waits /\ AllAttended /\ AllConcluded => FALSE
    BY NotForEver
  <1>3. status = "queued" /\ ~dropped => Waiting
    BY DEF Waiting
  <1>4. ~Waiting => status # "queued" \/ dropped
    BY DEF Waiting
  <1> QED
    BY <1>1, <1>2, <1>3, <1>4, TypeAlways, NeverOrphaned, NeverStuckByGuards,
       KeepAttended, KeepConcluded, PTL
    DEF Spec, QueueMoves, Waits, Goes, Calm, Owned

---------------------------------------------------------------------------
(* And a job that is under way is settled.  Suppose it were not: then every   *)
(* message would go through its places and its stages, for what ends a chain *)
(* before or at its end, an error or a report, settles the job.              *)

\* The providers do not fail in the way that is retried.
NoRetry == \A d \in Deliveries : ~RetryTask(d)
Patient == [][NoRetry]_vars

Unending == Goes /\ Patient /\ []Unsettled

\* A chain at stage s with n places to go, or further on.
At(d, s, n) == ~Through(d) /\ stage[d] = s /\ PlacesLeft[pc[d]] <= n
Past(d, s) == ~Through(d) /\ stage[d] > s
Reached(d, s, n) == At(d, s, n) \/ Past(d, s)

LEMMA EndsSettled ==
    /\ \A st : StageDone(st, Package) => st \in Terminal
    /\ DoneStatus[Package] \in Terminal /\ {"failed", "cancelled"} \subseteq Terminal
  BY DEF StageDone, Package, DoneStatus, Terminal

LEMMA PlacesFacts ==
    ASSUME TypeOK, NEW d \in Deliveries
    PROVE  /\ PlacesLeft[pc[d]] \in 0..8
           /\ PlacesLeft[pc[d]] = 0 <=> pc[d] = "idle"
  BY DEF TypeOK, Places, PlacesLeft

\* A chain that does not end goes on to a later place or to the next stage.
LEMMA ChainGoesOn ==
    ASSUME TypeInv, faults' = faults, NoRetry,
           NEW d \in Deliveries, ~Through(d), ~Through(d)', TaskStep(d)
    PROVE  \/ stage'[d] = stage[d] /\ PlacesLeft[pc'[d]] < PlacesLeft[pc[d]]
           \/ stage'[d] = stage[d] + 1
  <1>0. TypeOK /\ Shape /\ stage[d] \in 0..6
    BY DEF TypeInv, TypeOK
  <1>g. ASSUME NEW q \in Places \ {"idle"}, Goto(d, q) \/ \E x : Hold(d, q, x),
               PlacesLeft[q] < PlacesLeft[pc[d]]
        PROVE  stage'[d] = stage[d] /\ PlacesLeft[pc'[d]] < PlacesLeft[pc[d]]
    BY <1>0, <1>g DEF Goto, Hold, TypeOK
  <1>p. /\ {"returned", "entered", "starting", "calling", "failing", "reporting", "reading",
            "storing"} \subseteq Places \ {"idle"}
        /\ PlacesLeft["queued"] = 8 /\ PlacesLeft["entered"] = 7
        /\ PlacesLeft["starting"] = 6 /\ PlacesLeft["reading"] = 5
        /\ PlacesLeft["calling"] = 4 /\ PlacesLeft["storing"] = 3
        /\ PlacesLeft["reporting"] = 2 /\ PlacesLeft["returned"] = 1
        /\ PlacesLeft["failing"] = 1
    BY DEF Places, PlacesLeft
  <1>1. CASE StartPipeline(d)
    BY <1>1, <1>p, <1>g DEF StartPipeline
  <1>2. CASE CheckCancelled(d)
    <2>1. Goto(d, "entered") \/ Goto(d, "returned")
      BY <1>2 DEF CheckCancelled
    <2> QED
      BY <1>2, <2>1, <1>p, <1>g DEF CheckCancelled
  <1>3. CASE CheckDone(d)
    <2>1. Goto(d, "starting") \/ Goto(d, "returned")
      BY <1>3 DEF CheckDone
    <2> QED
      BY <1>3, <2>1, <1>p, <1>g DEF CheckDone
  <1>4. CASE Begin(d)
    BY <1>4, <1>p, <1>g DEF Begin
  <1>5. CASE ReadInput(d)
    BY <1>5, <1>p, <1>g DEF ReadInput
  <1>6. CASE \E error \in Errors \ {"lost"} : FailTask(d, error)
    BY <1>6, <1>p, <1>g DEF FailTask
  <1>7. CASE PublishNext(d)
    <2>1. pc'[d] = "queued" /\ stage'[d] = stage[d] + 1
      BY <1>7, <1>0, PublishReplaces DEF PublishNext
    <2> QED
      BY <2>1
  <1>8. CASE DiarizeReport(d) \/ SynthesizeReport(d)
    BY <1>8, <1>p, <1>g DEF DiarizeReport, SynthesizeReport
  <1>9. CASE TranscribePersist(d) \/ TranslatePersist(d)
    BY <1>9, <1>p, <1>g DEF TranscribePersist, TranslatePersist
  <1>10. CASE UploadVideo(d) \/ UploadOutputs(d)
    BY <1>10, <1>p, <1>g DEF UploadVideo, UploadOutputs
  <1>11. CASE SaveVideoKey(d)
    BY <1>11, <1>p, <1>g DEF SaveVideoKey
  <1>12. CASE SaveOutputKeys(d)
    BY <1>12, <1>p, <1>g DEF SaveOutputKeys
  <1>13. CASE Report(d)
    BY <1>13, <1>p, <1>g DEF Report
  <1>14. ~(MarkFailed(d) \/ EndChain(d) \/ RetryTask(d))
    <2>1. ~Discard(d)
      BY <1>0 DEF Discard, Become, Through, TypeOK
    <2>2. ~(Redeliver(d) /\ Fault("duplicate"))
      BY <1>0 DEF Fault, TypeOK
    <2> QED
      BY <2>1, <2>2 DEF MarkFailed, EndChain, NoRetry
  <1> QED
    BY <1>1, <1>2, <1>3, <1>4, <1>5, <1>6, <1>7, <1>8, <1>9, <1>10, <1>11, <1>12, <1>13, <1>14
    DEF TaskStep, StageWork

LEMMA ReachedStays ==
    ASSUME Owned, [Next]_vars, [faults' = faults]_vars, [NoRetry]_vars,
           NEW d \in Deliveries, ~Through(d), ~Through(d)', NEW s \in 0..6, NEW n \in 0..8
    PROVE  /\ Reached(d, s, n) => Reached(d, s, n)'
           /\ At(d, s, n) /\ <<TaskStep(d)>>_vars =>
                 \/ Past(d, s)'
                 \/ stage'[d] = s /\ PlacesLeft[pc'[d]] < PlacesLeft[pc[d]]
  <1>0. TypeInv /\ TypeOK /\ stage[d] \in 0..6 /\ pc[d] # "idle"
    BY DEF Owned, TypeInv, TypeOK, Through
  <1>1. PlacesLeft[pc[d]] \in 0..8
    BY <1>0, PlacesFacts
  <1>2. ASSUME <<TaskStep(d)>>_vars
        PROVE  \/ stage'[d] = stage[d] /\ PlacesLeft[pc'[d]] < PlacesLeft[pc[d]]
               \/ stage'[d] = stage[d] + 1
    BY <1>0, <1>2, ChainGoesOn
  <1>3. TypeOK'
    BY <1>0, NextTypeInv DEF TypeInv
  <1>4. PlacesLeft[pc'[d]] \in 0..8 /\ stage'[d] \in 0..6
    BY <1>3 DEF TypeOK, Places, PlacesLeft
  <1>5. ASSUME Reached(d, s, n) PROVE Reached(d, s, n)'
    <2>1. CASE UNCHANGED vars \/ Unmoved(d)
      BY <1>5, <2>1 DEF vars, tasks, Unmoved, Reached, At, Past
    <2>2. CASE <<TaskStep(d)>>_vars
      BY <1>0, <1>1, <1>2, <1>4, <1>5, <2>2 DEF Reached, At, Past
    <2> QED
      BY <1>0, <2>1, <2>2, OthersStay DEF vars, history
  <1>6. ASSUME At(d, s, n), <<TaskStep(d)>>_vars
        PROVE  \/ Past(d, s)'
               \/ stage'[d] = s /\ PlacesLeft[pc'[d]] < PlacesLeft[pc[d]]
    BY <1>0, <1>2, <1>6 DEF At, Past
  <1> QED
    BY <1>5, <1>6

\* The chain of d goes on for ever.
Lively(d) == Goes /\ Patient /\ []~Through(d)

Further(d, s, m, n) == Reached(d, s, m) ~> Reached(d, s, n)
Onwards(d, s, t) == Reached(d, s, 8) ~> Reached(d, t, 8)

\* One place further.
LEMMA PlaceByPlace ==
    ASSUME NEW d \in Deliveries, NEW s \in 0..6, NEW n \in 0..7, NEW m \in 1..8, m = n + 1
    PROVE  Lively(d) /\ Attended(d) => Further(d, s, m, n)
  <1> DEFINE Here == ~Through(d) /\ stage[d] = s /\ PlacesLeft[pc[d]] = m
             Steps == /\ Owned /\ Owned' /\ ~Through(d) /\ ~Through(d)'
                      /\ [Next]_vars /\ [faults' = faults]_vars /\ [NoRetry]_vars
  <1>1. Owned => PlacesLeft[pc[d]] \in 0..8
    BY PlacesFacts DEF Owned, TypeInv
  <1>2. Owned' => (PlacesLeft[pc[d]] \in 0..8)'
    BY <1>1, PTL
  <1>3. Owned /\ Reached(d, s, m) => Here \/ Reached(d, s, n)
    BY <1>1 DEF Reached, At
  <1>4. Steps /\ Here => Here' \/ Reached(d, s, n)'
    <2> SUFFICES ASSUME Steps, Here PROVE Here' \/ Reached(d, s, n)'
      OBVIOUS
    <2>1. Reached(d, s, m)
      BY DEF Reached, At
    <2>2. Reached(d, s, m)'
      BY <2>1, ReachedStays
    <2> QED
      BY <1>2, <2>2 DEF Reached, At
  <1>5. Steps /\ Here /\ <<TaskStep(d)>>_vars => Reached(d, s, n)'
    <2> SUFFICES ASSUME Steps, Here, <<TaskStep(d)>>_vars PROVE Reached(d, s, n)'
      OBVIOUS
    <2>1. At(d, s, m)
      BY DEF At
    <2>2. Past(d, s)' \/ (stage'[d] = s /\ PlacesLeft[pc'[d]] < m)
      BY <2>1, ReachedStays
    <2> QED
      BY <1>2, <2>2 DEF Reached, At
  <1>6. NeverStuck /\ Owned /\ Here => ENABLED <<TaskStep(d)>>_vars
    BY DEF Owned, NeverStuck, Through
  <1> HIDE DEF Here, Steps
  <1>7. Steps <=> /\ Owned /\ Owned' /\ ~Through(d) /\ ~Through(d)'
                  /\ [Next]_vars /\ [faults' = faults]_vars /\ [NoRetry]_vars
    BY DEF Steps
  <1> QED
    BY <1>3, <1>4, <1>5, <1>6, <1>7, PTL
    DEF Lively, Goes, Calm, Patient, Attended, Further

\* One stage further.
LEMMA StageByStage ==
    ASSUME NEW d \in Deliveries, NEW s \in 0..6, NEW t \in 1..7, t = s + 1
    PROVE  Lively(d) /\ Attended(d) => Onwards(d, s, t)
  <1>1. \A n \in 0..7 : \A m \in 1..8 : m = n + 1 =>
           (Lively(d) /\ Attended(d) => Further(d, s, m, n))
    BY PlaceByPlace
  <1>2. /\ Lively(d) /\ Attended(d) => Further(d, s, 8, 7)
        /\ Lively(d) /\ Attended(d) => Further(d, s, 7, 6)
        /\ Lively(d) /\ Attended(d) => Further(d, s, 6, 5)
        /\ Lively(d) /\ Attended(d) => Further(d, s, 5, 4)
        /\ Lively(d) /\ Attended(d) => Further(d, s, 4, 3)
        /\ Lively(d) /\ Attended(d) => Further(d, s, 3, 2)
        /\ Lively(d) /\ Attended(d) => Further(d, s, 2, 1)
        /\ Lively(d) /\ Attended(d) => Further(d, s, 1, 0)
    BY <1>1
  <1>3. Owned /\ Reached(d, s, 0) => Reached(d, t, 8)
    <2> SUFFICES ASSUME Owned, Reached(d, s, 0) PROVE Reached(d, t, 8)
      OBVIOUS
    <2>1. PlacesLeft[pc[d]] \in 0..8 /\ stage[d] \in 0..6
          /\ (PlacesLeft[pc[d]] = 0 <=> pc[d] = "idle")
      BY PlacesFacts DEF Owned, TypeInv, TypeOK
    <2> QED
      BY <2>1 DEF Reached, At, Past, Through
  <1> QED
    BY <1>2, <1>3, PTL DEF Lively, Goes, Further, Onwards

\* No chain goes on for ever: it has six stages after the first message.
LEMMA ChainsEnd ==
    ASSUME NEW d \in Deliveries
    PROVE  Lively(d) /\ Attended(d) => FALSE
  <1>1. Owned => Through(d) \/ Reached(d, 0, 8)
    BY PlacesFacts DEF Owned, TypeInv, TypeOK, Reached, At, Past
  <1>2. \A s \in 0..6 : \A t \in 1..7 : t = s + 1 =>
           (Lively(d) /\ Attended(d) => Onwards(d, s, t))
    BY StageByStage
  <1>3. /\ Lively(d) /\ Attended(d) => Onwards(d, 0, 1)
        /\ Lively(d) /\ Attended(d) => Onwards(d, 1, 2)
        /\ Lively(d) /\ Attended(d) => Onwards(d, 2, 3)
        /\ Lively(d) /\ Attended(d) => Onwards(d, 3, 4)
        /\ Lively(d) /\ Attended(d) => Onwards(d, 4, 5)
        /\ Lively(d) /\ Attended(d) => Onwards(d, 5, 6)
        /\ Lively(d) /\ Attended(d) => Onwards(d, 6, 7)
    BY <1>2
  <1>4. Owned => ~Reached(d, 7, 8)
    BY DEF Owned, TypeInv, TypeOK, Reached, At, Past
  <1> QED
    BY <1>1, <1>3, <1>4, PTL DEF Lively, Goes, Patient, Calm, Attended, Onwards

\* What ends a chain settles the job: an error, the report of the last stage,
\* or finding that done already.
LEMMA EndSettles ==
    ASSUME TypeInv, faults' = faults, NoRetry, Unsettled, Unsettled',
           NEW d \in Deliveries, ~Through(d), TaskStep(d)
    PROVE  ~Through(d)'
  <1>0. TypeOK
    BY DEF TypeInv
  <1> USE EndsSettled DEF Unsettled, Through
  <1>g. ASSUME NEW q \in Places \ {"idle"}, Goto(d, q) \/ \E x : Hold(d, q, x),
               q # "returned" \/ stage[d] # Package
        PROVE  ~Through(d)'
    BY <1>0, <1>g DEF Goto, Hold, TypeOK
  <1>p. {"returned", "entered", "starting", "calling", "failing", "reporting", "reading",
         "storing"} \subseteq Places \ {"idle"}
    BY DEF Places
  <1>1. CASE StartPipeline(d)
    BY <1>1, <1>p, <1>g DEF StartPipeline, Package
  <1>2. CASE CheckCancelled(d)
    BY <1>2, <1>p, <1>g DEF CheckCancelled
  <1>3. CASE CheckDone(d)
    BY <1>3, <1>p, <1>g DEF CheckDone
  <1>4. CASE Begin(d) \/ ReadInput(d) \/ \E error \in Errors \ {"lost"} : FailTask(d, error)
    BY <1>4, <1>p, <1>g DEF Begin, ReadInput, FailTask
  <1>5. CASE PublishNext(d)
    BY <1>5, <1>0, PublishReplaces DEF PublishNext
  <1>6. CASE DiarizeReport(d) \/ SynthesizeReport(d)
    BY <1>6, <1>p, <1>g DEF DiarizeReport, SynthesizeReport, Diarize, Synthesize, Package
  <1>7. CASE TranscribePersist(d) \/ TranslatePersist(d) \/ UploadVideo(d) \/ UploadOutputs(d)
    BY <1>7, <1>p, <1>g DEF TranscribePersist, TranslatePersist, UploadVideo, UploadOutputs
  <1>8. CASE SaveVideoKey(d) \/ SaveOutputKeys(d)
    BY <1>8, <1>p, <1>g DEF SaveVideoKey, SaveOutputKeys, SyncAv, Package
  <1>9. CASE Report(d)
    <2>1. stage[d] # Package
      BY <1>9 DEF Report
    <2> QED
      BY <1>9, <2>1, <1>p, <1>g DEF Report
  <1>10. ~(MarkFailed(d) \/ EndChain(d) \/ RetryTask(d))
    BY DEF MarkFailed, EndChain, NoRetry
  <1> QED
    BY <1>1, <1>2, <1>3, <1>4, <1>5, <1>6, <1>7, <1>8, <1>9, <1>10
    DEF TaskStep, StageWork

LEMMA NeverUnending ==
    ASSUME NEW d \in Deliveries
    PROVE  Unending /\ Attended(d) => []Through(d)
  <1>1. /\ Owned /\ [Next]_vars /\ [faults' = faults]_vars /\ [NoRetry]_vars
        /\ Unsettled /\ Unsettled' /\ ~Through(d)
        => ~Through(d)'
    <2> SUFFICES ASSUME Owned, [Next]_vars, [faults' = faults]_vars, [NoRetry]_vars,
                        Unsettled, Unsettled', ~Through(d)
                 PROVE  ~Through(d)'
      OBVIOUS
    <2>0. TypeInv /\ pc[d] # "idle"
      BY DEF Owned, Through
    <2>1. CASE UNCHANGED vars \/ Unmoved(d)
      BY <2>1 DEF vars, tasks, Unmoved, Through
    <2>2. CASE <<TaskStep(d)>>_vars
      BY <2>0, <2>2, EndSettles
    <2> QED
      BY <2>0, <2>1, <2>2, OthersStay DEF vars, history
  <1>2. Lively(d) /\ Attended(d) => FALSE
    BY ChainsEnd
  <1> QED
    BY <1>1, <1>2, PTL DEF Unending, Goes, Patient, Calm, Attended, Lively

LEMMA NotUnending == Unending /\ AllAttended /\ AllConcluded => FALSE
  <1>1. Unending /\ AllAttended => \A d \in Deliveries : []Through(d)
    BY NeverUnending DEF AllAttended
  <1>2. (\A d \in Deliveries : []Through(d)) => []AllThrough
    BY DEF AllThrough
  <1> QED
    BY <1>1, <1>2, SomebodyIsLeft, PTL DEF Unending

\* Every job is completed, failed or cancelled some time, and again after every
\* retry, unless it lost its message or its dispatch: once the faults are over
\* and no provider fails in the way that is retried, for any number of chains,
\* retries by users, cancellations and sweeps.
SettlesAgain == []<>(status \in Terminal \/ dropped)

THEOREM AlwaysSettlesAgain ==
    FairSpec /\ []GuardsSuffice /\ <>(Calm /\ Patient) => SettlesAgain
  <1>1. FairSpec => Spec /\ AllAttended /\ AllConcluded
    BY DEF FairSpec, Fairness, AllAttended, AllConcluded
  <1>2. Unending /\ AllAttended /\ AllConcluded => FALSE
    BY NotUnending
  <1>3. Unsettled \/ status \in Terminal \/ dropped
    BY DEF Unsettled
  <1> QED
    BY <1>1, <1>2, <1>3, TypeAlways, NeverOrphaned, NeverStuckByGuards,
       KeepAttended, KeepConcluded, PTL
    DEF Spec, SettlesAgain, Unending, Goes, Calm, Patient, Owned

---------------------------------------------------------------------------
(* And it stays settled, once users leave it alone: with no dispatch to come *)
(* the last chain ends, and nobody is left who takes a settled job up again. *)

NoResume == \A r \in Requests : ~RetryCommit(r)
Resigned == [][NoResume]_vars

\* At most one chain is left, and it is the last one.
Left == Calm /\ Patient /\ Resigned /\ []OneCarrier
Last == Goes /\ Left

Spent == AllThrough /\ NoDispatch

LEMMA NoNewDispatch ==
    ASSUME TypeOK, [Next]_vars, [NoResume]_vars, NEW r \in Requests, Dispatching(r)'
    PROVE  Dispatching(r)
  <1>1. CASE UNCHANGED op
    BY <1>1 DEF Dispatching
  <1>2. ASSUME NEW q \in Requests, Request(q), NoResume PROVE Dispatching(r)
    BY <1>2 DEF NoResume, Request, RequestEnd, DispatchPipeline, CancelCommit, EnqueueFails,
                RetryRead, CancelRead, ApiCrash, Dispatching, TypeOK
  <1>3. (\E d \in Deliveries : TaskStep(d) \/ TaskFault(d)) => UNCHANGED op
    BY ApiLeft DEF api
  <1> QED
    BY <1>1, <1>2, <1>3 DEF Next, RecoverSelect, RecoverCommit, vars, api

\* With no dispatch under way, no message appears.
LEMMA IdleForGood ==
    ASSUME TypeInv, [Next]_vars, [faults' = faults]_vars, NoDispatch,
           NEW d \in Deliveries, Idle(d)
    PROVE  Idle(d)'
  <1>0. TypeOK
    BY DEF TypeInv
  <1>1. CASE UNCHANGED pc
    BY <1>1 DEF Idle
  <1>2. ASSUME faults' = faults, NEW c \in Deliveries, TaskStep(c) PROVE Idle(d)'
    <2>1. c # d
      BY <1>2 DEF Idle, TaskStep, StageWork, StartPipeline, CheckCancelled, CheckDone, Begin,
             ReadInput, RetryTask, FailTask, MarkFailed, PublishNext, EndChain, DiarizeReport,
             TranscribePersist, TranslatePersist, SynthesizeReport, UploadVideo, SaveVideoKey,
             UploadOutputs, SaveOutputKeys, Report
    <2> QED
      BY <1>2, <2>1, TaskAlone DEF Unmoved, Idle
  <1>3. ASSUME faults' = faults, NEW c \in Deliveries, TaskFault(c) PROVE FALSE
    BY <1>0, <1>3, FaultsCount
  <1>4. ASSUME NEW r \in Requests, Request(r) PROVE UNCHANGED pc
    BY <1>4 DEF NoDispatch, Dispatching, Request, RequestEnd, DispatchPipeline, RetryCommit,
                CancelCommit, EnqueueFails, RetryRead, CancelRead, ApiCrash, tasks
  <1> QED
    BY <1>1, <1>2, <1>3, <1>4
    DEF Next, RecoverSelect, RecoverCommit, vars, tasks, history

LEMMA SpentStays ==
    ASSUME Owned, [Next]_vars, [faults' = faults]_vars, [NoResume]_vars, Spent
    PROVE  Spent'
  <1>0. TypeInv /\ TypeOK /\ AllThrough /\ NoDispatch
    BY DEF Owned, TypeInv, Spent
  <1>1. NoDispatch'
    BY <1>0, NoNewDispatch DEF NoDispatch
  <1>2. ASSUME NEW d \in Deliveries PROVE Through(d)'
    <2>1. CASE Idle(d)
      BY <1>0, <2>1, IdleForGood DEF Idle, Through
    <2>2. CASE pc[d] = "returned" /\ stage[d] = Package
      <3>1. CASE UNCHANGED vars \/ Unmoved(d)
        BY <2>2, <3>1 DEF vars, tasks, Unmoved, Through
      <3>2. CASE TaskStep(d)
        <4>1. EndChain(d)
          BY <2>2, <3>2 DEF TaskStep, StageWork, StartPipeline, CheckCancelled, CheckDone,
                 Begin, ReadInput, RetryTask, FailTask, MarkFailed, PublishNext, DiarizeReport,
                 TranscribePersist, TranslatePersist, SynthesizeReport, UploadVideo,
                 SaveVideoKey, UploadOutputs, SaveOutputKeys, Report, Package
        <4> QED
          BY <1>0, <4>1 DEF EndChain, Discard, Become, TypeOK, Through
      <3> QED
        BY <1>0, <2>2, <3>1, <3>2, OthersStay DEF vars, history
    <2> QED
      BY <1>0, <2>1, <2>2 DEF AllThrough, Through, Idle
  <1> QED
    BY <1>1, <1>2 DEF Spent, AllThrough

\* The dispatch that is under way is the last one, and it is made.
LEMMA LastDispatch ==
    ASSUME NEW r \in Requests
    PROVE  Last /\ Concluded(r) /\ <>Dispatching(r) => <>[]NoDispatch
  <1>1. /\ Owned /\ [Next]_vars /\ [NoResume]_vars /\ NoDispatch
        => NoDispatch'
    BY NoNewDispatch DEF Owned, TypeInv, NoDispatch
  <1>2. /\ Owned /\ [Next]_vars /\ [NoResume]_vars /\ OneCarrier /\ Dispatching(r)
        => Dispatching(r)' \/ NoDispatch'
    BY NoNewDispatch DEF Owned, TypeInv, NoDispatch, OneCarrier, Dispatching
  <1>3. Owned /\ Dispatching(r) /\ <<RequestEnd(r)>>_vars => ~Dispatching(r)'
    BY DEF Owned, TypeInv, TypeOK, Dispatching, RequestEnd, DispatchPipeline, RetryCommit,
           CancelCommit
  <1>4. NeverStuck /\ OneCarrier /\ Dispatching(r) => ENABLED <<RequestEnd(r)>>_vars
    BY DeliveriesAssumption DEF NeverStuck, OneCarrier, Dispatching
  <1> QED
    BY <1>1, <1>2, <1>3, <1>4, PTL DEF Last, Left, Goes, Resigned, Concluded

LEMMA NoMoreDispatch == Last /\ AllConcluded => <>[]NoDispatch
  <1> DEFINE Ever == <>[]NoDispatch
  <1>1. ASSUME NEW r \in Requests PROVE Last /\ Concluded(r) /\ ~Ever => []~Dispatching(r)
    <2>1. Last /\ Concluded(r) /\ <>Dispatching(r) => <>[]NoDispatch
      BY LastDispatch
    <2> QED
      BY <2>1, PTL
  <1> HIDE DEF Ever
  <1>2. Last /\ AllConcluded /\ ~Ever => \A r \in Requests : []~Dispatching(r)
    BY <1>1 DEF AllConcluded
  <1>3. (\A r \in Requests : []~Dispatching(r)) => []NoDispatch
    BY DEF NoDispatch
  <1>4. Ever <=> <>[]NoDispatch
    BY DEF Ever
  <1> QED
    BY <1>2, <1>3, <1>4, PTL

\* Only d is a message.
Lone(d) == \A e \in Deliveries \ {d} : Idle(e)

LEMMA LastChain ==
    ASSUME NEW d \in Deliveries
    PROVE  Last /\ []NoDispatch /\ []~AllThrough /\ Attended(d) => Through(d)
  <1>1. Owned /\ OneCarrier /\ ~Through(d) => Lone(d)
    BY DEF OneCarrier, Through, Lone, Idle
  <1>2. Owned /\ [Next]_vars /\ [faults' = faults]_vars /\ NoDispatch /\ Lone(d) => Lone(d)'
    BY IdleForGood DEF Owned, Lone
  <1>3. Lone(d) /\ ~AllThrough => ~Through(d)
    BY DEF Lone, Idle, AllThrough, Through
  <1>4. Lively(d) /\ Attended(d) => FALSE
    BY ChainsEnd
  <1> QED
    BY <1>1, <1>2, <1>3, <1>4, PTL DEF Last, Left, Goes, Calm, Lively

LEMMA SpentSometime == Last /\ []NoDispatch /\ AllAttended => <>AllThrough
  <1> DEFINE Rest == Last /\ []NoDispatch /\ []~AllThrough
  <1>1. ASSUME NEW d \in Deliveries PROVE Rest /\ Attended(d) => Through(d)
    BY LastChain
  <1> HIDE DEF Rest
  <1>2. Rest /\ AllAttended => AllThrough
    BY <1>1 DEF AllAttended, AllThrough
  <1>3. Rest <=> Last /\ []NoDispatch /\ []~AllThrough
    BY DEF Rest
  <1> QED
    BY <1>2, <1>3, PTL

\* Every job ends up completed, failed or cancelled and stays so, unless it lost
\* its message or its dispatch: whatever came before, once the faults are over,
\* no provider fails in the way that is retried, users retry it no more and all
\* chains but one have ended; for any number of messages and of requests.  (That
\* several chains end together is an induction over the chains, and stays with
\* the model checker, as does that retries run out by themselves.)
THEOREM AlwaysSettles == FairSpec /\ []GuardsSuffice /\ <>Left => Settles
  <1>1. FairSpec => Spec /\ AllAttended /\ AllConcluded
    BY DEF FairSpec, Fairness, AllAttended, AllConcluded
  <1>2. Owned /\ Spent => status \in Terminal \/ dropped
    <2> SUFFICES ASSUME Owned, Spent, ~dropped, status \notin Terminal PROVE FALSE
      OBVIOUS
    <2>1. Pursuers # {}
      BY DEF Owned, NoOrphan
    <2> QED
      BY <2>1 DEF Pursuers, Spent, AllThrough, Through, NoDispatch, Dispatching
  <1>3. Owned /\ [Next]_vars /\ [faults' = faults]_vars /\ [NoResume]_vars /\ Spent => Spent'
    BY SpentStays
  <1>4. AllThrough /\ NoDispatch => Spent
    BY DEF Spent
  <1>5. Last /\ AllConcluded => <>[]NoDispatch
    BY NoMoreDispatch
  <1>6. Last /\ []NoDispatch /\ AllAttended => <>AllThrough
    BY SpentSometime
  <1>7. Last => []Last
    BY PTL DEF Last, Left, Goes, Calm, Patient, Resigned
  <1> QED
    BY <1>1, <1>2, <1>3, <1>4, <1>5, <1>6, <1>7,
       TypeAlways, NeverOrphaned, NeverStuckByGuards, KeepAttended, KeepConcluded, PTL
    DEF Spec, Settles, Last, Left, Goes, Calm, Resigned, Owned
===========================================================================
