----------------------------- MODULE EagerProofs -----------------------------
(***************************************************************************)
(* The API process in broker-less mode behaves as Admission and as          *)
(* EagerDispatch at once, so that what is proved of either holds of it; and *)
(* the slots and the gauge are right for any number of threads and slots.   *)
(***************************************************************************)
EXTENDS EagerApi, AdmissionProofs

---------------------------------------------------------------------------
(* The composition. *)

LEMMA ComposedStep ==
    [EagerNext]_<<vars, pool>> => [Next]_vars /\ [PoolNext]_pool
  <1> SUFFICES ASSUME [EagerNext]_<<vars, pool>>
               PROVE  [Next]_vars /\ [PoolNext]_pool
    OBVIOUS
  <1>1. ASSUME NEW u \in Uploads, CountQueued(u), UNCHANGED pool
        PROVE  [Next]_vars /\ [PoolNext]_pool
    BY <1>1 DEF Next
  <1>2. ASSUME NEW u \in Uploads, EagerStep(u)
        PROVE  [Next]_vars /\ [PoolNext]_pool
    <2>1. CASE EagerEnqueue(u)
      <3>1. Step(u) /\ (StartThread \/ UNCHANGED pool)
        BY <2>1 DEF EagerEnqueue, Step
      <3> QED
        BY <3>1 DEF StartThread, Next, PoolNext
    <2>2. CASE /\ \/ Refuse(u) \/ Admit(u) \/ RejectUpload(u) \/ InsertJob(u)
                  \/ FailJob(u)
               /\ UNCHANGED pool
      BY <2>2 DEF Step, Next
    <2> QED
      BY <1>2, <2>1, <2>2 DEF EagerStep
  <1>3. CASE EagerRetry
    BY <1>3 DEF EagerRetry, StartThread, Next, PoolNext
  <1>4. CASE EagerLeave
    BY <1>4 DEF EagerLeave, Next
  <1>5. ASSUME NEW t \in Threads, PoolStep(t)
        PROVE  [Next]_vars /\ [PoolNext]_pool
    BY <1>5 DEF PoolStep, PoolNext
  <1>6. CASE ProcessDown
    BY <1>6 DEF ProcessDown, Next, PoolNext
  <1>7. CASE UNCHANGED <<vars, pool>>
    BY <1>7
  <1> QED
    BY <1>1, <1>2, <1>3, <1>4, <1>5, <1>6, <1>7 DEF EagerNext

\* The process in broker-less mode is both of its parts: every upload gate is
\* the one of Admission, every thread one of EagerDispatch, and starting a
\* thread takes nothing from the event loop.
THEOREM EagerImplementsParts == EagerSpec => Spec /\ PoolSpec
  <1>1. EagerInit => Init /\ PoolInit
    BY DEF EagerInit
  <1> QED
    BY <1>1, ComposedStep, PTL DEF EagerSpec, Spec, PoolSpec

---------------------------------------------------------------------------
(* The pool.  At most one thread updates the gauge while none overlapped, and *)
(* what it has read is then still there.                                     *)

PoolType ==
    /\ thread \in [Threads -> ThreadPlaces]
    /\ read \in [Threads -> Int]
    /\ slots \in Nat /\ processing \in Int /\ overlaps \in Nat

Alone == overlaps = 0 =>
    /\ \A t, o \in Updating : t = o
    /\ \A t \in Updating : read[t] = processing

PoolInv == PoolType /\ SlotsBalance /\ GaugeExact /\ Alone

LEMMA SlotsFact == Slots \in Nat /\ Slots > 0
  BY ProcessingAssumption DEF Slots

LEMMA ThreadSets ==
    ASSUME NEW S \in SUBSET Threads
    PROVE  IsFiniteSet(S) /\ Cardinality(S) \in Nat
  BY ThreadsAssumption, FS_Subset, FS_CardinalityType

LEMMA ThreadEnters ==
    ASSUME NEW S \in SUBSET Threads, NEW t \in Threads \ S
    PROVE  Cardinality(S \cup {t}) = Cardinality(S) + 1
  BY ThreadSets, FS_AddElement

LEMMA ThreadLeaves ==
    ASSUME NEW S \in SUBSET Threads, NEW t \in S
    PROVE  Cardinality(S \ {t}) = Cardinality(S) - 1
  BY ThreadSets, FS_RemoveElement

\* Moving one thread moves it in or out of the sets of threads.
LEMMA Moves ==
    ASSUME PoolType, NEW t \in Threads, NEW p \in ThreadPlaces, GoTo(t, p)
    PROVE  /\ thread' \in [Threads -> ThreadPlaces]
           /\ thread'[t] = p
           /\ \A o \in Threads \ {t} : thread'[o] = thread[o]
  BY DEF PoolType, GoTo

LEMMA PoolSets ==
    /\ Holding \in SUBSET Threads /\ Counted \in SUBSET Threads
    /\ Cardinality(Holding) \in Nat /\ Cardinality(Counted) \in Nat
  BY ThreadSets DEF Holding, Counted

LEMMA PoolInitInv == PoolInit => PoolInv
  <1> SUFFICES ASSUME PoolInit PROVE PoolInv
    OBVIOUS
  <1>1. PoolType
    BY SlotsFact DEF PoolInit, PoolType, ThreadPlaces
  <1>2. Holding = {} /\ Counted = {} /\ Updating = {}
    BY DEF PoolInit, Holding, Counted, Updating
  <1>3. SlotsBalance /\ GaugeExact
    BY <1>2, SlotsFact, FS_EmptySet DEF PoolInit, SlotsBalance, GaugeExact
  <1> QED
    BY <1>1, <1>2, <1>3 DEF PoolInv, Alone

LEMMA PoolTypeNext == PoolInv /\ [PoolNext]_pool => PoolType'
  <1> SUFFICES ASSUME PoolInv, [PoolNext]_pool PROVE PoolType'
    OBVIOUS
  <1>t. PoolType /\ slots \in Nat
    BY DEF PoolInv, PoolType
  <1> USE DEF ThreadPlaces
  <1>1. ASSUME NEW t \in Threads, Dispatch(t) PROVE PoolType'
    BY <1>1, <1>t, Moves DEF Dispatch, gauge, PoolType
  <1>2. ASSUME NEW t \in Threads, AcquireSlot(t) PROVE PoolType'
    BY <1>2, <1>t, Moves DEF AcquireSlot, ReadGauge, PoolType
  <1>3. ASSUME NEW t \in Threads, Inc(t) PROVE PoolType'
    BY <1>3, <1>t, Moves DEF Inc, WriteGauge, PoolType
  <1>4. ASSUME NEW t \in Threads, EndPipeline(t) PROVE PoolType'
    BY <1>4, <1>t, Moves DEF EndPipeline, ReadGauge, PoolType
  <1>5. ASSUME NEW t \in Threads, Dec(t) PROVE PoolType'
    BY <1>5, <1>t, Moves DEF Dec, WriteGauge, PoolType
  <1>6. ASSUME NEW t \in Threads, ReleaseSlot(t) PROVE PoolType'
    BY <1>6, <1>t, Moves DEF ReleaseSlot, gauge, PoolType
  <1>7. CASE PoolRestart
    BY <1>7, SlotsFact DEF PoolRestart, PoolType
  <1>8. CASE UNCHANGED pool
    BY <1>8, <1>t DEF pool, gauge, PoolType
  <1> QED
    BY <1>1, <1>2, <1>3, <1>4, <1>5, <1>6, <1>7, <1>8 DEF PoolNext, ThreadStep

LEMMA SlotsNext == PoolInv /\ [PoolNext]_pool => SlotsBalance'
  <1> SUFFICES ASSUME PoolInv, [PoolNext]_pool PROVE SlotsBalance'
    OBVIOUS
  <1>t. PoolType /\ slots \in Nat /\ SlotsBalance
    BY DEF PoolInv, PoolType
  <1>n. Cardinality(Holding) \in Nat /\ Holding \in SUBSET Threads
    BY PoolSets
  <1>0. ASSUME Holding' = Holding, slots' = slots PROVE SlotsBalance'
    BY <1>0, <1>t DEF SlotsBalance
  <1> USE DEF ThreadPlaces
  <1>1. ASSUME NEW t \in Threads, Dispatch(t) PROVE SlotsBalance'
    <2>1. Holding' = Holding
      BY <1>1, <1>t, Moves DEF Dispatch, Holding
    <2> QED
      BY <1>0, <1>1, <2>1 DEF Dispatch
  <1>2. ASSUME NEW t \in Threads, AcquireSlot(t) PROVE SlotsBalance'
    <2>1. t \notin Holding /\ Holding' = Holding \cup {t}
      BY <1>2, <1>t, Moves DEF AcquireSlot, Holding
    <2>2. Cardinality(Holding') = Cardinality(Holding) + 1
      BY <2>1, <1>n, ThreadEnters
    <2> QED
      BY <1>2, <1>t, <1>n, <2>2, SlotsFact DEF AcquireSlot, SlotsBalance
  <1>3. ASSUME NEW t \in Threads, Inc(t) \/ EndPipeline(t) \/ Dec(t)
        PROVE  SlotsBalance'
    <2>1. Holding' = Holding
      BY <1>3, <1>t, Moves DEF Inc, EndPipeline, Dec, Holding
    <2> QED
      BY <1>0, <1>3, <2>1 DEF Inc, EndPipeline, Dec
  <1>6. ASSUME NEW t \in Threads, ReleaseSlot(t) PROVE SlotsBalance'
    <2>1. t \in Holding /\ Holding' = Holding \ {t}
      BY <1>6, <1>t, Moves DEF ReleaseSlot, Holding
    <2>2. Cardinality(Holding') = Cardinality(Holding) - 1
      BY <2>1, <1>n, ThreadLeaves
    <2>3. Cardinality(Holding') \in Nat
      BY <2>1, <1>n, ThreadSets
    <2> QED
      BY <1>6, <1>t, <1>n, <2>2, <2>3, SlotsFact DEF ReleaseSlot, SlotsBalance
  <1>7. CASE PoolRestart
    <2>1. Holding' = {}
      BY <1>7 DEF PoolRestart, Holding
    <2> QED
      BY <1>7, <2>1, SlotsFact, FS_EmptySet DEF PoolRestart, SlotsBalance
  <1>8. CASE UNCHANGED pool
    <2>1. Holding' = Holding
      BY <1>8 DEF pool, Holding
    <2> QED
      BY <1>0, <1>8, <2>1 DEF pool
  <1> QED
    BY <1>1, <1>2, <1>3, <1>6, <1>7, <1>8 DEF PoolNext, ThreadStep

\* A thread that begins an update alone reads the gauge as it is; nobody else
\* writes it before that thread does.
LEMMA GaugeNext == PoolInv /\ [PoolNext]_pool => GaugeExact' /\ Alone'
  <1> SUFFICES ASSUME PoolInv, [PoolNext]_pool PROVE GaugeExact' /\ Alone'
    OBVIOUS
  <1>t. PoolType /\ overlaps \in Nat /\ processing \in Int /\ GaugeExact /\ Alone
    BY DEF PoolInv, PoolType
  <1>n. Cardinality(Counted) \in Nat /\ Counted \in SUBSET Threads
    BY PoolSets
  <1>0. ASSUME Counted' = Counted, Updating' = Updating, UNCHANGED gauge
        PROVE  GaugeExact' /\ Alone'
    BY <1>0, <1>t DEF gauge, GaugeExact, Alone
  <1> USE DEF ThreadPlaces
  <1>1. ASSUME NEW t \in Threads, Dispatch(t) \/ ReleaseSlot(t)
        PROVE  GaugeExact' /\ Alone'
    <2>1. Counted' = Counted /\ Updating' = Updating
      BY <1>1, <1>t, Moves DEF Dispatch, ReleaseSlot, Counted, Updating
    <2> QED
      BY <1>0, <1>1, <2>1 DEF Dispatch, ReleaseSlot
  <1>2. ASSUME NEW t \in Threads, AcquireSlot(t) \/ EndPipeline(t)
        PROVE  GaugeExact' /\ Alone'
    <2>1. Counted' = Counted /\ Updating' = Updating \cup {t}
      BY <1>2, <1>t, Moves DEF AcquireSlot, EndPipeline, Counted, Updating
    <2>2. /\ processing' = processing
          /\ read' = [read EXCEPT ![t] = processing]
          /\ overlaps' = 0 => overlaps = 0 /\ Updating = {}
      BY <1>2, <1>t DEF AcquireSlot, EndPipeline, ReadGauge
    <2>3. read'[t] = processing
      BY <2>2, <1>t DEF PoolType
    <2> QED
      BY <1>t, <2>1, <2>2, <2>3 DEF GaugeExact, Alone
  <1>3. ASSUME NEW t \in Threads, Inc(t) PROVE GaugeExact' /\ Alone'
    <2>1. /\ t \notin Counted /\ Counted' = Counted \cup {t}
          /\ t \in Updating /\ Updating' = Updating \ {t}
      BY <1>3, <1>t, Moves DEF Inc, Counted, Updating
    <2>2. Cardinality(Counted') = Cardinality(Counted) + 1
      BY <2>1, <1>n, ThreadEnters
    <2>3. processing' = read[t] + 1 /\ overlaps' = overlaps
      BY <1>3 DEF Inc, WriteGauge
    <2>4. overlaps = 0 => read[t] = processing /\ Updating' = {}
      BY <1>t, <2>1 DEF Alone
    <2> QED
      BY <1>t, <2>2, <2>3, <2>4 DEF GaugeExact, Alone
  <1>4. ASSUME NEW t \in Threads, Dec(t) PROVE GaugeExact' /\ Alone'
    <2>1. /\ t \in Counted /\ Counted' = Counted \ {t}
          /\ t \in Updating /\ Updating' = Updating \ {t}
      BY <1>4, <1>t, Moves DEF Dec, Counted, Updating
    <2>2. Cardinality(Counted') = Cardinality(Counted) - 1
      BY <2>1, <1>n, ThreadLeaves
    <2>3. processing' = read[t] - 1 /\ overlaps' = overlaps
      BY <1>4 DEF Dec, WriteGauge
    <2>4. overlaps = 0 => read[t] = processing /\ Updating' = {}
      BY <1>t, <2>1 DEF Alone
    <2> QED
      BY <1>t, <2>2, <2>3, <2>4 DEF GaugeExact, Alone
  <1>7. CASE PoolRestart
    <2>1. Counted' = {} /\ Updating' = {} /\ processing' = 0
      BY <1>7 DEF PoolRestart, Counted, Updating
    <2> QED
      BY <2>1, FS_EmptySet DEF GaugeExact, Alone
  <1>8. CASE UNCHANGED pool
    <2>1. Counted' = Counted /\ Updating' = Updating
      BY <1>8 DEF pool, Counted, Updating
    <2> QED
      BY <1>0, <1>8, <2>1 DEF pool
  <1> QED
    BY <1>1, <1>2, <1>3, <1>4, <1>7, <1>8 DEF PoolNext, ThreadStep

LEMMA PoolAlways == PoolSpec => []PoolInv
  <1>1. PoolInv /\ [PoolNext]_pool => PoolInv'
    BY PoolTypeNext, SlotsNext, GaugeNext DEF PoolInv
  <1> QED
    BY PoolInitInv, <1>1, PTL DEF PoolSpec

\* However a pipeline ends, its thread gives the slot back, for any number of
\* threads and slots.
THEOREM SlotsAlwaysBalance == EagerSpec => []SlotsBalance
  <1>1. PoolInv => SlotsBalance
    BY DEF PoolInv
  <1> QED
    BY <1>1, PoolAlways, EagerImplementsParts, PTL

\* The gauge counts the pipelines at work until two of its updates overlap.
THEOREM GaugeAlwaysExact == EagerSpec => []GaugeExact
  <1>1. PoolInv => GaugeExact
    BY DEF PoolInv
  <1> QED
    BY <1>1, PoolAlways, EagerImplementsParts, PTL

\* The gates of the upload hold in broker-less mode too.
THEOREM EagerPermitsBalance == EagerSpec => []PermitsBalance
  BY PermitsAlwaysBalance, EagerImplementsParts, PTL

\* As many queued jobs as Admission allows, and no more: the threads that fail
\* to start do not upset the count.
THEOREM EagerOvershootBounded == EagerSpec => []OvershootBounded
  BY OvershootAlwaysBounded, EagerImplementsParts, PTL

---------------------------------------------------------------------------
(* The pool does not come to a stop.  A thread at one of the short steps can  *)
(* take it; where none is, a pipeline at work can end; and where none is at   *)
(* work nobody holds a slot, so that there is one for the thread that waits.  *)

LEMMA SomebodyRuns == PoolInv => NoStandstill
  <1> SUFFICES ASSUME PoolInv, NEW t \in Threads, thread[t] # "none"
               PROVE  \E o \in Threads : Runnable(o)
    BY DEF NoStandstill
  <1>1. CASE \E o \in Threads : thread[o] \in {"incrementing", "decrementing", "releasing"}
    BY <1>1 DEF Runnable
  <1>2. CASE \A o \in Threads : thread[o] \notin {"incrementing", "decrementing", "releasing"}
    <2>1. Updating = {}
      BY <1>2 DEF Updating
    <2>2. CASE \E o \in Threads : thread[o] = "working"
      BY <2>1, <2>2 DEF Runnable
    <2>3. CASE \A o \in Threads : thread[o] # "working"
      <3>1. Holding = {} /\ thread[t] = "waiting"
        BY <1>2, <2>3 DEF Holding, PoolInv, PoolType, ThreadPlaces
      <3>2. slots > 0
        BY <3>1, SlotsFact, FS_EmptySet DEF PoolInv, PoolType, SlotsBalance
      <3> QED
        BY <2>1, <3>1, <3>2 DEF Runnable
    <2> QED
      BY <2>2, <2>3
  <1> QED
    BY <1>1, <1>2

\* Some thread can go on while there is one, for any number of threads and slots.
THEOREM PoolNeverStandsStill == EagerSpec => []NoStandstill
  BY SomebodyRuns, PoolAlways, EagerImplementsParts, PTL

---------------------------------------------------------------------------
(* A request goes through its places in one direction, and the loop that     *)
(* resumes it takes it to the end.                                           *)

StepsLeft == [counted |-> 4, uploading |-> 3, inserted |-> 2, failing |-> 1, idle |-> 0]

LEMMA StepsLeftFacts ==
    ASSUME TypeOK, NEW u \in Uploads
    PROVE  /\ StepsLeft[pc[u]] \in 0..4
           /\ StepsLeft[pc[u]] = 0 <=> pc[u] = "idle"
           /\ pc[u] = "counted" => StepsLeft[pc[u]] = 4
  BY DEF StepsLeft, TypeOK, Places

LEMMA StepLowers ==
    ASSUME TypeOK, NEW c \in Uploads, NEW u \in Uploads, Step(c), pc[u] # "idle"
    PROVE  IF c = u THEN StepsLeft[pc'[u]] < StepsLeft[pc[u]] ELSE pc'[u] = pc[u]
  <1>1. CASE Refuse(c)
    BY <1>1 DEF Refuse, Answer, StepsLeft, TypeOK
  <1>2. CASE Admit(c)
    BY <1>2 DEF Admit, StepsLeft, TypeOK
  <1>3. CASE RejectUpload(c)
    BY <1>3 DEF RejectUpload, Answer, StepsLeft, TypeOK
  <1>4. CASE InsertJob(c)
    BY <1>4 DEF InsertJob, StepsLeft, TypeOK
  <1>5. CASE Enqueue(c)
    <2>1. pc[c] = "inserted"
      BY <1>5 DEF Enqueue
    <2>2. pc' = [pc EXCEPT ![c] = "idle"] \/ pc' = [pc EXCEPT ![c] = "failing"]
      BY <1>5 DEF Enqueue, Answer
    <2> QED
      BY <2>1, <2>2 DEF StepsLeft, TypeOK
  <1>6. CASE FailJob(c)
    BY <1>6 DEF FailJob, Answer, StepsLeft, TypeOK
  <1> QED
    BY <1>1, <1>2, <1>3, <1>4, <1>5, <1>6 DEF Step

LEMMA OwnStep ==
    ASSUME NEW u \in Uploads, EagerStep(u)
    PROVE  Step(u)
  BY DEF EagerStep, EagerEnqueue, Step

LEMMA NextLowers ==
    ASSUME TypeOK, [Next]_vars, NEW u \in Uploads, pc[u] # "idle"
    PROVE  pc'[u] = pc[u] \/ StepsLeft[pc'[u]] < StepsLeft[pc[u]]
  <1>1. ASSUME NEW c \in Uploads, CountQueued(c) PROVE pc'[u] = pc[u]
    BY <1>1 DEF CountQueued, TypeOK
  <1>2. ASSUME NEW c \in Uploads, Step(c)
        PROVE  pc'[u] = pc[u] \/ StepsLeft[pc'[u]] < StepsLeft[pc[u]]
    BY <1>2, StepLowers
  <1>3. CASE LeaveQueue \/ RetryJob \/ UNCHANGED vars
    BY <1>3 DEF LeaveQueue, RetryJob, vars
  <1>4. CASE ApiRestart
    <2>1. pc'[u] = "idle"
      BY <1>4 DEF ApiRestart
    <2> QED
      BY <2>1 DEF StepsLeft, TypeOK, Places
  <1> QED
    BY <1>1, <1>2, <1>3, <1>4 DEF Next

LEMMA TypeAlways == EagerSpec => []TypeOK
  <1>1. AdmissionInv => TypeOK
    BY DEF AdmissionInv
  <1> QED
    BY <1>1, AlwaysAdmission, EagerImplementsParts, PTL

\* What the theorem needs to know of ENABLED, which the prover cannot compute,
\* is that an action is enabled where its guard holds.

\* The guards of the steps of a request, as their actions state them.
Resumable(u) ==
    \/ pc[u] = "counted" /\ (~RoomInQueue(u) \/ permits = 0)
    \/ pc[u] = "counted" /\ RoomInQueue(u) /\ permits > 0
    \/ pc[u] = "uploading"
    \/ pc[u] = "inserted"
    \/ pc[u] = "failing"

\* No step asks for more than its guard, a thread for the pipeline included:
\* dispatch_pipeline raises where it cannot start one.
GuardsSuffice ==
    \A u \in Uploads : Resumable(u) => ENABLED <<EagerStep(u)>>_<<vars, pool>>

\* The two gates leave no gap between them: a request that is not admitted is
\* refused, with the semaphore at any value it can have.
LEMMA AlwaysResumable ==
    ASSUME TypeOK, NEW u \in Uploads, pc[u] # "idle"
    PROVE  Resumable(u)
  <1>1. permits \in 0..MaxConcurrentUploads /\ pc[u] \in Places
    BY DEF TypeOK
  <1>2. permits = 0 \/ permits > 0
    BY <1>1, LimitsAssumption
  <1> QED
    BY <1>1, <1>2 DEF Resumable, Places

\* A request in progress can go on: upload_video turns it away, it does not
\* queue it.
RequestsGoOn ==
    \A u \in Uploads : pc[u] # "idle" => ENABLED <<EagerStep(u)>>_<<vars, pool>>

LEMMA RequestsGoOnByGuards == EagerSpec /\ []GuardsSuffice => []RequestsGoOn
  <1>1. TypeOK /\ GuardsSuffice => RequestsGoOn
    BY AlwaysResumable DEF GuardsSuffice, RequestsGoOn
  <1> QED
    BY <1>1, TypeAlways, PTL

AtMost(u, n)   == StepsLeft[pc[u]] <= n
Tended(u)      == EagerSpec /\ Resumed(u) /\ []RequestsGoOn
GoesDown(u, n) == AtMost(u, n + 1) ~> AtMost(u, n)

LEMMA OneDown ==
    ASSUME NEW u \in Uploads, NEW n \in 0..3
    PROVE  Tended(u) => GoesDown(u, n)
  <1> DEFINE At == StepsLeft[pc[u]] = n + 1
  <1>1. TypeOK /\ At => pc[u] # "idle"
    BY StepsLeftFacts
  <1>2. TypeOK /\ AtMost(u, n + 1) => At \/ AtMost(u, n)
    BY StepsLeftFacts DEF AtMost
  <1>3. TypeOK /\ TypeOK' /\ At /\ [EagerNext]_<<vars, pool>> => At' \/ AtMost(u, n)'
    <2> SUFFICES ASSUME TypeOK, TypeOK', At, [EagerNext]_<<vars, pool>>
                 PROVE  At' \/ AtMost(u, n)'
      OBVIOUS
    <2>1. pc'[u] = pc[u] \/ StepsLeft[pc'[u]] < n + 1
      BY <1>1, ComposedStep, NextLowers
    <2>2. StepsLeft[pc'[u]] \in 0..4
      BY DEF TypeOK, StepsLeft, Places
    <2> QED
      BY <2>1, <2>2 DEF AtMost
  <1>4. TypeOK /\ TypeOK' /\ At /\ <<EagerStep(u)>>_<<vars, pool>> => AtMost(u, n)'
    <2> SUFFICES ASSUME TypeOK, TypeOK', At, EagerStep(u) PROVE AtMost(u, n)'
      OBVIOUS
    <2>1. StepsLeft[pc'[u]] < n + 1
      BY <1>1, OwnStep, StepLowers
    <2>2. StepsLeft[pc'[u]] \in 0..4
      BY DEF TypeOK, StepsLeft, Places
    <2> QED
      BY <2>1, <2>2 DEF AtMost
  <1>5. RequestsGoOn /\ TypeOK /\ At => ENABLED <<EagerStep(u)>>_<<vars, pool>>
    BY <1>1 DEF RequestsGoOn
  <1> QED
    BY <1>2, <1>3, <1>4, <1>5, TypeAlways, PTL DEF EagerSpec, Resumed, Tended, GoesDown

\* Where the event loop resumes the handlers, every upload request is answered,
\* for any number of requests and any limits, a limit of no uploads included.
THEOREM AlwaysAnswered == EagerFairSpec /\ []GuardsSuffice => Answered
  <1> SUFFICES ASSUME NEW u \in Uploads
               PROVE  EagerFairSpec /\ []GuardsSuffice => (pc[u] = "counted" ~> pc[u] = "idle")
    BY DEF Answered
  <1>1. EagerFairSpec => EagerSpec /\ Resumed(u)
    <2>1. EagerFairSpec => EagerSpec /\ EagerFairness
      BY DEF EagerFairSpec
    <2>2. EagerFairness => \A v \in Uploads : Resumed(v)
      BY DEF EagerFairness
    <2> QED
      BY <2>1, <2>2
  <1>2. TypeOK /\ pc[u] = "counted" => AtMost(u, 3 + 1)
    BY StepsLeftFacts DEF AtMost
  <1>3. TypeOK /\ AtMost(u, 0) => pc[u] = "idle"
    BY StepsLeftFacts DEF AtMost
  <1>4. \A n \in 0..3 : Tended(u) => GoesDown(u, n)
    BY OneDown
  <1>5. /\ Tended(u) => GoesDown(u, 3)
        /\ Tended(u) => GoesDown(u, 2)
        /\ Tended(u) => GoesDown(u, 1)
        /\ Tended(u) => GoesDown(u, 0)
    BY <1>4
  <1>6. /\ AtMost(u, 3) <=> AtMost(u, 2 + 1)
        /\ AtMost(u, 2) <=> AtMost(u, 1 + 1)
        /\ AtMost(u, 1) <=> AtMost(u, 0 + 1)
    BY DEF AtMost
  <1> QED
    BY <1>1, <1>2, <1>3, <1>5, <1>6, TypeAlways, RequestsGoOnByGuards, PTL
    DEF Tended, GoesDown

=============================================================================
