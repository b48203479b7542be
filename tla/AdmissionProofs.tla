-------------------------- MODULE AdmissionProofs --------------------------
(***************************************************************************)
(* Theorems about Admission, for every number of requests and every limit. *)
(* The three invariants are proved together: the semaphore stays within    *)
(* its limit because the permits balance, and the promises are bounded     *)
(* because every variable has its type.                                    *)
(***************************************************************************)
EXTENDS Admission, FiniteSetTheorems, TLAPS

AdmissionInv == TypeOK /\ PermitsBalance /\ PromisesBounded

---------------------------------------------------------------------------
(* Counting requests. *)

LEMMA SomeUploads == Cardinality(Uploads) \in Nat /\ Cardinality(Uploads) > 0
  BY UploadsAssumption, FS_CardinalityType, FS_EmptySet

LEMMA SubsetCount ==
    ASSUME NEW S \in SUBSET Uploads
    PROVE  /\ IsFiniteSet(S) /\ Cardinality(S) \in Nat
           /\ Cardinality(S) <= Cardinality(Uploads)
  BY UploadsAssumption, FS_Subset, FS_CardinalityType

\* A request enters the set, or leaves it.
LEMMA Entering ==
    ASSUME NEW S \in SUBSET Uploads, NEW u \in Uploads \ S
    PROVE  Cardinality(S \cup {u}) = Cardinality(S) + 1
  BY SubsetCount, FS_AddElement

LEMMA Leaving ==
    ASSUME NEW S \in SUBSET Uploads, NEW u \in S
    PROVE  Cardinality(S \ {u}) = Cardinality(S) - 1
  BY SubsetCount, FS_RemoveElement

LEMMA Counts ==
    /\ Holders \in SUBSET Uploads /\ Promised \in SUBSET Uploads
    /\ Cardinality(Holders) \in Nat /\ Cardinality(Promised) \in Nat
    /\ Cardinality(Promised) <= Cardinality(Uploads)
  BY SubsetCount DEF Holders, Promised

LEMMA CountsNext ==
    /\ Holders' \in SUBSET Uploads /\ Promised' \in SUBSET Uploads
    /\ Cardinality(Holders') \in Nat /\ Cardinality(Promised') \in Nat
    /\ Cardinality(Promised') <= Cardinality(Uploads)
  <1>1. Holders' \in SUBSET Uploads /\ Promised' \in SUBSET Uploads
    BY DEF Holders, Promised
  <1> QED
    BY <1>1, SubsetCount

---------------------------------------------------------------------------
(* The invariant. *)

LEMMA InitAdmission == Init => AdmissionInv
  <1> SUFFICES ASSUME Init PROVE AdmissionInv
    OBVIOUS
  <1> USE LimitsAssumption DEF Init
  <1>1. TypeOK
    BY DEF TypeOK, Places
  <1>2. Holders = {} /\ Promised = {}
    BY DEF Holders, Promised
  <1>3. PermitsBalance
    BY <1>2, FS_EmptySet DEF PermitsBalance
  <1>4. PromisesBounded
    BY <1>2, SomeUploads, FS_EmptySet DEF PromisesBounded
  <1> QED
    BY <1>1, <1>3, <1>4 DEF AdmissionInv

\* The type of what an action assigns, but for the semaphore and the gauge,
\* which the balance bounds.
Plain ==
    /\ fresh \in Nat /\ retried \in Nat /\ left \in Nat
    /\ pc \in [Uploads -> Places]
    /\ seen \in [Uploads -> Nat]
    /\ permits \in Nat

LEMMA PlainNext == AdmissionInv /\ [Next]_vars => Plain'
  <1> SUFFICES ASSUME AdmissionInv, [Next]_vars PROVE Plain'
    OBVIOUS
  <1> USE LimitsAssumption DEF AdmissionInv, TypeOK, Plain, queue, gate, Queued, Places
  <1>1. ASSUME NEW u \in Uploads, CountQueued(u) PROVE Plain'
    BY <1>1 DEF CountQueued
  <1>2. ASSUME NEW u \in Uploads, Step(u) PROVE Plain'
    <2>1. CASE Refuse(u)
      BY <2>1 DEF Refuse, Answer
    <2>2. CASE Admit(u)
      BY <2>2 DEF Admit, Acquire
    <2>3. CASE RejectUpload(u)
      BY <2>3 DEF RejectUpload, Answer, Release
    <2>4. CASE InsertJob(u)
      BY <2>4 DEF InsertJob
    <2>5. CASE Enqueue(u)
      BY <2>5 DEF Enqueue, Answer, Release
    <2>6. CASE FailJob(u)
      BY <2>6 DEF FailJob, Answer
    <2> QED
      BY <1>2, <2>1, <2>2, <2>3, <2>4, <2>5, <2>6 DEF Step
  <1>3. CASE LeaveQueue
    BY <1>3 DEF LeaveQueue
  <1>4. CASE RetryJob
    BY <1>4 DEF RetryJob
  <1>5. CASE ApiRestart
    BY <1>5 DEF ApiRestart
  <1>6. CASE UNCHANGED vars
    BY <1>6 DEF vars
  <1> QED
    BY <1>1, <1>2, <1>3, <1>4, <1>5, <1>6 DEF Next

LEMMA NextBalance == AdmissionInv /\ [Next]_vars => PermitsBalance'
  <1> SUFFICES ASSUME AdmissionInv, [Next]_vars PROVE PermitsBalance'
    OBVIOUS
  <1> USE Counts, CountsNext, LimitsAssumption DEF AdmissionInv, PermitsBalance
  <1>1. ASSUME Holders' = Holders, UNCHANGED gate PROVE PermitsBalance'
    BY <1>1 DEF gate
  <1>2. ASSUME NEW u \in Uploads, CountQueued(u) PROVE PermitsBalance'
    <2>1. Holders' = Holders
      BY <1>2 DEF CountQueued, Holders, TypeOK
    <2> QED
      BY <1>1, <1>2, <2>1 DEF CountQueued
  <1>3. ASSUME NEW u \in Uploads, Step(u) PROVE PermitsBalance'
    <2>1. CASE Refuse(u)
      <3>1. Holders' = Holders
        BY <2>1 DEF Refuse, Answer, Holders, TypeOK
      <3> QED
        BY <1>1, <2>1, <3>1 DEF Refuse
    <2>2. CASE Admit(u)
      <3>1. u \notin Holders /\ Holders' = Holders \cup {u}
        BY <2>2 DEF Admit, Holders, TypeOK
      <3>2. Cardinality(Holders') = Cardinality(Holders) + 1
        BY <3>1, Entering
      <3> QED
        BY <2>2, <3>2 DEF Admit, Acquire, TypeOK
    <2>3. CASE RejectUpload(u) \/ Enqueue(u)
      <3>1. u \in Holders /\ Holders' = Holders \ {u} /\ Release
        BY <2>3 DEF RejectUpload, Enqueue, Answer, Holders, TypeOK
      <3>2. Cardinality(Holders') = Cardinality(Holders) - 1
        BY <3>1, Leaving
      <3> QED
        BY <3>1, <3>2 DEF Release, TypeOK
    <2>4. CASE InsertJob(u)
      <3>1. Holders' = Holders
        BY <2>4 DEF InsertJob, Holders, TypeOK
      <3> QED
        BY <1>1, <2>4, <3>1 DEF InsertJob
    <2>5. CASE FailJob(u)
      <3>1. Holders' = Holders
        BY <2>5 DEF FailJob, Answer, Holders, TypeOK
      <3> QED
        BY <1>1, <2>5, <3>1 DEF FailJob
    <2> QED
      BY <1>3, <2>1, <2>2, <2>3, <2>4, <2>5 DEF Step
  <1>4. ASSUME UNCHANGED <<pc, gate>> PROVE PermitsBalance'
    <2>1. Holders' = Holders
      BY <1>4 DEF Holders
    <2> QED
      BY <1>1, <1>4, <2>1
  <1>5. LeaveQueue \/ RetryJob \/ UNCHANGED vars => UNCHANGED <<pc, gate>>
    BY DEF LeaveQueue, RetryJob, vars
  <1>6. CASE ApiRestart
    <2>1. Holders' = {}
      BY <1>6 DEF ApiRestart, Holders
    <2> QED
      BY <1>6, <2>1, FS_EmptySet DEF ApiRestart
  <1> QED
    BY <1>2, <1>3, <1>4, <1>5, <1>6 DEF Next

\* A request that counts may promise a place only below the limit, and those
\* that have promised one are at most all of them; every other step uses a
\* promise, breaks it, or takes a job out of the queue.
LEMMA NextPromises == AdmissionInv /\ [Next]_vars => PromisesBounded'
  <1> SUFFICES ASSUME AdmissionInv, [Next]_vars PROVE PromisesBounded'
    OBVIOUS
  <1> USE Counts, CountsNext, SomeUploads, LimitsAssumption
      DEF AdmissionInv, PromisesBounded
  <1>0. fresh \in Nat /\ fresh' \in Nat
    BY PlainNext DEF Plain, TypeOK
  <1>1. ASSUME Promised' \subseteq Promised, fresh' <= fresh PROVE PromisesBounded'
    <2>1. Cardinality(Promised') <= Cardinality(Promised)
      BY <1>1, SubsetCount, FS_Subset
    <2> QED
      BY <1>0, <1>1, <2>1
  <1>2. ASSUME NEW u \in Uploads, CountQueued(u) PROVE PromisesBounded'
    <2>1. fresh' = fresh /\ pc'[u] = "counted" /\ seen'[u] = fresh + retried
      BY <1>2 DEF CountQueued, queue, TypeOK, Queued
    <2>2. CASE seen'[u] < QueueMaxLength
      BY <1>0, <2>1, <2>2 DEF TypeOK
    <2>3. CASE ~(seen'[u] < QueueMaxLength)
      <3>1. Promised' \subseteq Promised
        BY <1>2, <2>1, <2>3 DEF CountQueued, Promised, RoomInQueue, TypeOK
      <3> QED
        BY <1>0, <1>1, <2>1, <3>1
    <2> QED
      BY <2>2, <2>3
  <1>3. ASSUME NEW u \in Uploads, Step(u) PROVE PromisesBounded'
    <2>1. CASE InsertJob(u)
      <3>1. u \in Promised /\ Promised' = Promised \ {u}
        BY <2>1 DEF InsertJob, Promised, RoomInQueue, TypeOK
      <3>2. Cardinality(Promised') = Cardinality(Promised) - 1
        BY <3>1, Leaving
      <3> QED
        BY <1>0, <2>1, <3>2 DEF InsertJob
    <2>2. CASE Admit(u)
      <3>1. Promised' \subseteq Promised
        BY <2>2 DEF Admit, Promised, RoomInQueue, TypeOK
      <3> QED
        BY <1>0, <1>1, <2>2, <3>1 DEF Admit, queue
    <2>3. CASE Refuse(u) \/ RejectUpload(u) \/ Enqueue(u) \/ FailJob(u)
      <3>1. Promised' \subseteq Promised
        BY <2>3 DEF Refuse, RejectUpload, Enqueue, FailJob, Answer, Promised,
                    RoomInQueue, TypeOK
      <3>2. fresh' <= fresh
        BY <1>0, <2>3 DEF Refuse, RejectUpload, Enqueue, FailJob, queue
      <3> QED
        BY <1>1, <3>1, <3>2
    <2> QED
      BY <1>3, <2>1, <2>2, <2>3 DEF Step
  <1>4. CASE LeaveQueue \/ RetryJob \/ UNCHANGED vars
    <2>1. Promised' = Promised
      BY <1>4 DEF LeaveQueue, RetryJob, vars, Promised, RoomInQueue
    <2>2. fresh' <= fresh
      BY <1>0, <1>4 DEF LeaveQueue, RetryJob, vars, queue
    <2> QED
      BY <1>1, <2>1, <2>2
  <1>5. CASE ApiRestart
    <2>1. Promised' = {} /\ fresh' = fresh
      BY <1>5 DEF ApiRestart, Promised, queue
    <2> QED
      BY <1>1, <1>0, <2>1
  <1> QED
    BY <1>2, <1>3, <1>4, <1>5 DEF Next

\* Every step keeps the three together.
THEOREM NextAdmission == AdmissionInv /\ [Next]_vars => AdmissionInv'
  <1> SUFFICES ASSUME AdmissionInv, [Next]_vars PROVE AdmissionInv'
    OBVIOUS
  <1>1. PermitsBalance' /\ PromisesBounded' /\ Plain'
    BY NextBalance, NextPromises, PlainNext
  <1>2. TypeOK'
    BY <1>1, CountsNext, LimitsAssumption DEF TypeOK, Plain, PermitsBalance
  <1> QED
    BY <1>1, <1>2 DEF AdmissionInv

LEMMA AlwaysAdmission == Spec => []AdmissionInv
  BY InitAdmission, NextAdmission, PTL DEF Spec

\* No way out of upload_video leaks a permit of the semaphore or an upload of
\* the gauge, whatever the limits and the number of requests.
THEOREM PermitsAlwaysBalance == Spec => []PermitsBalance
  <1>1. AdmissionInv => PermitsBalance
    BY DEF AdmissionInv
  <1> QED
    BY <1>1, AlwaysAdmission, PTL

\* The capacity gate, though it reserves nothing, lets uploads exceed the
\* limit by less than the number of requests in progress.
THEOREM OvershootAlwaysBounded == Spec => []OvershootBounded
  <1>1. AdmissionInv => OvershootBounded
    BY Counts, SomeUploads, LimitsAssumption
    DEF AdmissionInv, PromisesBounded, OvershootBounded, TypeOK
  <1> QED
    BY <1>1, AlwaysAdmission, PTL
===========================================================================
