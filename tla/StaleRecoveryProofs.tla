----------------------- MODULE StaleRecoveryProofs -----------------------
(***************************************************************************)
(* What the sweep promises, for every setting of the timeouts, the limits  *)
(* and the numbers of retries and crashes.                                 *)
(***************************************************************************)
EXTENDS StaleRecovery, TLAPS

---------------------------------------------------------------------------
(* The statuses, once. *)

\* An in-flight name is neither a done one nor one of the others, and it names
\* one stage.
LEMMA StatusFacts ==
    /\ \A s \in Stages : InFlightStatus[s] \in InFlight
    /\ \A s \in Stages : DoneStatus[s] \in Done
    /\ InFlight \cap Done = {}
    /\ "queued" \notin InFlight /\ "failed" \notin InFlight
    /\ \A s, t \in Stages : InFlightStatus[s] = InFlightStatus[t] => s = t
<1>1. Stages = {1, 2, 3, 4, 5, 6}
  BY DEF Stages
<1>2. InFlight = {"diarizing", "transcribing", "translating",
                  "synthesizing", "syncing", "packaging"}
  BY <1>1 DEF InFlight, InFlightStatus
<1>3. Done = {"diarized", "transcribed", "translated",
              "synthesized", "synced", "completed"}
  BY <1>1 DEF Done, DoneStatus
<1>4. /\ \A s \in Stages : InFlightStatus[s] \in InFlight
      /\ \A s \in Stages : DoneStatus[s] \in Done
  BY DEF InFlight, Done
<1>5. \A s, t \in Stages : InFlightStatus[s] = InFlightStatus[t] => s = t
  BY <1>1 DEF InFlightStatus
<1> QED  BY <1>2, <1>3, <1>4, <1>5

\* A stage that is done leaves a done status.
LEMMA StageDoneIsDone ==
    ASSUME NEW st, NEW s \in Stages, StageDone(st, s)
    PROVE  st \in Done
<1>1. PICK t \in s..6 : DoneStatus[t] = st
  BY DEF StageDone
<1>2. t \in Stages
  BY <1>1 DEF Stages
<1> QED  BY <1>1, <1>2 DEF Done

(* The allowance, once. *)

\* One execution more is one time limit and one wait more.
LEMMA AllowanceSteps ==
    \A n \in Nat :
        /\ Allowance(n) \in Nat
        /\ Allowance(n + 1) = Allowance(n) + TimeLimit + MaxWait
<1> SUFFICES ASSUME NEW n \in Nat
             PROVE  /\ Allowance(n) \in Nat
                    /\ Allowance(n + 1) = Allowance(n) + TimeLimit + MaxWait
  OBVIOUS
<1> DEFINE E == TimeLimit + MaxWait
<1>1. E \in Nat /\ E = TimeLimit + MaxWait
  BY TimesAssumption
<1>2. Allowance(n) = n * E /\ Allowance(n + 1) = (n + 1) * E
  BY DEF Allowance
<1> HIDE DEF E
<1>3. n * E \in Nat
  BY <1>1
<1>4. (n + 1) * E = n * E + E
  BY <1>1
<1> QED  BY <1>1, <1>2, <1>3, <1>4, TimesAssumption

\* More executions are allowed no less.
LEMMA AllowanceGrows ==
    ASSUME NEW m \in Nat, NEW n \in Nat, m <= n
    PROVE  Allowance(m) <= Allowance(n)
<1> DEFINE E == TimeLimit + MaxWait
<1>1. E \in Nat
  BY TimesAssumption
<1>2. PICK d \in Nat : n = m + d
  <2>1. n - m \in Nat /\ n = m + (n - m)
    OBVIOUS
  <2> QED  BY <2>1
<1>3. Allowance(m) = m * E /\ Allowance(n) = n * E
  BY DEF Allowance
<1> HIDE DEF E
<1>4. (m + d) * E = m * E + d * E
  BY <1>1, <1>2
<1>5. m * E \in Nat /\ d * E \in Nat
  BY <1>1, <1>2
<1> QED  BY <1>2, <1>3, <1>4, <1>5

---------------------------------------------------------------------------
(* Types. *)

RowType     == status \in Status /\ age \in Nat /\ videoKey \in BOOLEAN
MessageType == /\ place \in {"waiting", "running", "gone"}
               /\ stage \in Stages
               /\ attempt \in 0..RetryCount
               /\ lasted \in Nat
BeatType    == sweep \in {"idle", "found"} /\ waited \in Nat
TypeInv     == RowType /\ MessageType /\ BeatType /\ crashes \in 0..MaxCrashes

\* What a write does to the row: nothing, or another status and a new stamp.
LEMMA WriteEffect ==
    ASSUME NEW st \in Status, RowType, Write(st)
    PROVE  /\ status' = st /\ age' \in Nat
           /\ st = status => age' = age
           /\ st # status => age' = 0
BY DEF Write, RowType

\* An execution's results are those of its stage; a stamp is never set back.
LEMMA ResultsEffect ==
    ASSUME TypeInv, Results
    PROVE  /\ RowType'
           /\ age' = age \/ age' = 0
           /\ \/ stage = SyncAv /\ status' = status
              \/ status' \in Done
<1>1. ASSUME stage = SyncAv, WriteVideoKey
      PROVE  /\ RowType'
             /\ age' = age \/ age' = 0
             /\ stage = SyncAv /\ status' = status
  BY <1>1 DEF WriteVideoKey, TypeInv, RowType
<1>2. ASSUME Write(DoneStatus[stage]), UNCHANGED videoKey
      PROVE  /\ RowType'
             /\ age' = age \/ age' = 0
             /\ status' \in Done
  <2>1. stage \in Stages /\ RowType
    BY DEF TypeInv, MessageType
  <2>2. DoneStatus[stage] \in Done /\ DoneStatus[stage] \in Status
    BY <2>1, StatusFacts DEF Status
  <2>3. status' = DoneStatus[stage] /\ age' \in Nat /\ (age' = age \/ age' = 0)
    BY <1>2, <2>1, <2>2, WriteEffect
  <2> QED  BY <1>2, <2>1, <2>2, <2>3 DEF RowType
<1> QED  BY <1>1, <1>2 DEF Results

\* Where the message goes when a stage is over.
LEMMA PublishEffect ==
    ASSUME stage \in Stages, PublishNext
    PROVE  /\ lasted' = 0
           /\ \/ place' = "gone" /\ stage' = stage /\ attempt' = attempt
              \/ /\ place' = "waiting" /\ attempt' = 0
                 /\ stage' \in Stages /\ stage' = stage + 1
BY DEF PublishNext, Move, Stages, Package

LEMMA TypeInit == Init => TypeInv
<1>1. Init => RowType /\ BeatType
  <2>1. "queued" \in Status /\ FALSE \in BOOLEAN
    BY DEF Status
  <2>2. Init => status \in Status /\ videoKey \in BOOLEAN
    BY <2>1, Zenon DEF Init
  <2>3. Init => age \in Nat /\ BeatType
    BY DEF Init, BeatType
  <2> QED  BY <2>2, <2>3 DEF RowType
<1>2. Init => MessageType /\ crashes \in 0..MaxCrashes
  BY TimesAssumption DEF Init, MessageType, Stages, Diarize
<1> QED  BY <1>1, <1>2 DEF TypeInv

\* Every variable keeps its type; a task is retried at most
\* retry_count times.
LEMMA TypeStep == TypeInv /\ [Next]_vars => TypeInv'
<1> SUFFICES ASSUME TypeInv, [Next]_vars PROVE TypeInv'
  OBVIOUS
<1> USE DEF TypeInv
<1>s. stage \in Stages
  BY DEF MessageType
<1>f. "failed" \in Status
  BY DEF Status
<1>1. CASE Skip
  <2>1. RowType' /\ BeatType' /\ crashes' \in 0..MaxCrashes
    BY <1>1 DEF Skip, row, beat, RowType, BeatType
  <2>2. MessageType'
    BY <1>1, <1>s, PublishEffect, TimesAssumption DEF Skip, MessageType
  <2> QED  BY <2>1, <2>2
<1>2. CASE Start
  <2>1. InFlightStatus[stage] \in Status
    BY <1>s, StatusFacts DEF Status
  <2>2. RowType'
    BY <1>2, <2>1, WriteEffect DEF Start, RowType
  <2>3. MessageType' /\ BeatType' /\ crashes' \in 0..MaxCrashes
    BY <1>2 DEF Start, Move, beat, MessageType, BeatType
  <2> QED  BY <2>2, <2>3
<1>3. CASE Finish
  <2>1. RowType'
    BY <1>3, ResultsEffect DEF Finish
  <2>2. MessageType'
    BY <1>3, <1>s, PublishEffect, TimesAssumption DEF Finish, MessageType
  <2>3. BeatType' /\ crashes' \in 0..MaxCrashes
    BY <1>3 DEF Finish, beat, BeatType
  <2> QED  BY <2>1, <2>2, <2>3
<1>4. CASE RetryTask
  <2>1. RowType' /\ BeatType' /\ crashes' \in 0..MaxCrashes
    BY <1>4 DEF RetryTask, row, beat, RowType, BeatType
  <2>2. MessageType'
    BY <1>4, TimesAssumption DEF RetryTask, Move, MessageType
  <2> QED  BY <2>1, <2>2
<1>5. CASE FailTask
  <2>1. RowType'
    BY <1>5, <1>f, WriteEffect DEF FailTask, RowType
  <2>2. MessageType' /\ BeatType' /\ crashes' \in 0..MaxCrashes
    BY <1>5 DEF FailTask, Move, beat, MessageType, BeatType
  <2> QED  BY <2>1, <2>2
<1>6. CASE Crash
  <2>1. RowType'
    BY <1>6, ResultsEffect DEF Crash, row, RowType
  <2>2. MessageType' /\ BeatType' /\ crashes' \in 0..MaxCrashes
    BY <1>6, TimesAssumption DEF Crash, Move, beat, MessageType, BeatType
  <2> QED  BY <2>1, <2>2
<1>7. CASE LoseMessage
  BY <1>7 DEF LoseMessage, Move, row, beat, RowType, MessageType, BeatType
<1>8. CASE SweepSelect
  BY <1>8 DEF SweepSelect, row, message, RowType, MessageType, BeatType
<1>9. CASE SweepCommit
  BY <1>9, <1>f DEF SweepCommit, message, RowType, MessageType, BeatType
<1>10. CASE Tick
  BY <1>10 DEF Tick, RowType, MessageType, BeatType
<1>11. CASE UNCHANGED vars
  BY <1>11 DEF vars, row, message, beat, RowType, MessageType, BeatType
<1> QED
  BY <1>1, <1>2, <1>3, <1>4, <1>5, <1>6, <1>7, <1>8, <1>9, <1>10, <1>11
     DEF Next

---------------------------------------------------------------------------
(* No job lingers: between two looks of the sweep a row in flight gets older *)
(* by the time since the last look, and a look leaves none that is too old. *)

LagInv ==
    /\ waited <= Interval + MaxLag
    /\ status \in InFlight =>
         IF sweep = "idle" THEN age <= StaleTimeout + waited
                           ELSE age <= StaleTimeout + Interval + MaxLag

\* A step that leaves the sweep alone, and the stamp alone or renews it.
LEMMA LagKept ==
    ASSUME TypeInv, LagInv, UNCHANGED beat,
           \/ status' = status /\ (age' = age \/ age' = 0)
           \/ age' = 0
           \/ status' \notin InFlight
    PROVE  LagInv'
<1>1. age \in Nat /\ waited \in Nat
  BY DEF TypeInv, RowType, BeatType
<1>2. sweep' = sweep /\ waited' = waited
  BY DEF beat
<1> QED  BY <1>1, <1>2, TimesAssumption DEF LagInv

LEMMA LagStep == TypeInv /\ LagInv /\ [Next]_vars => LagInv'
<1> SUFFICES ASSUME TypeInv, LagInv, [Next]_vars PROVE LagInv'
  OBVIOUS
<1>t. RowType /\ MessageType /\ BeatType
  BY DEF TypeInv
<1>s. stage \in Stages
  BY <1>t DEF MessageType
<1>f. "failed" \in Status /\ "failed" \notin InFlight
  BY StatusFacts DEF Status
<1>1. CASE Skip
  BY <1>1, LagKept DEF Skip, row
<1>2. CASE Start
  <2>1. InFlightStatus[stage] \in Status
    BY <1>s, StatusFacts DEF Status
  <2> QED  BY <1>2, <1>t, <2>1, WriteEffect, LagKept DEF Start
<1>3. CASE Finish
  <2>1. \/ status' = status /\ (age' = age \/ age' = 0)
        \/ status' \notin InFlight
    BY <1>3, ResultsEffect, StatusFacts DEF Finish
  <2> QED  BY <1>3, <2>1, LagKept DEF Finish
<1>4. CASE RetryTask
  BY <1>4, LagKept DEF RetryTask, row
<1>5. CASE FailTask
  BY <1>5, <1>t, <1>f, WriteEffect, LagKept DEF FailTask
<1>6. CASE Crash
  <2>1. \/ status' = status /\ (age' = age \/ age' = 0)
        \/ status' \notin InFlight
    BY <1>6, ResultsEffect, StatusFacts DEF Crash, row
  <2> QED  BY <1>6, <2>1, LagKept DEF Crash
<1>7. CASE LoseMessage
  BY <1>7, LagKept DEF LoseMessage, row
<1>8. CASE SweepSelect
  <2>1. status' = status /\ age' = age /\ waited' = 0 /\ sweep = "idle"
    BY <1>8 DEF SweepSelect, row
  <2>2. sweep' = "idle" => ~Stale
    BY <1>8 DEF SweepSelect
  <2> QED
    BY <1>t, <2>1, <2>2, TimesAssumption
       DEF LagInv, Stale, Sweepable, RowType, BeatType
<1>9. CASE SweepCommit
  BY <1>9, <1>f DEF SweepCommit, LagInv
<1>10. CASE Tick
  <2>1. /\ status' = status /\ age' = age + 1 /\ waited' = waited + 1
        /\ sweep = "idle" /\ sweep' = "idle"
        /\ waited < Interval + MaxLag
    BY <1>10 DEF Tick
  <2> QED  BY <1>t, <2>1, TimesAssumption DEF LagInv, RowType, BeatType
<1>11. CASE UNCHANGED vars
  BY <1>11, LagKept DEF vars, row
<1> QED
  BY <1>1, <1>2, <1>3, <1>4, <1>5, <1>6, <1>7, <1>8, <1>9, <1>10, <1>11
     DEF Next

\* However its message fares, a job is not in flight without a change for more
\* than the stale timeout, one interval and the lag of the sweep.
THEOREM NeverLingers == Spec => []NoLingering
<1>1. Init => LagInv
  BY TimesAssumption DEF Init, LagInv
<1>2. TypeInv /\ LagInv => NoLingering
  BY TimesAssumption DEF TypeInv, RowType, BeatType, LagInv, NoLingering
<1> QED  BY TypeInit, TypeStep, <1>1, LagStep, <1>2, PTL DEF Spec

---------------------------------------------------------------------------
(* How old a row in flight can be while its message is alive.  A stage that *)
(* starts for the first time finds another status, so its write renews the  *)
(* stamp; afterwards only retries and redeliveries lead to the same write.  *)

RunInv == place = "running" =>
    /\ lasted <= TimeLimit
    /\ status \in {InFlightStatus[stage], "failed"}
    /\ status \in InFlight => age <= Allowance(attempt + crashes) + lasted

WaitInv == place = "waiting" =>
    /\ lasted <= MaxWait
    /\ status \in InFlight =>
         \/ /\ status = InFlightStatus[stage]
            /\ attempt + crashes >= 1
            /\ age <= Allowance((attempt + crashes) - 1) + TimeLimit + lasted
         \/ /\ stage = Package /\ status = InFlightStatus[SyncAv]
            /\ age <= Allowance(attempt + crashes) + TimeLimit + lasted

LateInv == stage \in {SyncAv, Package} => attempt = 0

AliveInv == RunInv /\ WaitInv /\ LateInv

LEMMA AliveInit == Init => AliveInv
<1>1. ASSUME Init PROVE RunInv /\ LateInv
  BY <1>1 DEF Init, RunInv, LateInv, Diarize, SyncAv, Package
<1>2. ASSUME Init PROVE WaitInv
  BY <1>2, StatusFacts, TimesAssumption DEF Init, WaitInv
<1> QED  BY <1>1, <1>2 DEF AliveInv

LEMMA AliveStep == TypeInv /\ AliveInv /\ [Next]_vars => AliveInv'
<1> SUFFICES ASSUME TypeInv, AliveInv, [Next]_vars PROVE AliveInv'
  OBVIOUS
<1>t. /\ status \in Status /\ age \in Nat
      /\ stage \in Stages /\ attempt \in Nat /\ lasted \in Nat
      /\ crashes \in Nat
      /\ RowType
  BY TimesAssumption DEF TypeInv, RowType, MessageType
<1>n. /\ RunInv /\ WaitInv /\ LateInv
      /\ attempt + crashes \in Nat
      /\ Allowance(attempt + crashes) \in Nat
  BY <1>t, AllowanceSteps DEF AliveInv
<1>1. CASE Skip
  <2>1. status' = status /\ status \notin InFlight /\ UNCHANGED <<age, crashes>>
    BY <1>1, <1>t, StageDoneIsDone, StatusFacts DEF Skip, row
  <2>2. LateInv'
    BY <1>1, <1>t, <1>n, PublishEffect DEF Skip, LateInv
  <2>3. RunInv' /\ WaitInv'
    BY <1>1, <1>t, <2>1, PublishEffect, TimesAssumption
       DEF Skip, RunInv, WaitInv
  <2> QED  BY <2>2, <2>3 DEF AliveInv
<1>2. CASE Start
  <2>1. /\ InFlightStatus[stage] \in Status
        /\ InFlightStatus[stage] \in InFlight
    BY <1>t, StatusFacts DEF Status
  <2>2. /\ place = "waiting" /\ place' = "running"
        /\ stage' = stage /\ attempt' = attempt /\ crashes' = crashes
        /\ lasted' = 0
        /\ status' = InFlightStatus[stage]
    BY <1>2, <1>t, <2>1, WriteEffect DEF Start, Move
  <2>3. \/ age' = 0
        \/ status = InFlightStatus[stage] /\ age' = age
    BY <1>2, <1>t, <2>1, WriteEffect DEF Start
  <2>4. age' <= Allowance(attempt + crashes)
    <3>1. CASE age' = 0
      BY <3>1, <1>n
    <3>2. CASE status = InFlightStatus[stage] /\ age' = age
      <4>1. ~(stage = Package /\ status = InFlightStatus[SyncAv])
        BY <3>2 DEF Package, SyncAv, InFlightStatus
      <4>2. /\ attempt + crashes >= 1 /\ lasted <= MaxWait
            /\ age <= Allowance((attempt + crashes) - 1) + TimeLimit + lasted
        BY <3>2, <2>1, <2>2, <4>1, <1>n DEF WaitInv
      <4> DEFINE n == (attempt + crashes) - 1
      <4>3. n \in Nat /\ n + 1 = attempt + crashes
        BY <4>2, <1>t
      <4>4. /\ Allowance(n) \in Nat
            /\ Allowance(n + 1) = Allowance(n) + TimeLimit + MaxWait
        BY <4>3, AllowanceSteps
      <4> HIDE DEF n
      <4>5. age <= Allowance(n) + TimeLimit + lasted
        BY <4>2 DEF n
      <4>6. age <= Allowance(n + 1)
        BY <4>2, <4>4, <4>5, <1>t, TimesAssumption
      <4> QED  BY <3>2, <4>3, <4>6
    <3> QED  BY <2>3, <3>1, <3>2
  <2>5. RunInv' /\ WaitInv'
    BY <2>2, <2>4, <1>n, TimesAssumption DEF RunInv, WaitInv
  <2>6. LateInv'
    BY <2>2, <1>n DEF LateInv
  <2> QED  BY <2>5, <2>6 DEF AliveInv
<1>3. CASE Finish
  <2>1. /\ status' \in InFlight => stage = SyncAv /\ status' = status
        /\ age' = age \/ age' = 0
        /\ crashes' = crashes
    BY <1>3, ResultsEffect, StatusFacts DEF Finish
  <2>2. /\ lasted' = 0
        /\ \/ place' = "gone" /\ stage' = stage /\ attempt' = attempt
           \/ place' = "waiting" /\ attempt' = 0 /\ stage' = stage + 1
    BY <1>3, <1>t, PublishEffect DEF Finish
  <2>3. LateInv'
    BY <2>2, <1>n DEF LateInv
  <2>4. RunInv'
    BY <2>2 DEF RunInv
  <2>5. WaitInv'
    <3> SUFFICES ASSUME place' = "waiting" PROVE WaitInv'
      BY DEF WaitInv
    <3>1. lasted' = 0 /\ attempt' = 0 /\ stage' = stage + 1
      BY <2>2
    <3>2. ASSUME status' \in InFlight
          PROVE  /\ stage' = Package /\ status' = InFlightStatus[SyncAv]
                 /\ age' <= Allowance(attempt' + crashes') + TimeLimit + lasted'
      <4>1. stage = SyncAv /\ status' = status /\ attempt = 0
        BY <3>2, <2>1, <1>n DEF LateInv
      <4>2. /\ status = InFlightStatus[stage] /\ lasted <= TimeLimit
            /\ age <= Allowance(attempt + crashes) + lasted
        BY <3>2, <1>3, <4>1, <1>n, StatusFacts DEF Finish, RunInv
      <4>3. attempt' + crashes' = attempt + crashes
        BY <3>1, <2>1, <4>1
      <4>4. age' <= Allowance(attempt + crashes) + TimeLimit
        BY <4>2, <2>1, <1>t, <1>n, TimesAssumption
      <4>5. Allowance(attempt' + crashes') = Allowance(attempt + crashes)
        BY <4>3
      <4>6. age' <= Allowance(attempt' + crashes') + TimeLimit + lasted'
        BY <4>4, <4>5, <3>1, <1>n, TimesAssumption
      <4> QED  BY <3>1, <4>1, <4>2, <4>6 DEF SyncAv, Package
    <3> QED  BY <3>1, <3>2, TimesAssumption DEF WaitInv
  <2> QED  BY <2>3, <2>4, <2>5 DEF AliveInv
<1>r. ASSUME place = "running", place' = "waiting", stage' = stage,
             (attempt' + crashes') - 1 = attempt + crashes,
             attempt' + crashes' >= 1,
             lasted' = 0, age' = age \/ age' = 0,
             status' \in InFlight => status' = status
      PROVE  RunInv' /\ WaitInv'
  <2>1. ASSUME status' \in InFlight
        PROVE  /\ status' = InFlightStatus[stage]
               /\ age' <= Allowance(attempt + crashes) + TimeLimit
    <3>1. /\ status = InFlightStatus[stage] /\ lasted <= TimeLimit
          /\ age <= Allowance(attempt + crashes) + lasted
      BY <2>1, <1>r, <1>n, StatusFacts DEF RunInv
    <3> QED  BY <2>1, <1>r, <3>1, <1>t, <1>n, TimesAssumption
  <2>3. Allowance((attempt' + crashes') - 1) = Allowance(attempt + crashes)
    BY <1>r
  <2>4. status' \in InFlight =>
          age' <= Allowance((attempt' + crashes') - 1) + TimeLimit + lasted'
    BY <2>1, <2>3, <1>r, <1>n, TimesAssumption
  <2>5. WaitInv'
    <3>1. lasted' <= MaxWait
      BY <1>r, TimesAssumption
    <3>2. status' \in InFlight => status' = InFlightStatus[stage']
      BY <1>r, <2>1
    <3> QED  BY <1>r, <3>1, <3>2, <2>4 DEF WaitInv
  <2> QED  BY <1>r, <2>5 DEF RunInv
<1>4. CASE RetryTask
  <2>1. /\ attempt' = attempt + 1 /\ crashes' = crashes /\ status' = status
        /\ age' = age /\ lasted' = 0 /\ stage' = stage
        /\ place = "running" /\ place' = "waiting"
        /\ stage \in Diarize..Synthesize
    BY <1>4 DEF RetryTask, Move, row
  <2>2. RunInv' /\ WaitInv'
    BY <2>1, <1>r, <1>t
  <2>3. LateInv'
    BY <2>1 DEF LateInv, Diarize, Synthesize, SyncAv, Package
  <2> QED  BY <2>2, <2>3 DEF AliveInv
<1>5. CASE FailTask
  <2>1. place' = "gone" /\ stage' = stage /\ attempt' = attempt
    BY <1>5 DEF FailTask, Move
  <2> QED  BY <2>1, <1>n DEF AliveInv, RunInv, WaitInv, LateInv
<1>6. CASE Crash
  <2>1. /\ attempt' = attempt /\ crashes' = crashes + 1
        /\ lasted' = 0 /\ stage' = stage
        /\ place = "running" /\ place' = "waiting"
    BY <1>6 DEF Crash, Move
  <2>2. /\ age' = age \/ age' = 0
        /\ status' \in InFlight => status' = status
    BY <1>6, ResultsEffect, StatusFacts DEF Crash, row
  <2>3. RunInv' /\ WaitInv'
    BY <2>1, <2>2, <1>r, <1>t
  <2>4. LateInv'
    BY <2>1, <1>n DEF LateInv
  <2> QED  BY <2>3, <2>4 DEF AliveInv
<1>7. CASE LoseMessage
  <2>1. place' = "gone" /\ stage' = stage /\ attempt' = attempt
    BY <1>7 DEF LoseMessage, Move
  <2> QED  BY <2>1, <1>n DEF AliveInv, RunInv, WaitInv, LateInv
<1>8. CASE SweepSelect
  BY <1>8, <1>n
     DEF SweepSelect, row, message, AliveInv, RunInv, WaitInv, LateInv
<1>9. CASE SweepCommit
  BY <1>9, <1>n, StatusFacts
     DEF SweepCommit, message, AliveInv, RunInv, WaitInv, LateInv
<1>10. CASE Tick
  <2>1. /\ UNCHANGED <<status, place, stage, attempt, crashes>>
        /\ age' = age + 1
        /\ place # "gone" => lasted' = lasted + 1
        /\ place = "running" => lasted < TimeLimit
        /\ place = "waiting" => lasted < MaxWait
    BY <1>10 DEF Tick
  <2>2. RunInv'
    <3> SUFFICES ASSUME place' = "running" PROVE RunInv'
      BY DEF RunInv
    <3>1. lasted' = lasted + 1 /\ lasted' <= TimeLimit
      BY <2>1, <1>t, TimesAssumption
    <3>2. status \in {InFlightStatus[stage], "failed"}
      BY <2>1, <1>n DEF RunInv
    <3>3. status' \in InFlight => age' <= Allowance(attempt + crashes) + lasted'
      BY <2>1, <3>1, <1>t, <1>n DEF RunInv
    <3>4. Allowance(attempt' + crashes') = Allowance(attempt + crashes)
      BY <2>1
    <3> QED  BY <2>1, <3>1, <3>2, <3>3, <3>4 DEF RunInv
  <2>4. WaitInv'
    <3> SUFFICES ASSUME place' = "waiting" PROVE WaitInv'
      BY DEF WaitInv
    <3>1. lasted' = lasted + 1 /\ lasted' <= MaxWait
      BY <2>1, <1>t, TimesAssumption
    <3>2. /\ Allowance(attempt' + crashes') = Allowance(attempt + crashes)
          /\ Allowance((attempt' + crashes') - 1) = Allowance((attempt + crashes) - 1)
      BY <2>1
    <3>3. ASSUME status \in InFlight, stage = Package,
                 status = InFlightStatus[SyncAv],
                 age <= Allowance(attempt + crashes) + TimeLimit + lasted
          PROVE  age' <= Allowance(attempt' + crashes') + TimeLimit + lasted'
      BY <3>3, <2>1, <3>1, <3>2, <1>t, <1>n, TimesAssumption
    <3>4. ASSUME attempt + crashes >= 1,
                 age <= Allowance((attempt + crashes) - 1) + TimeLimit + lasted
          PROVE  age' <= Allowance((attempt' + crashes') - 1) + TimeLimit + lasted'
      <4>1. (attempt + crashes) - 1 \in Nat
        BY <3>4, <1>t
      <4>2. Allowance((attempt + crashes) - 1) \in Nat
        BY <4>1, AllowanceSteps
      <4> QED  BY <3>4, <4>2, <2>1, <3>1, <3>2, <1>t, TimesAssumption
    <3> QED  BY <2>1, <3>1, <3>3, <3>4, <1>n DEF WaitInv
  <2>5. LateInv'
    BY <2>1, <1>n DEF LateInv
  <2> QED  BY <2>2, <2>4, <2>5 DEF AliveInv
<1>11. CASE UNCHANGED vars
  BY <1>11, <1>n DEF vars, row, message, AliveInv, RunInv, WaitInv, LateInv
<1> QED
  BY <1>1, <1>2, <1>3, <1>4, <1>5, <1>6, <1>7, <1>8, <1>9, <1>10, <1>11
     DEF Next

LEMMA AliveAlways == Spec => [](TypeInv /\ AliveInv)
BY TypeInit, TypeStep, AliveInit, AliveStep, PTL DEF Spec

LEMMA AliveSilence == TypeInv /\ AliveInv => SilenceBounded
<1> SUFFICES ASSUME TypeInv, AliveInv, status \in InFlight, place # "gone"
             PROVE  age <= Allowance(attempt + crashes + 1)
  BY DEF SilenceBounded
<1>t. age \in Nat /\ attempt \in Nat /\ lasted \in Nat /\ crashes \in Nat
  BY TimesAssumption DEF TypeInv, RowType, MessageType
<1>n. PICK n \in Nat : n = attempt + crashes
  BY <1>t
<1>1. /\ Allowance(n) \in Nat
      /\ Allowance(n + 1) = Allowance(n) + TimeLimit + MaxWait
  BY <1>n, AllowanceSteps
<1>2. ASSUME place = "running" PROVE age <= Allowance(n + 1)
  <2>1. lasted <= TimeLimit /\ age <= Allowance(n) + lasted
    BY <1>2, <1>n DEF AliveInv, RunInv
  <2> QED  BY <2>1, <1>1, <1>t, TimesAssumption
<1>3. ASSUME place = "waiting" PROVE age <= Allowance(n + 1)
  <2>1. /\ lasted <= MaxWait
        /\ \/ /\ attempt + crashes >= 1
              /\ age <= Allowance((attempt + crashes) - 1) + TimeLimit + lasted
           \/ age <= Allowance(attempt + crashes) + TimeLimit + lasted
    <3>1. lasted <= MaxWait
      BY <1>3 DEF AliveInv, WaitInv
    <3>2. \/ /\ attempt + crashes >= 1
             /\ age <= Allowance((attempt + crashes) - 1) + TimeLimit + lasted
          \/ age <= Allowance(attempt + crashes) + TimeLimit + lasted
      BY <1>3, Zenon DEF AliveInv, WaitInv
    <3> QED  BY <3>1, <3>2, Zenon
  <2>2. CASE age <= Allowance(attempt + crashes) + TimeLimit + lasted
    <3>1. age <= Allowance(n) + TimeLimit + lasted
      BY <2>2, <1>n
    <3> QED  BY <2>1, <3>1, <1>1, <1>t, TimesAssumption
  <2>3. CASE /\ attempt + crashes >= 1
             /\ age <= Allowance((attempt + crashes) - 1) + TimeLimit + lasted
    <3>1. n >= 1 /\ age <= Allowance(n - 1) + TimeLimit + lasted
      <4>1. n >= 1
        BY <2>3, <1>n, <1>t
      <4>2. Allowance(n - 1) = Allowance((attempt + crashes) - 1)
        BY <1>n, Zenon
      <4> QED  BY <2>3, <4>1, <4>2, Zenon
    <3>2. n - 1 \in Nat /\ n - 1 <= n
      BY <3>1, <1>n
    <3>3. Allowance(n - 1) \in Nat /\ Allowance(n - 1) <= Allowance(n)
      BY <3>2, <1>n, AllowanceSteps, AllowanceGrows
    <3> QED  BY <2>1, <3>1, <3>3, <1>1, <1>t, TimesAssumption
  <2> QED  BY <2>1, <2>2, <2>3
<1> QED  BY <1>n, <1>2, <1>3 DEF TypeInv, MessageType

\* However often a job is retried and its message delivered again, while the
\* message is alive the row is not in flight without a change for longer than
\* its executions and waits may take.
THEOREM SilenceAlwaysBounded == Spec => []SilenceBounded
BY AliveAlways, AliveSilence, PTL

\* The sweep never selects a job whose stage runs for the first time: the time
\* limit of the task, which is not over the stale timeout, ends it before.
THEOREM FirstRunAlwaysSpared == Spec => FirstRunSpared
<1>1. ASSUME TypeInv, AliveInv, [Next]_vars, Selects
      PROVE  ~(place = "running" /\ attempt + crashes = 0)
  <2> SUFFICES ASSUME place = "running", attempt + crashes = 0 PROVE FALSE
    OBVIOUS
  <2>1. sweep = "idle" /\ sweep' = "found"
    BY <1>1 DEF Selects
  <2>2. Stale
    BY <1>1, <2>1
       DEF Next, vars, beat, Skip, Start, Finish, RetryTask, FailTask, Crash,
           LoseMessage, SweepSelect, SweepCommit, Tick
  <2>3. age \in Nat /\ lasted \in Nat
    BY <1>1 DEF TypeInv, RowType, MessageType
  <2>4. age <= Allowance(0) + lasted /\ lasted <= TimeLimit
    BY <1>1, <2>2 DEF Stale, Sweepable, AliveInv, RunInv
  <2>5. Allowance(0) = 0
    BY TimesAssumption DEF Allowance
  <2> QED
    BY <2>2, <2>3, <2>4, <2>5, TimesAssumption, LimitAssumption DEF Stale
<1>2. TypeInv /\ AliveInv /\ [Next]_vars =>
        [Selects => ~(place = "running" /\ attempt + crashes = 0)]_vars
  BY <1>1
<1> QED  BY AliveAlways, <1>2, PTL DEF Spec, FirstRunSpared

\* With a stale timeout that allows for every retry and every redelivery of a
\* stage, what ARCHITECTURE.md promises is true: only dead jobs are swept.
THEOREM PatientSweep ==
    ASSUME StaleTimeout >= Allowance(RetryCount + MaxCrashes + 1)
    PROVE  Spec => OnlyDeadSwept
<1>1. ASSUME TypeInv, AliveInv, [Next]_vars, Selects
      PROVE  place = "gone"
  <2> SUFFICES ASSUME place # "gone" PROVE FALSE
    OBVIOUS
  <2>1. sweep = "idle" /\ sweep' = "found"
    BY <1>1 DEF Selects
  <2>2. Stale
    BY <1>1, <2>1
       DEF Next, vars, beat, Skip, Start, Finish, RetryTask, FailTask, Crash,
           LoseMessage, SweepSelect, SweepCommit, Tick
  <2>3. /\ age \in Nat
        /\ attempt + crashes + 1 \in Nat
        /\ RetryCount + MaxCrashes + 1 \in Nat
        /\ attempt + crashes + 1 <= RetryCount + MaxCrashes + 1
    <3>1. /\ age \in Nat /\ attempt \in 0..RetryCount
          /\ crashes \in 0..MaxCrashes
      BY <1>1 DEF TypeInv, RowType, MessageType
    <3> QED  BY <3>1, TimesAssumption
  <2>4. age <= Allowance(attempt + crashes + 1)
    BY <1>1, <2>2, AliveSilence DEF SilenceBounded, Stale, Sweepable
  <2>5. Allowance(attempt + crashes + 1) <= Allowance(RetryCount + MaxCrashes + 1)
    BY <2>3, AllowanceGrows
  <2>6. /\ Allowance(attempt + crashes + 1) \in Nat
        /\ Allowance(RetryCount + MaxCrashes + 1) \in Nat
    BY <2>3, AllowanceSteps
  <2> QED  BY <2>2, <2>3, <2>4, <2>5, <2>6, TimesAssumption DEF Stale
<1>2. TypeInv /\ AliveInv /\ [Next]_vars => [Selects => place = "gone"]_vars
  BY <1>1
<1> QED  BY AliveAlways, <1>2, PTL DEF Spec, OnlyDeadSwept

===========================================================================
