------------------------------ MODULE PageProofs ------------------------------
(***************************************************************************)
(* Proofs about Page, for any number of jobs, fetches, clicks and lapses:  *)
(* the upload button is never disabled for good, and the page is busy with *)
(* one job at a time unless a late answer has stopped another's interval.  *)
(* Both follow from what a fetch can be: a poll is of a job, and so is an  *)
(* upload that was answered with one.  A job that is polled is polled to   *)
(* its end, and the user is told.                                          *)
(***************************************************************************)
EXTENDS Page, TLAPS

\* What a fetch can be.
Fetch == [kind   : {"none", "upload", "poll", "select"},
          job    : Jobs \cup {Nobody},
          answer : Answers]

\* A fetch about a job knows it.
Addressed(x) ==
    \/ x.kind \in {"poll", "select"}
    \/ x.kind = "upload" /\ x.answer = "created"
    => x.job \in Jobs

\* The inductive invariant.
Shapes ==
    /\ fetch \in [Fetches -> Fetch]
    /\ \A f \in Fetches : Addressed(fetch[f])
    /\ timer \in Jobs \cup {Nobody}
    /\ button \in BOOLEAN /\ strayed \in BOOLEAN
    /\ status \in [Jobs -> Statuses]

PageInv == Shapes /\ NeverLockedOut /\ OneAtATime

---------------------------------------------------------------------------

\* A new value of a fetch is in its place, and the others are as they were.
LEMMA Replaced ==
    ASSUME fetch \in [Fetches -> Fetch], NEW f \in Fetches, NEW x \in Fetch,
           fetch' = [fetch EXCEPT ![f] = x]
    PROVE  /\ fetch' \in [Fetches -> Fetch]
           /\ fetch'[f] = x
           /\ \A g \in Fetches \ {f} : fetch'[g] = fetch[g]
  OBVIOUS

\* What the three ways of changing a fetch leave in its place.
LEMMA FetchShapes ==
    /\ NoFetch \in Fetch /\ Addressed(NoFetch)
    /\ \A k \in {"poll", "select"}, j \in Jobs :
         LET x == [kind |-> k, job |-> j, answer |-> "awaited"]
         IN  x \in Fetch /\ Addressed(x)
    /\ LET x == [kind |-> "upload", job |-> Nobody, answer |-> "awaited"]
       IN  x \in Fetch /\ Addressed(x)
  BY DEF Fetch, NoFetch, Addressed, Answers

\* An answer fills in the fetch it belongs to.
LEMMA AnswerShapes ==
    ASSUME NEW x \in Fetch, NEW j \in Jobs, NEW a \in Answers
    PROVE  /\ [x EXCEPT !.answer = a] \in Fetch
           /\ [x EXCEPT !.answer = a].kind = x.kind
           /\ [x EXCEPT !.answer = a].job = x.job
           /\ [x EXCEPT !.job = j, !.answer = "created"] \in Fetch
           /\ [x EXCEPT !.job = j, !.answer = "created"].kind = x.kind
           /\ [x EXCEPT !.job = j, !.answer = "created"].job = j
  BY DEF Fetch, Answers

\* While only answers arrive, the page is as it was.
LEMMA Untouched ==
    ASSUME PageInv, UNCHANGED page, Shapes',
           \A g \in Fetches : fetch'[g].kind = fetch[g].kind
    PROVE  PageInv'
  <1>1. Uploading' <=> Uploading
    BY DEF Uploading
  <1>2. NeverLockedOut'
    BY <1>1 DEF PageInv, NeverLockedOut, page
  <1>3. OneAtATime'
    BY <1>1 DEF PageInv, OneAtATime, page
  <1> QED BY <1>2, <1>3 DEF PageInv

LEMMA StartsIdle == Init => PageInv
  <1> SUFFICES ASSUME Init PROVE PageInv
    OBVIOUS
  <1>1. Shapes
    BY FetchShapes DEF Init, Shapes, Statuses, Settled, Api!Terminal
  <1>2. ~Uploading
    BY DEF Init, Uploading, NoFetch
  <1> QED BY <1>1, <1>2 DEF Init, PageInv, NeverLockedOut, OneAtATime, Uploading, NoFetch

\* One fetch may begin, end or be replaced, and everything else stays in shape.
LEMMA ShapesKept ==
    ASSUME Shapes, NEW f \in Fetches, NEW x \in Fetch, Addressed(x),
           fetch' = [fetch EXCEPT ![f] = x],
           timer' \in Jobs \cup {Nobody}, button' \in BOOLEAN, strayed' \in BOOLEAN,
           status' \in [Jobs -> Statuses]
    PROVE  Shapes'
  <1>1. /\ fetch' \in [Fetches -> Fetch] /\ fetch'[f] = x
        /\ \A g \in Fetches \ {f} : fetch'[g] = fetch[g]
    BY Replaced DEF Shapes
  <1>2. ASSUME NEW g \in Fetches PROVE Addressed(fetch'[g])
    BY <1>1 DEF Shapes, Addressed
  <1> QED BY <1>1, <1>2 DEF Shapes

LEMMA ApiKeeps ==
    ASSUME PageInv,
           \/ \E j \in Jobs : Progress(j) \/ Relapse(j)
           \/ \E f \in Fetches : Answered(f) \/ Lapse(f)
    PROVE  PageInv'
  <1> USE DEF PageInv
  <1>1. ASSUME NEW j \in Jobs, Progress(j) \/ Relapse(j) PROVE PageInv'
    <2>1. UNCHANGED <<fetch, page>>
      BY <1>1 DEF Progress, Relapse
    <2>2. PICK st \in Statuses : status' = [status EXCEPT ![j] = st]
      BY <1>1 DEF Progress, Relapse, Api!Phases, Statuses, Settled, Api!Terminal
    <2>3. status' \in [Jobs -> Statuses]
      BY <2>2 DEF Shapes
    <2>4. Shapes'
      BY <2>1, <2>3 DEF page, Shapes
    <2> QED BY <2>1, <2>4, Untouched
  <1>2. ASSUME NEW f \in Fetches, AnswerUpload(f) PROVE PageInv'
    <2>0. fetch[f] \in Fetch /\ fetch[f].kind = "upload" /\ UNCHANGED page
      BY <1>2 DEF AnswerUpload, Awaited, Shapes
    <2>1. CASE \E j \in Jobs : /\ status' = [status EXCEPT ![j] = "queued"]
                               /\ fetch' = [fetch EXCEPT ![f].job = j, ![f].answer = "created"]
      <3>1. PICK j \in Jobs : /\ status' = [status EXCEPT ![j] = "queued"]
                              /\ fetch' = [fetch EXCEPT ![f].job = j, ![f].answer = "created"]
        BY <2>1
      <3>2. PICK x \in Fetch : x = [fetch[f] EXCEPT !.job = j, !.answer = "created"]
        BY <2>0, AnswerShapes, "created" \in Answers DEF Answers
      <3>3. x.kind = "upload" /\ x.job = j
        BY <2>0, <3>2, AnswerShapes, "created" \in Answers DEF Answers
      <3>4. fetch' = [fetch EXCEPT ![f] = x]
        BY <3>1, <3>2 DEF Shapes
      <3>5. status' \in [Jobs -> Statuses]
        BY <3>1 DEF Shapes, Statuses
      <3>6. Addressed(x)
        BY <3>3 DEF Addressed
      <3>7. Shapes'
        BY <2>0, <3>4, <3>5, <3>6, ShapesKept DEF page, Shapes
      <3>8. \A g \in Fetches : fetch'[g].kind = fetch[g].kind
        BY <2>0, <3>3, <3>4, Replaced DEF Shapes
      <3> QED BY <2>0, <3>7, <3>8, Untouched
    <2>2. CASE Answer(f, "refused") /\ UNCHANGED status
      <3>1. PICK x \in Fetch : x = [fetch[f] EXCEPT !.answer = "refused"]
        BY <2>0 DEF Fetch, Answers
      <3>2. x.kind = "upload" /\ x.answer = "refused"
        BY <2>0, <3>1 DEF Fetch
      <3>3. fetch' = [fetch EXCEPT ![f] = x]
        BY <2>2, <3>1 DEF Answer, Shapes
      <3>4. Shapes'
        BY <2>0, <2>2, <3>2, <3>3, ShapesKept DEF page, Shapes, Addressed
      <3>5. \A g \in Fetches : fetch'[g].kind = fetch[g].kind
        BY <2>0, <3>2, <3>3, Replaced DEF Shapes
      <3> QED BY <2>0, <3>4, <3>5, Untouched
    <2> QED BY <1>2, <2>1, <2>2 DEF AnswerUpload
  <1>3. ASSUME NEW f \in Fetches, AnswerStatus(f) \/ Lapse(f) PROVE PageInv'
    <2>1. /\ fetch[f] \in Fetch /\ fetch[f].kind \in {"poll", "select"}
          /\ UNCHANGED <<page, status>>
      BY <1>3 DEF AnswerStatus, Lapse, Awaited, Shapes
    <2>2. PICK a : Answer(f, a) /\ a \in Answers
      <3>1. CASE Lapse(f)
        BY <3>1 DEF Lapse, Answers
      <3>2. CASE AnswerStatus(f)
        <4>1. fetch[f].job \in Jobs
          BY <2>1 DEF Shapes, Addressed
        <4> QED BY <3>2, <4>1 DEF AnswerStatus, Answers, Shapes
      <3> QED BY <1>3, <3>1, <3>2
    <2>3. PICK x \in Fetch : x = [fetch[f] EXCEPT !.answer = a]
      BY <2>1, <2>2 DEF Fetch
    <2>4. x.kind = fetch[f].kind /\ x.job = fetch[f].job
      BY <2>1, <2>3 DEF Fetch
    <2>5. fetch' = [fetch EXCEPT ![f] = x]
      BY <2>2, <2>3 DEF Answer, Shapes
    <2>6. Addressed(x)
      BY <2>1, <2>4 DEF Addressed, Shapes
    <2>7. Shapes'
      BY <2>1, <2>5, <2>6, ShapesKept DEF page, Shapes
    <2>8. \A g \in Fetches : fetch'[g].kind = fetch[g].kind
      BY <2>4, <2>5, Replaced DEF Shapes
    <2> QED BY <2>1, <2>7, <2>8, Untouched
  <1> QED BY <1>1, <1>2, <1>3 DEF Answered

\* Replacing a fetch that is no upload by one that is none leaves the uploads.
LEMMA SameUploads ==
    ASSUME Shapes, NEW f \in Fetches, NEW x \in Fetch,
           fetch[f].kind # "upload", x.kind # "upload",
           fetch' = [fetch EXCEPT ![f] = x]
    PROVE  /\ Uploading' <=> Uploading
           /\ \A g \in Fetches : fetch'[g].kind = "upload" <=> fetch[g].kind = "upload"
  BY Replaced DEF Shapes, Uploading

LEMMA ButtonKeeps ==
    ASSUME PageInv, NEW f \in Fetches, ClickUpload(f) \/ UploadCreated(f) \/ UploadFailed(f)
    PROVE  PageInv'
  <1> USE DEF PageInv
  <1>1. CASE ClickUpload(f)
    <2>1. PICK x \in Fetch : /\ Addressed(x) /\ x.kind = "upload"
                             /\ x = [kind |-> "upload", job |-> Nobody, answer |-> "awaited"]
      BY FetchShapes DEF Addressed
    <2>2. fetch' = [fetch EXCEPT ![f] = x] /\ button' = FALSE /\ UNCHANGED <<timer, strayed, status>>
      BY <1>1, <2>1 DEF ClickUpload, Send
    <2>3. Shapes'
      BY <2>1, <2>2, ShapesKept DEF Shapes
    <2>4. /\ fetch'[f].kind = "upload"
          /\ \A g \in Fetches \ {f} : fetch'[g].kind = fetch[g].kind
      BY <2>1, <2>2, Replaced DEF Shapes
    <2>5. NeverLockedOut'
      BY <2>4 DEF NeverLockedOut, Uploading
    <2>6. OneAtATime'
      BY <1>1, <2>2, <2>4 DEF OneAtATime, Uploading, ClickUpload
    <2> QED BY <2>3, <2>5, <2>6
  <1>2. CASE UploadCreated(f)
    <2>1. fetch[f].kind = "upload" /\ fetch[f].job \in Jobs
      BY <1>2 DEF UploadCreated, Shapes, Addressed
    <2>2. PICK x \in Fetch : /\ Addressed(x) /\ x.kind = "poll"
                             /\ x = [kind |-> "poll", job |-> fetch[f].job, answer |-> "awaited"]
      BY <2>1, FetchShapes DEF Addressed
    <2>3. /\ fetch' = [fetch EXCEPT ![f] = x]
          /\ timer' = fetch[f].job /\ UNCHANGED <<button, strayed, status>>
      BY <1>2, <2>2 DEF UploadCreated, Send
    <2>4. Shapes'
      BY <2>1, <2>2, <2>3, ShapesKept DEF Shapes
    <2>5. /\ fetch'[f].kind = "poll"
          /\ \A g \in Fetches \ {f} : fetch'[g].kind = fetch[g].kind
      BY <2>2, <2>3, Replaced DEF Shapes
    <2>6. timer' # Nobody
      BY <2>1, <2>3, NobodyAssumption
    <2>7. NeverLockedOut'
      BY <2>6 DEF NeverLockedOut
    <2>8. ASSUME ~strayed' PROVE ~button' /\ ~Uploading'
      BY <2>1, <2>3, <2>5, <2>8 DEF OneAtATime, Uploading
    <2>9. OneAtATime'
      BY <2>8 DEF OneAtATime, Uploading
    <2> QED BY <2>4, <2>7, <2>9
  <1>3. CASE UploadFailed(f)
    <2>1. /\ fetch' = [fetch EXCEPT ![f] = NoFetch] /\ button'
          /\ UNCHANGED <<timer, strayed, status>>
      BY <1>3 DEF UploadFailed, Done
    <2>2. Shapes'
      BY <1>3, <2>1, FetchShapes, ShapesKept DEF Shapes, UploadFailed
    <2>3. /\ fetch'[f].kind = "none"
          /\ \A g \in Fetches \ {f} : fetch'[g].kind = fetch[g].kind
      BY <2>1, FetchShapes, Replaced DEF Shapes, NoFetch
    <2>4. ASSUME ~strayed' PROVE ~Uploading' /\ timer' = Nobody
      BY <1>3, <2>1, <2>3, <2>4 DEF OneAtATime, Uploading, UploadFailed
    <2>5. OneAtATime'
      BY <2>4 DEF OneAtATime, Uploading
    <2> QED BY <2>1, <2>2, <2>5 DEF NeverLockedOut
  <1> QED BY <1>1, <1>2, <1>3

LEMMA PollKeeps ==
    ASSUME PageInv, NEW f \in Fetches,
           TimerFires(f) \/ PollAnswered(f) \/ PollLost(f) \/ ClickJob(f) \/ SelectAnswered(f)
    PROVE  PageInv'
  <1> USE DEF PageInv
  <1>0. fetch[f].kind # "upload"
    BY DEF TimerFires, PollAnswered, PollLost, ClickJob, SelectAnswered, Free, NoFetch
  <1>1. PICK x \in Fetch : /\ Addressed(x) /\ x.kind # "upload"
                           /\ fetch' = [fetch EXCEPT ![f] = x]
    <2>1. CASE TimerFires(f)
      <3>1. timer \in Jobs
        BY <2>1 DEF TimerFires, Shapes
      <3> QED BY <2>1, <3>1, FetchShapes DEF TimerFires, Send
    <2>2. CASE ClickJob(f)
      BY <2>2, FetchShapes DEF ClickJob, Send
    <2>3. CASE PollAnswered(f) \/ PollLost(f) \/ SelectAnswered(f)
      <3>1. NoFetch.kind # "upload"
        BY DEF NoFetch
      <3> QED BY <2>3, <3>1, FetchShapes DEF PollAnswered, PollLost, SelectAnswered, Done
    <2> QED BY <2>1, <2>2, <2>3
  <1>2. /\ Uploading' <=> Uploading
        /\ \A g \in Fetches : fetch'[g].kind = "upload" <=> fetch[g].kind = "upload"
    BY <1>0, <1>1, SameUploads
  <1>3. CASE UNCHANGED <<status, button, timer, strayed>>
    <2>1. Shapes'
      BY <1>1, <1>3, ShapesKept DEF Shapes
    <2> QED BY <1>2, <1>3, <2>1 DEF NeverLockedOut, OneAtATime
  <1>4. CASE PollAnswered(f) /\ Ends(f) /\ timer' = Nobody
    <2>1. /\ button' /\ status' = status
          /\ strayed' = (strayed \/ (timer # fetch[f].job /\ (timer # Nobody \/ Uploading)))
      BY <1>4 DEF PollAnswered
    <2>2. Shapes'
      BY <1>1, <1>4, <2>1, ShapesKept DEF Shapes
    <2>3. fetch[f].job # Nobody
      BY <1>4, NobodyAssumption DEF PollAnswered, Shapes, Addressed
    <2>4. ASSUME ~strayed' PROVE ~Uploading
      BY <2>1, <2>3, <2>4 DEF OneAtATime
    <2>5. ASSUME ~strayed' PROVE ~strayed
      BY <2>1, <2>5
    <2>6. OneAtATime'
      BY <1>2, <1>4, <2>4, <2>5 DEF OneAtATime
    <2> QED BY <2>1, <2>2, <2>6 DEF NeverLockedOut
  <1> QED BY <1>3, <1>4
      DEF TimerFires, PollAnswered, PollLost, ClickJob, SelectAnswered, page

LEMMA Keeps == PageInv /\ [Next]_vars => PageInv'
  <1> SUFFICES ASSUME PageInv, [Next]_vars PROVE PageInv'
    OBVIOUS
  <1>1. CASE UNCHANGED vars
    <2>1. Shapes'
      BY <1>1 DEF PageInv, Shapes, vars, page
    <2> QED BY <1>1, <2>1, Untouched DEF vars
  <1>2. CASE Next
    BY <1>2, ApiKeeps, ButtonKeeps, PollKeeps DEF Next, Handler
  <1> QED BY <1>1, <1>2

\* Whatever answers come late, are refused or get lost, a disabled upload
\* button is waiting for an upload's answer or for a poll (index.html:221,
\* 244, 260 and 266).
THEOREM ButtonComesBack == Spec => []NeverLockedOut
  BY StartsIdle, Keeps, PTL DEF Spec, PageInv

\* Until a late answer stops the interval of another job, the page is busy
\* with one job: it is uploading it or polling it (index.html:246-268).
THEOREM OneJobAtATime == Spec => []OneAtATime
  BY StartsIdle, Keeps, PTL DEF Spec, PageInv

---------------------------------------------------------------------------
(* The interval.  Only an upload's answer and the answer of a poll touch it,  *)
(* and unless another job's end was taken for this one's, the first comes     *)
(* only when there is no interval and the second is about the job it polls.   *)

LEMMA WhoStops ==
    ASSUME PageInv, [Next]_vars, timer # Nobody, timer' # timer
    PROVE  \E f \in Fetches :
              UploadCreated(f) \/ (PollAnswered(f) /\ Ends(f) /\ timer' = Nobody /\ button' = TRUE)
  <1>1. ASSUME NEW j \in Jobs, Progress(j) \/ Relapse(j) PROVE timer' = timer
    BY <1>1 DEF Progress, Relapse, page
  <1>2. ASSUME NEW f \in Fetches, Answered(f) \/ Lapse(f) PROVE timer' = timer
    BY <1>2 DEF Answered, AnswerUpload, AnswerStatus, Lapse, page
  <1>3. ASSUME NEW f \in Fetches, ClickUpload(f) \/ TimerFires(f) \/ ClickJob(f)
        PROVE  timer' = timer
    BY <1>3 DEF ClickUpload, TimerFires, ClickJob, page
  <1>4. ASSUME NEW f \in Fetches, UploadFailed(f) \/ PollLost(f) \/ SelectAnswered(f)
        PROVE  timer' = timer
    BY <1>4 DEF UploadFailed, PollLost, SelectAnswered, page
  <1>5. ASSUME NEW f \in Fetches, PollAnswered(f)
        PROVE  (Ends(f) /\ timer' = Nobody /\ button' = TRUE) \/ timer' = timer
    BY <1>5 DEF PollAnswered
  <1>6. CASE UNCHANGED vars
    BY <1>6 DEF vars, page
  <1> QED BY <1>1, <1>2, <1>3, <1>4, <1>5, <1>6 DEF Next, Handler

LEMMA StopsWithTheEnd ==
    ASSUME PageInv, [Next]_vars, timer # Nobody, timer' # timer
    PROVE  \/ /\ timer' = Nobody /\ button'
              /\ card'.job = timer /\ card'.badge \in Settled
           \/ strayed'
  <1>1. PICK f \in Fetches :
            UploadCreated(f) \/ (PollAnswered(f) /\ Ends(f) /\ timer' = Nobody /\ button' = TRUE)
    BY WhoStops
  <1>2. CASE UploadCreated(f)
    <2>1. Uploading /\ strayed' = strayed
      BY <1>2 DEF UploadCreated, Uploading
    <2> QED BY <2>1 DEF PageInv, OneAtATime
  <1>3. CASE PollAnswered(f) /\ Ends(f) /\ timer' = Nobody /\ button' = TRUE
    <2>1. strayed' = (strayed \/ (timer # fetch[f].job /\ (timer # Nobody \/ Uploading)))
      BY <1>3 DEF PollAnswered
    <2>2. ASSUME timer = fetch[f].job
          PROVE  card'.job = timer /\ card'.badge \in Settled
      <3>1. fetch[f].answer \in Settled /\ fetch[f].answer # "refused"
        BY <1>3 DEF Ends, Settled, Api!Terminal
      <3>2. card' = [job |-> fetch[f].job, badge |-> fetch[f].answer]
        BY <1>3, <3>1 DEF PollAnswered, Show
      <3> QED BY <2>2, <3>1, <3>2
    <2>3. CASE timer # fetch[f].job
      BY <2>1, <2>3
    <2> QED BY <1>3, <2>2, <2>3
  <1> QED BY <1>1, <1>2, <1>3

\* The interval of a job stops with the end of that job on the card and the
\* button enabled (index.html:246-268), unless a late answer stopped it.
THEOREM AlwaysPolledToTheEnd == Spec => PolledToTheEnd
  BY StopsWithTheEnd, StartsIdle, Keeps, PTL DEF Spec, PolledToTheEnd

---------------------------------------------------------------------------
(* The end is told.  A job that is polled is known to the API; when nobody    *)
(* clicks and nothing lapses any more it settles, the polls under way are     *)
(* answered, the interval sends a new one, and its answer ends the polling.   *)

\* What a fetch and the interval are about has a status.
Known ==
    /\ clicks \in Nat /\ lapses \in Nat
    /\ \A f \in Fetches : fetch[f].kind = "none" => Free(f)
    /\ \A f \in Fetches :
          fetch[f].kind = "upload" /\ fetch[f].answer = "created" => status[fetch[f].job] # "none"
    /\ timer # Nobody => status[timer] # "none" /\ \E f \in Fetches : TRUE

Quiet == UNCHANGED <<clicks, lapses>>

\* What may happen to a job's status.
LEMMA StatusSteps ==
    ASSUME PageInv, [Next]_vars, NEW j \in Jobs
    PROVE  \/ status'[j] = status[j] \/ Progress(j) \/ Relapse(j)
           \/ status[j] = "none" /\ status'[j] = "queued"
  <1> USE DEF PageInv, Shapes
  <1>1. ASSUME NEW i \in Jobs, Progress(i) \/ Relapse(i)
        PROVE  i = j \/ status'[j] = status[j]
    BY <1>1 DEF Progress, Relapse
  <1>2. ASSUME NEW f \in Fetches, AnswerUpload(f)
        PROVE  status'[j] = status[j] \/ (status[j] = "none" /\ status'[j] = "queued")
    BY <1>2 DEF AnswerUpload
  <1>3. ASSUME NEW f \in Fetches, AnswerStatus(f) \/ Lapse(f) \/ Handler(f)
        PROVE  status' = status
    BY <1>3 DEF AnswerStatus, Lapse, Handler, UploadCreated, UploadFailed, PollAnswered,
                PollLost, SelectAnswered
  <1>4. ASSUME NEW f \in Fetches, ClickUpload(f) \/ TimerFires(f) \/ ClickJob(f)
        PROVE  status' = status
    BY <1>4 DEF ClickUpload, TimerFires, ClickJob
  <1>5. CASE UNCHANGED vars
    BY <1>5 DEF vars
  <1> QED
    BY <1>1, <1>2, <1>3, <1>4, <1>5 DEF Next, Answered

LEMMA StatusStays ==
    ASSUME PageInv, [Next]_vars, NEW j \in Jobs, status[j] # "none"
    PROVE  status'[j] # "none"
  <1>1. CASE Progress(j) \/ Relapse(j)
    BY <1>1 DEF Progress, Relapse, Api!Phases, Settled, Api!Terminal, Statuses, PageInv, Shapes
  <1> QED
    BY <1>1, StatusSteps

\* What may happen to a fetch.
LEMMA FetchSteps ==
    ASSUME PageInv, [Next]_vars, NEW f \in Fetches
    PROVE  \/ fetch'[f] = fetch[f] \/ Answered(f) \/ Handler(f) \/ TimerFires(f)
           \/ Lapse(f) \/ ClickUpload(f) \/ ClickJob(f)
  <1> USE DEF PageInv, Shapes
  <1>1. ASSUME NEW j \in Jobs, Progress(j) \/ Relapse(j) PROVE fetch' = fetch
    BY <1>1 DEF Progress, Relapse
  <1>2. ASSUME NEW g \in Fetches, Answered(g) \/ Lapse(g), g # f PROVE fetch'[f] = fetch[f]
    BY <1>2 DEF Answered, AnswerUpload, AnswerStatus, Lapse, Answer
  <1>3. ASSUME NEW g \in Fetches, Handler(g), g # f PROVE fetch'[f] = fetch[f]
    BY <1>3 DEF Handler, UploadCreated, UploadFailed, PollAnswered, PollLost,
                SelectAnswered, Send, Done
  <1>4. ASSUME NEW g \in Fetches, ClickUpload(g) \/ TimerFires(g) \/ ClickJob(g), g # f
        PROVE  fetch'[f] = fetch[f]
    BY <1>4 DEF ClickUpload, TimerFires, ClickJob, Send
  <1>5. CASE UNCHANGED vars
    BY <1>5 DEF vars
  <1> QED
    BY <1>1, <1>2, <1>3, <1>4, <1>5 DEF Next

\* While it is quiet only answers, handlers and the interval touch a fetch.
LEMMA QuietSteps ==
    ASSUME PageInv, Known, [Next]_vars, [Quiet]_vars, NEW f \in Fetches
    PROVE  fetch'[f] = fetch[f] \/ Answered(f) \/ Handler(f) \/ TimerFires(f)
  <1>1. UNCHANGED <<clicks, lapses>>
    BY DEF Quiet, vars
  <1>2. ~Lapse(f) /\ ~ClickUpload(f) /\ ~ClickJob(f)
    BY <1>1 DEF Lapse, ClickUpload, ClickJob, Click, Known
  <1> QED
    BY <1>2, FetchSteps

\* What an answer and a handler leave of a fetch.
LEMMA AnswerLeaves ==
    ASSUME PageInv, NEW f \in Fetches, Answered(f) \/ Lapse(f)
    PROVE  /\ fetch'[f].kind = fetch[f].kind /\ fetch[f].kind # "none"
           /\ fetch[f].answer = "awaited"
           /\ fetch[f].kind \in {"poll", "select"} => fetch'[f].job = fetch[f].job
           /\ fetch[f].kind = "upload" /\ fetch'[f].answer = "created"
                 => status'[fetch'[f].job] = "queued"
           /\ AnswerStatus(f) => fetch'[f].answer = status[fetch[f].job]
           /\ fetch[f].kind \in {"poll", "select"} => UNCHANGED <<timer, status>>
  <1>0. fetch \in [Fetches -> Fetch] /\ fetch[f] \in Fetch /\ status \in [Jobs -> Statuses]
    BY DEF PageInv, Shapes
  <1>4. AnswerStatus(f) => fetch'[f].answer = status[fetch[f].job]
    BY <1>0 DEF AnswerStatus, Answer, Fetch
  <1>1. CASE AnswerUpload(f)
    <2>1. fetch[f].kind = "upload" /\ fetch[f].answer = "awaited"
      BY <1>1 DEF AnswerUpload, Awaited
    <2>2. CASE \E j \in Jobs :
                  /\ status' = [status EXCEPT ![j] = "queued"]
                  /\ fetch' = [fetch EXCEPT ![f].job = j, ![f].answer = "created"]
      <3>1. PICK j \in Jobs :
                  /\ status' = [status EXCEPT ![j] = "queued"]
                  /\ fetch' = [fetch EXCEPT ![f].job = j, ![f].answer = "created"]
        BY <2>2
      <3>2. fetch'[f].kind = "upload" /\ fetch'[f].job = j
        BY <1>0, <2>1, <3>1 DEF Fetch
      <3>3. status'[j] = "queued"
        BY <1>0, <3>1
      <3> QED
        BY <1>4, <2>1, <3>2, <3>3
    <2>3. CASE Answer(f, "refused")
      <3>1. fetch'[f].kind = "upload" /\ fetch'[f].answer = "refused"
        BY <1>0, <2>1, <2>3 DEF Answer, Fetch
      <3> QED
        BY <1>4, <2>1, <3>1
    <2> QED
      BY <1>1, <2>2, <2>3 DEF AnswerUpload
  <1>2. CASE AnswerStatus(f)
    BY <1>0, <1>2 DEF AnswerStatus, Awaited, Answer, Fetch, page
  <1>3. CASE Lapse(f)
    <2>1. PICK a : Answer(f, a)
      BY <1>3 DEF Lapse
    <2>2. fetch'[f].kind = fetch[f].kind /\ fetch'[f].job = fetch[f].job
      BY <1>0, <2>1 DEF Answer, Fetch
    <2>3. fetch[f].kind \in {"poll", "select"} /\ fetch[f].answer = "awaited" /\ UNCHANGED <<timer, status>>
      BY <1>3 DEF Lapse, Awaited, page
    <2> QED
      BY <1>4, <2>2, <2>3
  <1> QED
    BY <1>1, <1>2, <1>3 DEF Answered

LEMMA HandlerLeaves ==
    ASSUME PageInv, NEW f \in Fetches, Handler(f)
    PROVE  /\ fetch[f].kind # "none" /\ fetch[f].answer # "awaited"
           /\ status' = status
           /\ \/ fetch'[f] = NoFetch
              \/ UploadCreated(f) /\ fetch'[f].kind = "poll" /\ timer' = fetch[f].job
  <1>1. CASE UploadCreated(f)
    BY <1>1 DEF UploadCreated, Send, PageInv, Shapes
  <1>2. CASE UploadFailed(f) \/ PollAnswered(f) \/ PollLost(f) \/ SelectAnswered(f)
    BY <1>2 DEF UploadFailed, PollAnswered, PollLost, SelectAnswered, Done, PageInv, Shapes
  <1> QED
    BY <1>1, <1>2 DEF Handler

LEMMA SendLeaves ==
    ASSUME PageInv, NEW f \in Fetches, ClickUpload(f) \/ TimerFires(f) \/ ClickJob(f)
    PROVE  /\ Free(f) /\ fetch'[f].kind # "none" /\ fetch'[f].answer = "awaited"
           /\ TimerFires(f) => fetch'[f].kind = "poll" /\ fetch'[f].job = timer
  BY DEF ClickUpload, TimerFires, ClickJob, Send, PageInv, Shapes

LEMMA TimerSteps ==
    ASSUME [Next]_vars
    PROVE  timer' = timer \/ timer' = Nobody \/ \E f \in Fetches : UploadCreated(f)
  <1>1. ASSUME NEW j \in Jobs, Progress(j) \/ Relapse(j) PROVE timer' = timer
    BY <1>1 DEF Progress, Relapse, page
  <1>2. ASSUME NEW f \in Fetches, Answered(f) \/ Lapse(f) PROVE timer' = timer
    BY <1>2 DEF Answered, AnswerUpload, AnswerStatus, Lapse, page
  <1>3. ASSUME NEW f \in Fetches, Handler(f), ~UploadCreated(f)
        PROVE  timer' = timer \/ timer' = Nobody
    BY <1>3 DEF Handler, UploadFailed, PollAnswered, PollLost, SelectAnswered, page
  <1>4. ASSUME NEW f \in Fetches, ClickUpload(f) \/ TimerFires(f) \/ ClickJob(f)
        PROVE  timer' = timer
    BY <1>4 DEF ClickUpload, TimerFires, ClickJob, page
  <1>5. CASE UNCHANGED vars
    BY <1>5 DEF vars, page
  <1> QED
    BY <1>1, <1>2, <1>3, <1>4, <1>5 DEF Next

LEMMA CountersCount ==
    ASSUME clicks \in Nat, lapses \in Nat, [Next]_vars
    PROVE  clicks' \in Nat /\ lapses' \in Nat
  BY DEF Next, vars, Progress, Relapse, Answered, AnswerUpload, AnswerStatus, Lapse, Handler,
         UploadCreated, UploadFailed, PollAnswered, PollLost, SelectAnswered, ClickUpload,
         TimerFires, ClickJob, Click

LEMMA StartsKnown == Init => Known
  BY DEF Init, Known, NoFetch, Free

LEMMA KnownKept == PageInv /\ Known /\ [Next]_vars => Known'
  <1> SUFFICES ASSUME PageInv, Known, [Next]_vars PROVE Known'
    OBVIOUS
  <1>1. PageInv'
    BY Keeps
  <1>2. ASSUME NEW f \in Fetches
        PROVE  /\ fetch'[f].kind = "none" => fetch'[f] = NoFetch
               /\ fetch'[f].kind = "upload" /\ fetch'[f].answer = "created"
                     => status'[fetch'[f].job] # "none"
    <2>1. CASE fetch'[f] = fetch[f]
      <3>1. fetch[f].kind = "upload" /\ fetch[f].answer = "created" => fetch[f].job \in Jobs
        BY DEF PageInv, Shapes, Addressed
      <3> QED
        BY <2>1, <3>1, StatusStays DEF Known, Free
    <2>2. CASE Answered(f) \/ Lapse(f)
      BY <2>2, AnswerLeaves
    <2>3. CASE Handler(f)
      BY <2>3, HandlerLeaves DEF NoFetch
    <2>4. CASE ClickUpload(f) \/ TimerFires(f) \/ ClickJob(f)
      BY <2>4, SendLeaves
    <2> QED
      BY <2>1, <2>2, <2>3, <2>4, FetchSteps
  <1>3. timer' # Nobody => status'[timer'] # "none" /\ \E f \in Fetches : TRUE
    <2>1. CASE timer' = timer
      BY <2>1, StatusStays DEF PageInv, Shapes, Known
    <2>2. ASSUME NEW f \in Fetches, UploadCreated(f)
          PROVE  status'[timer'] # "none"
      <3>1. Handler(f) /\ fetch[f].kind = "upload" /\ fetch[f].answer = "created"
        BY <2>2 DEF Handler, UploadCreated
      <3>2. timer' = fetch[f].job /\ status' = status
        BY <2>2 DEF UploadCreated
      <3> QED
        BY <3>1, <3>2 DEF Known
    <2> QED
      BY <2>1, <2>2, TimerSteps
  <1> QED
    BY <1>2, <1>3, CountersCount DEF Known, Free

---------------------------------------------------------------------------
(* What the theorem about progress needs to know of ENABLED, which the       *)
(* prover cannot compute: that an action is enabled where its guard holds.   *)

\* An upload is answered by a job or by a refusal, and by nothing else: in
\* upload_video's answer the page never meets a status.
UploadAnswered(x) == x.kind = "upload" => x.answer \in {"awaited", "created", "refused"}
UploadsAnswered   == \A f \in Fetches : UploadAnswered(fetch[f])

LEMMA UploadShapes ==
    /\ UploadAnswered(NoFetch)
    /\ \A k \in {"upload", "poll", "select"}, j \in Jobs \cup {Nobody} :
          UploadAnswered([kind |-> k, job |-> j, answer |-> "awaited"])
  BY DEF UploadAnswered, NoFetch

LEMMA UploadsStayAnswered == PageInv /\ UploadsAnswered /\ [Next]_vars => UploadsAnswered'
  <1> SUFFICES ASSUME PageInv, UploadsAnswered, [Next]_vars, NEW g \in Fetches
               PROVE  UploadAnswered(fetch'[g])
    BY DEF UploadsAnswered
  <1>0. fetch \in [Fetches -> Fetch] /\ timer \in Jobs \cup {Nobody} /\ UploadAnswered(fetch[g])
    BY DEF PageInv, Shapes, UploadsAnswered
  <1>1. CASE fetch' = fetch
    BY <1>0, <1>1
  <1>2. ASSUME NEW f \in Fetches, AnswerUpload(f) PROVE UploadAnswered(fetch'[g])
    <2>1. CASE f # g
      BY <1>0, <1>2, <2>1 DEF AnswerUpload, Answer
    <2>2. CASE f = g
      BY <1>0, <1>2, <2>2 DEF AnswerUpload, Answer, UploadAnswered, Fetch
    <2> QED
      BY <2>1, <2>2
  <1>3. ASSUME NEW f \in Fetches, AnswerStatus(f) \/ Lapse(f)
        PROVE  UploadAnswered(fetch'[g])
    <2>1. PICK a : Answer(f, a)
      BY <1>3 DEF AnswerStatus, Lapse
    <2>2. fetch[f].kind # "upload"
      BY <1>3 DEF AnswerStatus, Lapse, Awaited
    <2> QED
      BY <1>0, <2>1, <2>2 DEF Answer, UploadAnswered, Fetch
  <1>4. ASSUME NEW f \in Fetches, Handler(f) PROVE UploadAnswered(fetch'[g])
    <2>1. Done(f) \/ Send(f, "poll", fetch[f].job)
      BY <1>4 DEF Handler, UploadCreated, UploadFailed, PollAnswered, PollLost, SelectAnswered
    <2>2. fetch[f].job \in Jobs \cup {Nobody}
      BY <1>0 DEF Fetch
    <2> QED
      BY <1>0, <2>1, <2>2, UploadShapes DEF Done, Send
  <1>5. ASSUME NEW f \in Fetches, ClickUpload(f) \/ TimerFires(f) \/ ClickJob(f)
        PROVE  UploadAnswered(fetch'[g])
    <2>1. PICK k \in {"upload", "poll", "select"}, j \in Jobs \cup {Nobody} : Send(f, k, j)
      BY <1>0, <1>5 DEF ClickUpload, TimerFires, ClickJob
    <2> QED
      BY <1>0, <2>1, UploadShapes DEF Send
  <1> QED
    BY <1>1, <1>2, <1>3, <1>4, <1>5 DEF Next, Answered, Progress, Relapse, vars

\* The guards, as the actions state them.
Answerable(f) == Awaited(f, {"upload"}) \/ Awaited(f, {"poll", "select"})

Handleable(f) ==
    \/ fetch[f].kind = "upload" /\ fetch[f].answer \in {"created", "refused"}
    \/ fetch[f].kind = "poll" /\ (fetch[f].answer \notin {"awaited", "lost"} \/ fetch[f].answer = "lost")
    \/ fetch[f].kind = "select" /\ fetch[f].answer # "awaited"

\* No step asks for more than its guard, and none leaves everything as it is.
GuardsSuffice ==
    /\ \A j \in Jobs : (\E st \in Api!Phases(status[j]) : st # status[j])
                       => ENABLED <<Progress(j)>>_vars
    /\ \A f \in Fetches : /\ Answerable(f) => ENABLED <<Answered(f)>>_vars
                          /\ Handleable(f) => ENABLED <<Handler(f)>>_vars
    /\ timer # Nobody /\ (\E f \in Fetches : Free(f)) => ENABLED <<IntervalFires>>_vars

LEMMA JobCanGoOn ==
    ASSUME NEW j \in Jobs, status[j] \in {"queued", "running"}
    PROVE  \E st \in Api!Phases(status[j]) : st # status[j]
  <1>1. status[j] \notin Settled
    BY DEF Settled, Api!Terminal
  <1> QED
    BY <1>1 DEF Api!Phases, Settled, Api!Terminal

LEMMA FetchCanGoOn ==
    ASSUME PageInv, UploadsAnswered, NEW f \in Fetches, fetch[f].kind # "none"
    PROVE  IF fetch[f].answer = "awaited" THEN Answerable(f) ELSE Handleable(f)
  <1>1. fetch[f].kind \in {"upload", "poll", "select"} /\ UploadAnswered(fetch[f])
    BY DEF PageInv, Shapes, Fetch, UploadsAnswered
  <1> QED
    BY <1>1 DEF Answerable, Handleable, Awaited, UploadAnswered

\* Every job that has not settled, every request and every answer can go on, and
\* the interval can fire while a request can be sent.
NothingHangs ==
    /\ \A j \in Jobs : status[j] \in {"queued", "running"} => ENABLED <<Progress(j)>>_vars
    /\ \A f \in Fetches : fetch[f].kind # "none" =>
          IF fetch[f].answer = "awaited" THEN ENABLED <<Answered(f)>>_vars
                                         ELSE ENABLED <<Handler(f)>>_vars
    /\ timer # Nobody /\ (\E f \in Fetches : Free(f)) => ENABLED <<IntervalFires>>_vars

LEMMA NothingHangsByGuards == Spec /\ []GuardsSuffice => []NothingHangs
  <1>1. Init => UploadsAnswered
    BY UploadShapes DEF Init, UploadsAnswered
  <1>2. Spec => [](PageInv /\ UploadsAnswered)
    BY <1>1, StartsIdle, Keeps, UploadsStayAnswered, PTL DEF Spec
  <1>3. PageInv /\ UploadsAnswered /\ GuardsSuffice => NothingHangs
    BY JobCanGoOn, FetchCanGoOn DEF GuardsSuffice, NothingHangs
  <1> QED
    BY <1>2, <1>3, PTL

---------------------------------------------------------------------------
(* From some time on nobody clicks and nothing lapses: an interval that went  *)
(* on for ever nevertheless would have its job settled and a poll answered.   *)

Calm == [][Quiet]_vars

Polled(j) == timer = j /\ ~strayed
Ended(j) == status[j] \in Settled
Fresh(j, f) ==
    /\ fetch[f].kind = "poll" /\ fetch[f].job = j
    /\ fetch[f].answer \in {"awaited"} \cup Settled
NoneFresh(j) == \A f \in Fetches : ~Fresh(j, f)

Inv == PageInv /\ Known

Endless(j) == [][Next]_vars /\ []Inv /\ []NothingHangs /\ Calm /\ []Polled(j)

\* The job that is polled settles.
LEMMA JobSettles ==
    ASSUME NEW j \in Jobs
    PROVE  Endless(j) /\ Ending(j) => <>[]Ended(j)
  <1> DEFINE Queued == status[j] = "queued"
             Running == status[j] = "running"
             Steps == Inv /\ [Next]_vars /\ [Quiet]_vars
  <1>1. Inv /\ Polled(j) => Queued \/ Running \/ Ended(j)
    BY NobodyAssumption DEF Inv, PageInv, Shapes, Known, Polled, Ended, Statuses
  <1>2. Steps => status'[j] = status[j] \/ Progress(j) \/ status[j] = "none"
    <2>1. Inv /\ [Quiet]_vars => ~Relapse(j)
      BY DEF Inv, Known, Quiet, vars, Relapse
    <2> QED
      BY <2>1, StatusSteps DEF Inv
  <1>3. Inv /\ Progress(j) => \/ Queued /\ (Running' \/ Ended(j)')
                              \/ Running /\ Ended(j)'
    BY DEF Inv, PageInv, Shapes, Progress, Api!Phases, Ended, Settled, Api!Terminal
  <1>4. Steps /\ Ended(j) => Ended(j)'
    BY <1>2, <1>3 DEF Ended, Settled, Api!Terminal
  <1>5. Steps /\ Running => Running' \/ Ended(j)'
    BY <1>2, <1>3
  <1>6. Steps /\ Queued => Queued' \/ Running' \/ Ended(j)'
    BY <1>2, <1>3
  <1>7. /\ Inv /\ Running /\ <<Progress(j)>>_vars => Ended(j)'
        /\ Inv /\ Queued /\ <<Progress(j)>>_vars => Running' \/ Ended(j)'
    BY <1>3
  <1>8. NothingHangs /\ (Queued \/ Running) => ENABLED <<Progress(j)>>_vars
    BY DEF NothingHangs
  <1> HIDE DEF Queued, Running
  <1> QED
    BY <1>1, <1>4, <1>5, <1>6, <1>7, <1>8, PTL DEF Endless, Calm, Ending

\* While a job is polled every request under way is a poll or of a row.
LEMMA NoUpload ==
    ASSUME Inv, NEW j \in Jobs, Polled(j), NEW f \in Fetches, fetch[f].kind # "none"
    PROVE  fetch[f].kind \in {"poll", "select"} /\ fetch[f].job \in Jobs
  BY NobodyAssumption
     DEF Inv, PageInv, Shapes, OneAtATime, Uploading, Polled, Fetch, Addressed

InAir(f) == fetch[f].kind # "none" /\ fetch[f].answer = "awaited"
Back(f) == fetch[f].kind # "none" /\ fetch[f].answer # "awaited"

\* The two halves of a request.
LEMMA ReplyComes ==
    ASSUME Inv, NEW j \in Jobs, Polled(j), NEW f \in Fetches, Answered(f)
    PROVE  Back(f)' /\ fetch'[f].answer = status[fetch[f].job]
  <1>1. fetch[f].kind \in {"poll", "select"} /\ fetch[f].job \in Jobs
    BY AnswerLeaves, NoUpload DEF Inv
  <1>2. AnswerStatus(f)
    BY <1>1 DEF Answered, AnswerUpload, Awaited
  <1>3. fetch'[f].answer = status[fetch[f].job] /\ fetch'[f].kind # "none"
    BY <1>2, AnswerLeaves DEF Inv
  <1>4. status[fetch[f].job] # "awaited"
    BY <1>1 DEF Inv, PageInv, Shapes, Statuses, Settled, Api!Terminal
  <1> QED
    BY <1>3, <1>4 DEF Back

LEMMA ReplyIsHandled ==
    ASSUME Inv, NEW j \in Jobs, Polled(j), NEW f \in Fetches, Handler(f)
    PROVE  Free(f)'
  <1>1. fetch[f].kind # "upload"
    BY HandlerLeaves, NoUpload DEF Inv
  <1> QED
    BY <1>1, HandlerLeaves DEF Inv, UploadCreated, Free

\* Every request under way is over some time.
LEMMA RequestReturns ==
    ASSUME NEW j \in Jobs, NEW f \in Fetches
    PROVE  Endless(j) /\ Replied(f) /\ Handled(f) => <>Free(f)
  <1> DEFINE Steps == Inv /\ [Next]_vars /\ [Quiet]_vars
  <1>1. Inv => Free(f) \/ InAir(f) \/ Back(f)
    BY DEF Inv, Known, InAir, Back
  <1>2. Steps /\ Inv' /\ InAir(f) => InAir(f)' \/ Back(f)' \/ Free(f)'
    BY DEF Inv, Known, Free, InAir, Back
  <1>3. Inv /\ Polled(j) /\ <<Answered(f)>>_vars => Back(f)'
    BY ReplyComes
  <1>4. Steps /\ Polled(j) /\ Back(f) => Back(f)' \/ Free(f)'
    <2> SUFFICES ASSUME Steps, Polled(j), Back(f) PROVE Back(f)' \/ Free(f)'
      OBVIOUS
    <2>1. ~Answered(f) /\ ~TimerFires(f)
      BY AnswerLeaves, SendLeaves DEF Inv, Back, Free, NoFetch
    <2>2. CASE fetch'[f] = fetch[f]
      BY <2>2 DEF Back
    <2> QED
      BY <2>1, <2>2, QuietSteps, ReplyIsHandled DEF Inv
  <1>5. Inv /\ Polled(j) /\ <<Handler(f)>>_vars => Free(f)'
    BY ReplyIsHandled
  <1>6. /\ NothingHangs /\ InAir(f) => ENABLED <<Answered(f)>>_vars
        /\ NothingHangs /\ Back(f) => ENABLED <<Handler(f)>>_vars
    BY DEF NothingHangs, InAir, Back
  <1> HIDE DEF Steps
  <1>7. Steps <=> Inv /\ [Next]_vars /\ [Quiet]_vars
    BY DEF Steps
  <1> QED
    BY <1>1, <1>2, <1>3, <1>4, <1>5, <1>6, <1>7, PTL DEF Endless, Calm, Replied, Handled

\* The job has settled, and its interval goes on.
Overdue(j) == Endless(j) /\ []Ended(j)

\* A poll that is answered from now on ends the interval.
LEMMA FreshEnds ==
    ASSUME Inv, NEW j \in Jobs, Polled(j), NEW f \in Fetches, Fresh(j, f), Handler(f)
    PROVE  ~Polled(j)'
  <1>1. PollAnswered(f) /\ fetch[f].answer \in Settled
    BY DEF Fresh, Handler, UploadCreated, UploadFailed, PollAnswered, PollLost,
           SelectAnswered, Settled, Api!Terminal
  <1>2. timer' = Nobody
    BY <1>1 DEF PollAnswered, Ends
  <1> QED
    BY <1>2, NobodyAssumption DEF Polled

LEMMA FreshStays ==
    ASSUME Inv, [Next]_vars, [Quiet]_vars, NEW j \in Jobs, Polled(j), Polled(j)', Ended(j),
           NEW f \in Fetches, Fresh(j, f)
    PROVE  Fresh(j, f)'
  <1>1. ~TimerFires(f) /\ ~Handler(f)
    BY FreshEnds, SendLeaves DEF Inv, Fresh, Free, NoFetch
  <1>2. CASE fetch'[f] = fetch[f]
    BY <1>2 DEF Fresh
  <1>3. CASE Answered(f)
    <2>1. fetch'[f].answer = status[j]
      BY <1>3, ReplyComes DEF Fresh
    <2>2. fetch'[f].kind = "poll" /\ fetch'[f].job = j
      BY <1>3, AnswerLeaves DEF Inv, Fresh
    <2> QED
      BY <2>1, <2>2 DEF Fresh, Ended
  <1> QED
    BY <1>1, <1>2, <1>3, QuietSteps DEF Inv

LEMMA NoFreshPoll ==
    ASSUME NEW j \in Jobs, NEW f \in Fetches
    PROVE  Overdue(j) /\ Replied(f) /\ Handled(f) => []~Fresh(j, f)
  <1>1. /\ Inv /\ [Next]_vars /\ [Quiet]_vars /\ Polled(j) /\ Polled(j)' /\ Ended(j) /\ Fresh(j, f)
        => Fresh(j, f)'
    BY FreshStays
  <1>2. Inv /\ Polled(j) /\ Fresh(j, f) /\ <<Handler(f)>>_vars => ~Polled(j)'
    BY FreshEnds
  <1>3. Fresh(j, f) => InAir(f) \/ Back(f)
    BY DEF Fresh, InAir, Back
  <1>4. Inv /\ Polled(j) /\ <<Answered(f)>>_vars => Back(f)'
    BY ReplyComes
  <1>5. /\ NothingHangs /\ InAir(f) => ENABLED <<Answered(f)>>_vars
        /\ NothingHangs /\ Back(f) => ENABLED <<Handler(f)>>_vars
    BY DEF NothingHangs, InAir, Back
  <1>6. /\ Inv /\ [Next]_vars /\ [Quiet]_vars /\ Polled(j) /\ Fresh(j, f)' /\ Back(f)
        => Back(f)'
    <2> SUFFICES ASSUME Inv, [Next]_vars, [Quiet]_vars, Polled(j), Fresh(j, f)', Back(f)
                 PROVE  Back(f)'
      OBVIOUS
    <2>1. ~Answered(f) /\ ~TimerFires(f) /\ ~Handler(f)
      BY AnswerLeaves, SendLeaves, ReplyIsHandled DEF Inv, Back, Free, NoFetch, Fresh
    <2>2. CASE fetch'[f] = fetch[f]
      BY <2>2 DEF Back
    <2> QED
      BY <2>1, <2>2, QuietSteps DEF Inv
  <1> QED
    BY <1>1, <1>2, <1>3, <1>4, <1>5, <1>6, PTL
    DEF Overdue, Endless, Calm, Replied, Handled

\* The interval sends such a poll as soon as a request can be sent.
LEMMA IntervalSends ==
    ASSUME NEW j \in Jobs, NEW f \in Fetches
    PROVE  Overdue(j) /\ Firing /\ []NoneFresh(j) => []~Free(f)
  <1>1. ASSUME Inv, Polled(j), NEW g \in Fetches, TimerFires(g)
        PROVE  ~NoneFresh(j)'
    BY <1>1, SendLeaves DEF Inv, Polled, NoneFresh, Fresh, Settled, Api!Terminal, TimerFires
  <1>2. Inv /\ Polled(j) /\ <<IntervalFires>>_vars => ~NoneFresh(j)'
    BY <1>1 DEF IntervalFires
  <1>3. Inv /\ [Next]_vars /\ [Quiet]_vars /\ Polled(j) /\ Free(f) /\ NoneFresh(j)' => Free(f)'
    <2> SUFFICES ASSUME Inv, [Next]_vars, [Quiet]_vars, Polled(j), Free(f), NoneFresh(j)'
                 PROVE  Free(f)'
      OBVIOUS
    <2>1. ~Answered(f) /\ ~Handler(f)
      BY AnswerLeaves, HandlerLeaves DEF Inv, Free, NoFetch
    <2> QED
      BY <1>1, <2>1, QuietSteps DEF Inv, Free
  <1>4. NothingHangs /\ Polled(j) /\ Free(f) => ENABLED <<IntervalFires>>_vars
    BY NobodyAssumption DEF NothingHangs, Polled
  <1> QED
    BY <1>2, <1>3, <1>4, PTL DEF Overdue, Endless, Calm, Firing

\* What fairness says of one request, and of all.
Kept(f) == Replied(f) /\ Handled(f)
AllKept == \A f \in Fetches : Kept(f)

\* So no interval is overdue for ever.
LEMMA NotOverdue ==
    ASSUME NEW j \in Jobs
    PROVE  Overdue(j) /\ AllKept /\ Firing => FALSE
  <1> DEFINE Lost == []NoneFresh(j)
  <1>1. ASSUME NEW f \in Fetches PROVE Overdue(j) /\ Kept(f) => []~Fresh(j, f)
    BY NoFreshPoll DEF Kept
  <1>2. Overdue(j) /\ AllKept => \A f \in Fetches : []~Fresh(j, f)
    BY <1>1 DEF AllKept
  <1>3. (\A f \in Fetches : []~Fresh(j, f)) => []NoneFresh(j)
    BY DEF NoneFresh
  <1>4. ASSUME NEW f \in Fetches
        PROVE  Overdue(j) /\ Kept(f) /\ Firing /\ Lost => FALSE
    <2>1. Overdue(j) /\ Firing /\ []NoneFresh(j) => []~Free(f)
      BY IntervalSends
    <2>2. Overdue(j) /\ Kept(f) => <>Free(f)
      <3>1. Endless(j) /\ Replied(f) /\ Handled(f) => <>Free(f)
        BY RequestReturns
      <3> QED
        BY <3>1 DEF Overdue, Kept
    <2> QED
      BY <2>1, <2>2, PTL DEF Lost
  <1>5. Inv /\ Polled(j) => \E f \in Fetches : TRUE
    BY NobodyAssumption DEF Inv, Known, Polled
  <1>6. Overdue(j) => \E f \in Fetches : TRUE
    BY <1>5, PTL DEF Overdue, Endless
  <1> HIDE DEF Lost
  <1>7. Overdue(j) /\ AllKept /\ Firing /\ Lost => FALSE
    BY <1>4, <1>6 DEF AllKept
  <1> QED
    BY <1>2, <1>3, <1>7 DEF Lost

LEMMA AlwaysKept == AllKept => []AllKept
  <1>1. ASSUME NEW f \in Fetches PROVE Kept(f) => []Kept(f)
    BY PTL DEF Kept, Replied, Handled
  <1>2. AllKept => \A f \in Fetches : []Kept(f)
    BY <1>1 DEF AllKept
  <1>3. (\A f \in Fetches : []Kept(f)) => []AllKept
    BY DEF AllKept
  <1> QED
    BY <1>2, <1>3

\* Where jobs end, requests are answered and handled and the interval fires, the
\* user is told the end of the job that was uploaded
\* (index.html:246-268), once there are no more clicks and no more lapses; for
\* any number of jobs, of requests under way, and of lapses before.
THEOREM EndAlwaysTold == FairSpec /\ []GuardsSuffice /\ <>Calm => EndTold
  <1> SUFFICES ASSUME NEW j \in Jobs
               PROVE  FairSpec /\ []GuardsSuffice /\ <>Calm => (timer = j ~> Told(j))
    BY DEF EndTold
  <1>1. FairSpec => Spec /\ AllKept /\ Ending(j) /\ Firing
    <2>1. FairSpec => Spec /\ Fairness
      BY DEF FairSpec
    <2>2. Fairness => AllKept /\ (\A i \in Jobs : Ending(i)) /\ Firing
      BY DEF Fairness, AllKept, Kept
    <2> QED
      BY <2>1, <2>2
  <1>2. Spec => []Inv
    <2>1. Init => Inv
      BY StartsIdle, StartsKnown DEF Inv
    <2>2. Inv /\ [Next]_vars => Inv'
      BY Keeps, KnownKept DEF Inv
    <2> QED
      BY <2>1, <2>2, PTL DEF Spec
  <1>3. Inv /\ [Next]_vars /\ Polled(j) => Polled(j)' \/ Told(j)'
    <2> SUFFICES ASSUME Inv, [Next]_vars, Polled(j), ~Told(j)' PROVE Polled(j)'
      OBVIOUS
    <2>1. ~strayed'
      BY DEF Told
    <2>2. timer' = timer
      BY <2>1, StopsWithTheEnd, NobodyAssumption DEF Told, Inv, Polled
    <2> QED
      BY <2>1, <2>2 DEF Polled
  <1>4. timer = j => Polled(j) \/ Told(j)
    BY DEF Polled, Told
  <1>5. Endless(j) /\ Ending(j) => <>[]Ended(j)
    BY JobSettles
  <1>6. Overdue(j) /\ AllKept /\ Firing => FALSE
    BY NotOverdue
  <1>7. Endless(j) /\ AllKept /\ Ending(j) /\ Firing => FALSE
    BY <1>5, <1>6, AlwaysKept, PTL DEF Overdue, Endless, Calm, Firing
  <1>8. Ending(j) => []Ending(j)
    BY PTL DEF Ending
  <1> QED
    BY <1>1, <1>2, <1>3, <1>4, <1>7, <1>8, AlwaysKept, NothingHangsByGuards, PTL
    DEF Spec, Endless, Calm, Firing

===========================================================================
