-------------------------------- MODULE Page --------------------------------
(***************************************************************************)
(* The page of frontend/index.html in one browser tab: the upload button,   *)
(* the interval that polls the job uploaded last, and the status card.     *)
(* Each handler runs until its next await; in between, other answers and   *)
(* clicks are handled.  Every fetch is answered in its own time, so that    *)
(* answers overtake one another: the interval does not wait for the last    *)
(* poll before it sends the next.                                          *)
(*                                                                         *)
(* Of the API the page knows POST /videos and GET /videos/{id}/status.  A   *)
(* job goes through its phases in turn (Pipeline: PhasesInTurn) except for  *)
(* a bounded number of lapses: the cases that property leaves out, and      *)
(* settled jobs that other clients retry.                                  *)
(***************************************************************************)
EXTENDS Naturals

CONSTANTS
    Jobs,       \* the jobs that exist or may be created
    Fetches,    \* identities of the fetches in progress: how many at once
    Nobody,     \* no job
    MaxClicks,  \* bound: uploads and rows clicked
    MaxLapses   \* bound: status answers refused (429, 5xx) or lost, and jobs
                \* that leave the order of their phases

ASSUME NobodyAssumption == Nobody \notin Jobs
ASSUME BoundsAssumption == MaxClicks \in Nat /\ MaxLapses \in Nat

VARIABLES
    status,   \* the jobs as the API shows them
    fetch,    \* the fetches in progress
    button,   \* uploadBtn is enabled
    timer,    \* the job that the interval of pollTimer polls
    card,     \* the status card: the job in its meta line and its badge
    clicks,   \* how often the user has clicked
    lapses,   \* how many lapses there were
    strayed   \* history: the end of another job was taken for this one's

page == <<button, timer, card, strayed>>
vars == <<status, fetch, page, clicks, lapses>>

Api == INSTANCE JobStatus

Settled  == Api!Terminal
Statuses == {"none", "queued", "running"} \cup Settled

\* refused: the body of an error has no status, and resp.ok is not asked.
Answers == {"awaited", "created", "refused", "lost"} \cup Statuses

NoFetch == [kind |-> "none", job |-> Nobody, answer |-> "awaited"]

Uploading == \E f \in Fetches : fetch[f].kind = "upload"

Init ==
    /\ status \in [Jobs -> {"none", "queued"}]
    /\ fetch = [f \in Fetches |-> NoFetch]
    /\ button = TRUE /\ timer = Nobody
    /\ card = [job |-> Nobody, badge |-> "none"]
    /\ clicks = 0 /\ lapses = 0 /\ strayed = FALSE

Send(f, kind, j) ==
    fetch' = [fetch EXCEPT ![f] = [kind |-> kind, job |-> j, answer |-> "awaited"]]
Done(f) == fetch' = [fetch EXCEPT ![f] = NoFetch]
Free(f) == fetch[f] = NoFetch

---------------------------------------------------------------------------
(* The API. *)

Progress(j) ==
    /\ \E st \in Api!Phases(status[j]) : status' = [status EXCEPT ![j] = st]
    /\ UNCHANGED <<fetch, page, clicks, lapses>>

\* A late write of a stage or of the sweep, a cancellation that was racing the
\* end, a retry, or two chains of one job that overlap.
Relapse(j) ==
    /\ status[j] # "none"
    /\ lapses < MaxLapses
    /\ lapses' = lapses + 1
    /\ \E st \in Statuses \ {"none", status[j]} : status' = [status EXCEPT ![j] = st]
    /\ UNCHANGED <<fetch, page, clicks>>

Awaited(f, kinds) == fetch[f].kind \in kinds /\ fetch[f].answer = "awaited"

Answer(f, a) == fetch' = [fetch EXCEPT ![f].answer = a]

AnswerUpload(f) ==
    /\ Awaited(f, {"upload"})
    /\ \/ \E j \in Jobs :
             /\ status[j] = "none"
             /\ status' = [status EXCEPT ![j] = "queued"]
             /\ fetch' = [fetch EXCEPT ![f].job = j, ![f].answer = "created"]
       \/ Answer(f, "refused") /\ UNCHANGED status
    /\ UNCHANGED <<page, clicks, lapses>>

AnswerStatus(f) ==
    /\ Awaited(f, {"poll", "select"})
    /\ Answer(f, status[fetch[f].job])
    /\ UNCHANGED <<status, page, clicks, lapses>>

\* The rate limiter, or an error of the API, or the connection.
Lapse(f) ==
    /\ Awaited(f, {"poll", "select"})
    /\ lapses < MaxLapses
    /\ lapses' = lapses + 1
    /\ \E a \in {"refused", "lost"} : Answer(f, a)
    /\ UNCHANGED <<status, page, clicks>>

---------------------------------------------------------------------------
(* The handlers. *)

Click == clicks < MaxClicks /\ clicks' = clicks + 1

\* showStatus: an answer without a status shows neither.
Show(f) == card' = IF fetch[f].answer = "refused"
                     THEN [job |-> Nobody, badge |-> "refused"]
                     ELSE [job |-> fetch[f].job, badge |-> fetch[f].answer]

\* Seeded bug: the button stays enabled during the upload.
ClickUploadTwice(f) ==
    /\ button /\ Free(f) /\ Click
    /\ card' = [card EXCEPT !.badge = "queued"]
    /\ Send(f, "upload", Nobody)
    /\ UNCHANGED <<status, button, timer, lapses, strayed>>

\* uploadBtn: a new status, beside the meta line of the last job.
ClickUpload(f) ==
    /\ button /\ Free(f) /\ Click
    /\ button' = FALSE
    /\ card' = [card EXCEPT !.badge = "queued"]
    /\ Send(f, "upload", Nobody)
    /\ UNCHANGED <<status, timer, lapses, strayed>>

\* startPoll: a new interval instead of the old one, and a poll at once.
UploadCreated(f) ==
    /\ fetch[f].kind = "upload" /\ fetch[f].answer = "created"
    /\ timer' = fetch[f].job
    /\ Send(f, "poll", fetch[f].job)
    /\ UNCHANGED <<status, button, card, clicks, lapses, strayed>>

\* Seeded bug: the button is not enabled again.
UploadFailedSilently(f) ==
    /\ fetch[f].kind = "upload" /\ fetch[f].answer = "refused"
    /\ Done(f)
    /\ UNCHANGED <<status, page, clicks, lapses>>

\* The text of the banner is set, but the banner is not displayed.
UploadFailed(f) ==
    /\ fetch[f].kind = "upload" /\ fetch[f].answer = "refused"
    /\ button' = TRUE
    /\ Done(f)
    /\ UNCHANGED <<status, timer, card, clicks, lapses, strayed>>

\* setInterval
TimerFires(f) ==
    /\ timer # Nobody /\ Free(f)
    /\ Send(f, "poll", timer)
    /\ UNCHANGED <<status, page, clicks, lapses>>

\* Seeded bugs: an answer that is no status ends the polling; a cancelled job
\* is polled on.
EndsOnRefusal(f) == fetch[f].answer \in Settled \cup {"refused"}
EndsUnlessCancelled(f) == fetch[f].answer \in Settled \ {"cancelled"}

Ends(f) == fetch[f].answer \in Settled

\* poll: clearInterval(pollTimer), whichever job that polls by now.
PollAnswered(f) ==
    /\ fetch[f].kind = "poll" /\ fetch[f].answer \notin {"awaited", "lost"}
    /\ Show(f)
    /\ \/ /\ Ends(f)
          /\ timer' = Nobody /\ button' = TRUE
          /\ strayed' = (strayed \/ (timer # fetch[f].job /\ (timer # Nobody \/ Uploading)))
       \/ ~Ends(f) /\ UNCHANGED <<timer, button, strayed>>
    /\ Done(f)
    /\ UNCHANGED <<status, clicks, lapses>>

\* "transient; keep polling"
PollLost(f) ==
    /\ fetch[f].kind = "poll" /\ fetch[f].answer = "lost"
    /\ Done(f)
    /\ UNCHANGED <<status, page, clicks, lapses>>

\* selectJob, of a row of the list: the job is shown once, not polled.
ClickJob(f) ==
    /\ Free(f) /\ Click
    /\ \E j \in Jobs : status[j] # "none" /\ Send(f, "select", j)
    /\ UNCHANGED <<status, page, lapses>>

SelectAnswered(f) ==
    /\ fetch[f].kind = "select" /\ fetch[f].answer # "awaited"
    /\ IF fetch[f].answer = "lost" THEN UNCHANGED card ELSE Show(f)
    /\ Done(f)
    /\ UNCHANGED <<status, button, timer, clicks, lapses, strayed>>

---------------------------------------------------------------------------

Answered(f) == AnswerUpload(f) \/ AnswerStatus(f)

Handler(f) ==
    \/ UploadCreated(f) \/ UploadFailed(f)
    \/ PollAnswered(f) \/ PollLost(f) \/ SelectAnswered(f)

Next ==
    \/ \E j \in Jobs : Progress(j) \/ Relapse(j)
    \/ \E f \in Fetches : Answered(f) \/ Lapse(f)
    \/ \E f \in Fetches : Handler(f)
    \/ \E f \in Fetches : ClickUpload(f) \/ TimerFires(f) \/ ClickJob(f)

Spec == Init /\ [][Next]_vars

IntervalFires == \E f \in Fetches : TimerFires(f)

\* Jobs end (Pipeline: Settles), the API answers, answers are handled, and the
\* interval fires.  Nobody has to click, and no lapse has to happen.
Ending(j)  == WF_vars(Progress(j))
Replied(f) == WF_vars(Answered(f))
Handled(f) == WF_vars(Handler(f))
Firing     == WF_vars(IntervalFires)

Fairness ==
    /\ \A j \in Jobs : Ending(j)
    /\ \A f \in Fetches : Replied(f) /\ Handled(f)
    /\ Firing

FairSpec == Spec /\ Fairness

---------------------------------------------------------------------------
(* Properties. *)

\* The button is disabled only while an upload or a poll will enable it again,
\* whatever answers come late, are refused or get lost.
NeverLockedOut == ~button => Uploading \/ timer # Nobody

\* One job at a time: a second upload cannot begin while one is in progress or
\* polled, unless the end of an earlier job was reported late.
OneAtATime ==
    ~strayed =>
        /\ button => ~Uploading /\ timer = Nobody
        /\ Uploading => timer = Nobody
        /\ \A f, g \in Fetches :
              fetch[f].kind = "upload" /\ fetch[g].kind = "upload" => f = g

\* A job that is polled is polled to its end: its interval stops with its own
\* end on the card and the button enabled, not at an error, at a click on a row
\* or for another upload; unless a late answer about an earlier job stops it.
PolledToTheEnd ==
    [][timer # Nobody /\ timer' # timer =>
          \/ /\ timer' = Nobody /\ button'
             /\ card'.job = timer /\ card'.badge \in Settled
          \/ strayed']_vars

\* The end of j is on the card and the button is enabled.
Told(j) ==
    \/ /\ card.job = j /\ card.badge \in Settled
       /\ timer = Nobody /\ button
    \/ strayed

\* The user is told how the job that was uploaded ended, and can upload again,
\* unless a late answer about an earlier job has stopped its interval.
EndTold ==
    \A j \in Jobs : timer = j ~> Told(j)
===========================================================================
