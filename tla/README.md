# A specification of the video dubbing platform

TLA+ models of the platform's job pipeline and what it promises, of the sweep's
clock, of what the stages compute, of upload admission, of the broker-less mode
and of the web page; TLC configurations that check them on small instances; and
TLAPS proofs of their main properties for every instance.  Paths are relative
to the repository.

## 1. The system

A client uploads a video; the API stores it, inserts a `jobs` row with status
`queued` and dispatches `run_pipeline`.  Workers execute a chain of six stages,
diarize, transcribe, translate, synthesize, sync_av and package, each a Celery
task of its own.  Users poll, cancel and retry.  A beat task fails stale jobs.
Everybody meets in one row of the database and nobody locks it.

| Component | State it keeps | Operations | Talks to |
|---|---|---|---|
| Stage tasks, `run_pipeline`, `mark_failed` (`workers/tasks.py`) | nothing between transactions | check the flag, check the done table, write the in-flight status, read input, call out, persist, write the done status | database, providers, storage, broker |
| Broker and worker processes (`workers/celery_app.py`; Celery and Redis are external) | messages, attempts, what is acknowledged | deliver, redeliver, retry with backoff, publish the next stage, call the error callback | workers |
| Stale-job recovery (`recover_stale_jobs`) | nothing | select, then fail what was selected | database |
| Job API (`api/routers/videos.py`) | nothing between requests | retry, cancel, status, transcript, download, subtitles | database, broker, storage |
| Upload admission (`upload_video`, `api/main.py`) | the upload semaphore and gauge of the process | count, admit or refuse, validate, store, insert, dispatch | database, storage, broker |
| Database rows (`db/models.py`) | job, transcript rows, events, audit log | | |
| Providers (`providers/`) | none | attribute speakers, translate in batches, speak with a voice per speaker; a result or a typed error (`errors.py`) | outside services |
| Audio composition, subtitles (`core/av_sync.py`, `core/srt.py`) | none | place chunks on the timeline, format | ffmpeg |
| Storage (`storage/`) | blobs by key; the last upload wins | upload, download | disk or S3 |
| Broker-less mode (`dispatch_pipeline`, `CELERY_TASK_ALWAYS_EAGER`) | a semaphore of slots, daemon threads | start a thread, wait for a slot, run the pipeline | API process, metrics |
| Metrics (`core/metrics.py`) | a dict of counters and gauges per process | read, add, write | handlers, threads |
| Web page (`frontend/index.html`) | upload button, polling interval, status card | upload, poll, select a job | API |
| Telemetry, configuration, auth, rate limit | settings read once | | |

What is hard about it:

* **Interleaving.**  A stage makes four to six short transactions, with minutes
  of work between them.  Cancel, retry and the sweep read the row in one
  transaction and write it in another.  A status write never looks at the
  status it replaces.
* **Delivery.**  Acknowledgement is late (`task_acks_late`), so a stage may be
  executed again, at any point, or twice at the same time.  A pool process that
  is killed, by a signal or by the time limit, fails its task instead.
* **Overlap.**  A cancelled stage *returns*, and the chain goes on to its next
  stage.  A retry that comes before the old chain has run out therefore revives
  it in the middle, beside the new chain.
* **Pairing.**  What was heard, translated and spoken is held together by
  positions in lists and by start times, through loops over batches, a `zip`, and
  thresholds in floating point.
* **Gates.**  The queue gate counts the queue before the upload and inserts after.
* **Time.**  Whether a job is dead is judged by `updated_at`, which moves only
  when a column changes, against a limit that nothing relates to the others.
* **Threads.**  Without a broker, pipelines are threads of the API process and
  share its slots and gauges.
* **Late answers.**  The page polls on an interval and does not wait for answers.
* **Progress.**  Nobody looks after a job that is `queued` or between two
  stages once its message is gone.

What makes each component correct:

* pipeline: a job is never left behind; a completed job has its outputs, made
  from translated rows; the status does not go backwards; every job ends;
* cancellation: once it has settled it stays, and nothing works on the job;
* retries: bounded by the limit, for the endpoint and for each task;
* the dub: each segment goes to the speaker who spoke most of it, and each chunk
  speaks its own segment's words, in its time, at a natural pace;
* the sweep: no dead job lingers, and a stage that runs normally is spared;
* the dub's voices: two people have two voices while there are voices left;
* admission: no permit leaks, the queue's overshoot is bounded, and every
  request is answered; without a broker, slots balance and threads are served;
* the page: the button comes back, and the user learns how the upload ended.

## 2. The modules

| Module | Models |
|---|---|
| `JobStatus` | the values of `jobs.status`, the phases they stand for and how these follow one another, the order of the stages, `_DONE_BY_STAGE`, `_stage_done`, what the endpoints and the sweep accept |
| `Pipeline` | one job and everything that touches its row |
| `PipelineProofs` | theorems about `Pipeline` |
| `ProgressProofs` | that the messages of `Pipeline` get on, executions end, queued jobs are taken and jobs settle |
| `JobLifecycle` | abstract: what a client may rely on while it polls a job |
| `LifecycleProofs` | that `Pipeline` implements `JobLifecycle`, and that the status does not go back |
| `StaleRecovery` | one job's message and `recover_stale_jobs` with a clock |
| `StaleRecoveryProofs` | theorems about `StaleRecovery` |
| `Dubbing` | the data of one job: the loops that number, attribute, translate, synthesize and place its segments |
| `DubbingProofs` | theorems about `Dubbing` |
| `Admission` | the two gates of `POST /videos` |
| `AdmissionProofs` | theorems about `Admission` |
| `EagerDispatch` | the threads, slots and gauge of the broker-less mode |
| `EagerApi` | `Admission` and `EagerDispatch` in one process |
| `EagerProofs` | that `EagerApi` implements both, theorems about the slots and the gauge, and that uploads are answered |
| `Page` | the web page in one browser tab |
| `PageProofs` | theorems about `Page` |
| `MCPipeline`, `MCStaleRecovery`, `MCDubbing`, `MCEagerApi` | symmetry sets, settings, grids and identities for TLC; `Page` needs none |

`Pipeline` asks who writes when and keeps of the data only what stage it is
from; `Dubbing` lets the stages run in order and asks what they write.  They
meet in the stages' names: the phases of `Dubbing` are what `Pipeline` does
between `ReadInput` and the write of the result.

### Pipeline

One job suffices: a task, a request and the sweep treat each row by itself, and
jobs share nothing but worker processes, whose number only delays them.

*Messages.*  `Deliveries` are identities of messages.  A message keeps its
identity along a chain: when a stage returns, `PublishNext` turns it into the
message of the next stage (`pc`, `stage`, `attempt`).  `out` is what the task
has in memory.  The places of `pc` follow the code of a stage:

    queued    --CheckCancelled--> entered | returned      _is_cancelled
    entered   --CheckDone-------> starting | returned     _stage_done
    starting  --Begin-----------> reading                 _set_status(in flight)
    reading   --ReadInput-------> calling                 the rows or the event it loads
    calling   --...Persist------> reporting               transcribe, translate
    calling   --...Report-------> returned                diarize, synthesize
    calling   --Upload...-------> storing                 sync_av, package: blobs
    storing   --Save...---------> returned | reporting    the keys
    reporting --Report----------> returned                _set_status(done)
    calling   --RetryTask-------> queued                  autoretry_for
    calling   --FailTask--------> failing --MarkFailed--> idle
    returned  --PublishNext-----> queued  (EndChain after package)

Each arrow is one transaction or one call to the broker; anything may happen
between two arrows.  `run_pipeline` is stage 0.

*Requests.*  `RetryRead` and `CancelRead` evaluate the guards of the endpoint;
`RetryCommit` and `CancelCommit` write later what was decided (SQLAlchemy writes
the columns assigned, so the commit does not undo other columns).  A retry, like
the upload that `Init` has just committed, is then `dispatching`.

*The sweep* is `RecoverSelect` and `RecoverCommit`.  Time is left out: any job
in flight may be stale.  That allows more behaviours than the code, so what is
shown to hold holds with the clock too.

*Data.*  Of the transcript rows, events and files the model keeps what tells the
properties apart: whether the rows are there, translated and attributed to
speakers, and what the audio, the video and the subtitles were made from.
Of the errors (`Errors`) it keeps whether a stage is tried again.
`SynthesizeReport` remembers in `synth` which text the audio of the latest event
speaks, and so on down to `video` and `subtitles`.  A video is assumed to have
speech.  The error message, the audit log, metrics and temporary files are left
out.  Audio chunks have a fresh key per synthesis, so an event's audio never
changes under it; the dubbed video and the subtitles have one key per job.

*Faults* (`FaultKinds`, at most `MaxFaults`): a worker goes down and its message
is delivered again (`crash`); a pool process is killed (`lost_child`): Celery
acknowledges and runs the error callback, which `run_pipeline` does not have; a
worker goes down between publishing and acknowledging (`duplicate`); Redis loses
a message (`lost_message`; the compose file gives it no volume); the API process
goes down within a request (`api_crash`); publishing raises (`broker_error`).
A worker that cannot publish the *next* stage is covered by `crash` only.

*History.*  `dropped`: a message, or the dispatch of a row, was lost.  `raced`:
two carriers of the job may have overlapped, since a retry was committed while
something was still carrying the job, or a message was duplicated, or the sweep
failed a job that had moved on.  Both only weaken properties, which say so.

### JobLifecycle

What the API shows of a job, without messages, requests or workers: a phase, a
progress, the outputs whose keys are set, and whether somebody owns the job.
`Pipeline` has the refinement mapping in its last section (`Lifecycle`):
`PhaseOf` the status, `Progress` the position in the chain, `Published` the
keys, `owned` is `Pursuers # {}`, `contended` is `raced`, `abandoned` is
`dropped`.  Most steps of `Pipeline` stutter; a status write of a task is `Work`,
`Complete` or `Fail`, and the end of a chain is `Release`, which is allowed only
when the job is settled.  A job is completed with all its outputs, and not from
the queue, unless chains contended.  `Promise` is what follows for a client, and
`InTurn` that the phases follow one another.

### StaleRecovery

`Pipeline` lets the sweep strike whenever a job is in flight; here it looks at
`age`, the time since `updated_at`.  `Write` resets the age only if the status
changes, because SQLAlchemy emits no UPDATE, and `onupdate` does not fire, for a
value that stays the same; `WriteVideoKey` likewise.  So a retried or redelivered
stage does not refresh the row.  One message goes through the six stages
(`Start`, `Finish`, `Skip`), with retries, a time limit and crashes; `sync_av`
writes no done status.  The sweep looks every `Interval`, at most `MaxLag` late,
since it waits in the queue of the workers.  Timers count from their event, so
that states recur and no absolute clock is needed.

### Dubbing

One action per turn of a loop, `at` its position.  `AttributeTurn` is
`_attribute_speaker`'s loop over the turns of the diarization, `TranscribeSegment`
appends a row.  `TranslateBatch` gets a list of any length up to one more than
the batch from the model, and fails unless it is the batch's
(`_translate_batch`); `StoreTranslations` is the `zip` over the rows read again.
`SynthesizeSegment` speaks with the speaker's voice or the default one.
`PlaceChunk` is the loop of `build_composite_audio_track`, whose decisions are
the operator `Placed`: leave, trim, stretch, or stretch and trim.

Words are positions: what was said in segment `i` is `i`.  The times of segments
are whole milliseconds, as they are in the code; how long a chunk really is
counts `Ticks` of a millisecond.  The code decides by what `Probed` makes of that,
`int(float(...) * 1000)`: the fraction is cut off, and a whole number of
milliseconds may come out one less, as 1.001 does.  What is played is the
real length, at its own pace or at the printed tempo (`Played`), so that a length
on the track is an exact fraction.
Floating point is kept where it decides: `Printed` is the set of the tempos that
`{tempo:.3f}` may print (two when it is half-way), and the comparison of line
127, which divides a length by its own tempo, may go either way.
Assumed of the recogniser: its segments follow one another and have a length.
Turns may overlap.  Left out: `-t`, which cuts the track at the end of the
video, the filters themselves and the text of the subtitles.

The turns of the diarization carry its own labels; `SpeakerId` is the number
pyannote's loop gives a label, by first appearance (`FirstTurns`), and `Voice`
takes it modulo the pool.

### Admission

`upload_video` is a coroutine of one event loop, so the code between two awaits
is one action: `CountQueued`, then `Refuse` or `Admit` (no await separates the
comparison, `locked()` and the acquisition), then the upload, during which
anything may raise (`RejectUpload`), the commit (`InsertJob`), and the release
and the dispatch (`Enqueue`).  Jobs are counted, not told apart; `fresh` and
`retried` keep those that came by an upload and by a retry.  `LeaveQueue` and
`RetryJob` stand for the rest of the system.  `ApiRestart` loses the requests
and starts with a new semaphore and gauge, while the jobs stay in the database.

### EagerDispatch and EagerApi

Each dispatch starts a daemon thread, which waits for a slot, counts itself in
`processing_active`, runs the pipeline, counts itself out and gives the slot
back.  `metrics.inc` and `metrics.dec` are two steps, a read (`ReadGauge`) and a
write (`Inc`, `Dec`), between which another thread may do the same; `overlaps`
counts how often that happened.  `EagerApi` joins each enqueueing action of
`Admission` with the start of a thread, and the restart of both.

### Page

One action per handler, from one await to the next; `fetch` holds the requests
under way with the answers that have come and are not handled yet.  The server
is `Progress`, which takes a job through its phases in turn as `PhasesInTurn` of
`Pipeline` says it goes, and `Relapse`, the cases which that property leaves out
and retries by other clients, and answers in any
order.  `Lapse` is an error status or a lost connection.  The page does not look
at `resp.ok` when it polls, so an error body is shown as a job without a status
(`Show`).  `poll` clears whatever interval `pollTimer` holds; when that is the
interval of another job, or the button is enabled during an upload, `strayed`
is set.  The banner text of a failed upload is set but the banner is not
displayed; the model has neither.  Left out: the list of jobs, the result card.

## 3. The runs

| Run | Question | Instance |
|---|---|---|
| `races` | do chains, users and the sweep leave a job behind or incomplete, send a message back, or break the lifecycle? | 2 messages, 1 request, `RetryCount` 1, no faults |
| `delivery` | is a job left behind or incomplete under any two faults; does the status go back, or an output get replaced? | 2 messages, 1 request, `RetryCount` 0, 2 faults of four kinds: crash, killed child, duplicate, broker error |
| `requests` | do two requests at once break the retry limit, the order of work, a settled cancellation, the lifecycle or the order of its phases? | 1 message, 2 requests, `RetryCount` 1, 1 fault of three kinds: crash, lost message, API crash |
| `live` | does every job, and every execution of a task, end, and is a queued job taken? | 1 message, 1 request, `RetryCount` 1, 2 faults that lose no message on the broker |
| `cancel` | *(violated)* is a cancellation honoured? | 1 message, 1 request |
| `download` | *(violated)* can a completed job be downloaded? | 1 message, 1 request, `RetryCount` 1 |
| `queued` | *(violated)* does a queued job get out of the queue? | `api_crash` |
| `dubbing` | does every chunk speak the right words, at its time and pace, in its speaker's voice? | 3 segments and 2 turns on 4 times, labels 1 and 4, 3 voices, batches of 2, chunks of 4000.5, 4100, 4173.5 and 6000 ms (2 ticks to the millisecond) |
| `eager` | do permits, slots and the gauge balance in one process, and does every request and some waiting thread get on? | 2 uploads, 1 permit, queue of 1, 1 retriable job; 3 threads, 2 slots, 1 overlapping update |
| `stale` | is a dead job failed in time, and a normal one spared? | in units of ten minutes: timeout 6, limit 3, interval 1; 2 retries, waits and lag of 2, 1 crash |
| `stale_dead` | *(violated)* are only dead jobs failed? | the same settings, 3 retries, waits of 1, no crash |
| `page` | does the button come back, is every job polled to its end, and is the user told? | 2 jobs, 2 fetches at once, 2 clicks, 1 lapse |

What the passing runs show:

* `NoOrphan`: a job that is not completed, failed or cancelled has a message or
  a dispatch that will still write its status.
* `CompletedIsWhole`, `WorkInOrder`: unless two carriers overlapped, a completed
  job has every output, made from translated rows; a stage at work finds the
  outputs of all the stages before it.
* `CompletedHasSubtitles`: even with overlap, the subtitles are there.
* `CancelSettles`: after the tasks and the sweep that had read the row are
  through, only a retry or a fault changes a cancelled status.
* `NoRegress`: without overlap the status never goes back along the chain.
* `OutputsStay`: without overlap nothing that a stage has made is replaced while
  the job is completed, however often its messages are delivered.
* `Advances`: every step that touches a message, but for a fault, leaves it where
  it is or brings it nearer to its end: no task, retry or chain runs for ever.
* `ExecutionsEnd`: under fairness an execution that has begun is over some time.
* `QueueMoves`: a queued job is taken, unless its dispatch or message was lost.
* `Settles`: every job ends up terminal for good, or has lost a message.
* `OwnWords`: a chunk speaks the words of its own segment, or the job fails,
  whatever the lengths of the model's answers.
* `AttributedToMost`: a row has the first of the speakers with the longest
  overlap, and nobody if there is none.
* `NothingLeftOut`: a finished track has a placing for every segment heard, at
  that segment's start.
* `AlmostApart`: a chunk runs into a later one by at most one millisecond, which its
  probed length may lack, and half a thousandth of its window, which the printed
  tempo may.
* `NaturalPace`: what fits is left alone; nothing is slowed down or made faster
  than `MAX_SPEEDUP`.
* `VoicesTellApart`: chunks of one diarization label have one voice, chunks of
  two labels two voices while the pool is large enough, unless a call failed.
* `ImplementsLifecycle`: every step is one of `JobLifecycle`'s, or stutters.
* `PhasesInTurn`: a job that has not settled is queued, then running, then
  settled, unless chains overlapped or a dispatch was lost.
* `NoLingering`: a row in flight is never older than the timeout, the interval
  and the lag, even if a stage given up for dead goes on writing.
* `SilenceBounded`: a live job's row is silent for at most one time limit and one
  wait per execution of its task.
* `FirstRunSpared`: the sweep never selects a job whose stage is at work for the
  first time.
* `PermitsBalance`: permits and the gauge match the uploads in progress, through
  every error path and restart.
* `OvershootBounded`: uploads exceed the queue limit by less than the number of
  requests; `Answered`: each is answered.
* `SlotsBalance`: slots match the threads that hold one; `Served`: a thread gets
  a slot while threads wait, unless the process goes down; `NoStandstill`: while
  there are threads, one of them can go on.
* `GaugeExact`: until two updates overlap, the gauge counts the pipelines.
* `NeverLockedOut`: a disabled button waits for an upload or a poll.
* `OneAtATime`: unless a late answer has strayed, no upload begins while another
  is in progress or polled.
* `PolledToTheEnd`: an interval stops with its own job's end on the card and the
  button enabled, not at an error or a click, unless a late answer has strayed.
* `EndTold`: the end of an uploaded job is shown and the button enabled, unless
  a late answer has strayed.

Two messages are enough for every pairwise overlap: a third chain needs another
retry of the same job.  One retry gives the overlap and the limit.  With two
faults a message is duplicated and then redelivered, or redelivered twice.
For `Dubbing`, three segments give a full batch and a short one, and windows of
4000, 8000 and 12000 ms with the four lengths give every branch of `Placed`, a
chunk that is longer than its window by half a millisecond and passes for one that
fits, and one whose length may be probed one millisecond short; two
turns give ties, overlaps and segments without a turn; labels 1 and 4 fall on one
voice of three unless they are renumbered.  `stale` keeps the proportions of the
default settings; one crash beside two retries reaches the timeout.  Two fetches
suffice for a poll that overtakes another and for an answer that comes during
the next upload, which takes two clicks; TLC reaches `strayed` in ten steps.
Deadlock is checked for `eager` only: elsewhere a settled job may stop.  Symmetry is used only where no liveness is checked.

**Bounds.**  `Deliveries` and `Requests` bound what exists at once (a duplicate
or a dispatch waits for a free identity), `MaxFaults` the faults, `MaxRetriable`
the jobs that come back by a retry, `Threads` the threads and `MaxOverlaps` the
overlapping updates of the gauge, `MaxLag`, `MaxWait` and `MaxCrashes` the
sweep's delay, a message's wait and the crashes of `StaleRecovery`, `Fetches`,
`MaxClicks` and `MaxLapses` the requests under way, the clicks and the errors
and relapses of `Page`, `MaxSegments` and `MaxTurns` the input of
`Dubbing`, `Grid` and `AudioLengths` its times, `Ticks` how finely the latter are told apart.  `RetryCount`, `QueueMaxLength` and
`MaxConcurrentUploads` are settings, as is `BatchSize`; `PoolSize` is the
length of a list in the code.

**Fairness.**  `Fairness` asks that workers go on taking and executing messages
(`WF` per message), that requests which have begun end, that the sweep, which
beat runs every minute, finds a job that is in flight for ever (it is stale
then) and commits.  No fault is fair and nobody has to send a request.
`Admission` asks that the event loop resumes each coroutine whose await is over;
it needs no strong fairness because nobody waits for a permit.  `EagerFairSpec`
adds that the interpreter lets every thread go on and that every call of a
pipeline returns or raises; `Served` is about some waiting thread, as the
semaphore promises no order.  `FairSpec` of `Page` asks that jobs end (`Settles`),
the API answers, answers are handled and the interval fires; nobody has to
click, and neither lapses nor relapses have to happen.  The modules name each
fair action's condition (`Attended`, `Concluded`, `Swept`, `Resumed`,
`Scheduled`, `Ending`, `Replied`, `Handled`, `Firing`), so that a proof can speak
of one message or request at a time.

**Divergences found.**  A cancellation that is committed between a stage's check
and its status write is overwritten by that write (`CancelHonoured`).  A cancelled job retried while its chain is still returning
can be completed without its video, since the revived chain has skipped sync_av
(`CompletedDownloadable`).  A queued job whose dispatch was lost stays queued,
contrary to the comment in `config/settings.py` (`QueuedIsTaken`).  The sweep fails jobs
that are alive when retries keep a row silent for longer than the timeout,
contrary to `docs/ARCHITECTURE.md` section 12 (`OnlyDeadSwept`).

Without a run of their own: `QUEUE_MAX_LENGTH` is called a "queue depth cap"
(`README.md:107`), but the gate reserves nothing and retries do not pass it;
`OvershootBounded` is what holds.  A chunk of 4173.5 ms in a window of 4000 ms is
probed as 4173, played at a tempo of 1.043 instead of 1.043375, lasts 4001.44 ms,
is not trimmed, and is mixed with its successor; one of 4000.5 ms passes for one
that fits, while the docstring of
`build_composite_audio_track` says that chunks "can never overlap"; `AlmostApart`
is what holds.  `clearInterval(pollTimer)` in a late answer stops the polling of
the next job, whose end is then not shown (`frontend/index.html:259`); the
properties of `Page` except it as `strayed`.  `api/rate_limit.py` calls the limit
live-configurable, but `get_settings` is cached for the life of the process.  Rate limits are not retried (`workers/tasks.py:98`), while
`docs/ARCHITECTURE.md` section 7 lists them with the retried failures.

## 4. The proofs

All are for every value of the constants: every set of messages and requests,
retry limit, set and number of faults, number of segments and turns, grid of
times, length of chunks and size of batches, settings of the sweep, set of
threads, of jobs and of fetches, from the named assumptions of each module.
These are about the types of constants, but for two: `LimitAssumption` of
`StaleRecovery`, the stale timeout is not shorter than the time limit, as in the
defaults, and there is a message (`DeliveriesAssumption`) and an upload at all.

* `TypeCorrect`: `Spec => []TypeOK`.  `TypeOK` is not inductive: that a task
  writes a status of the table depends on where it is.  `Shape` adds, for each
  place, the stages that can be there, and that a retry which is about to commit
  has read a counter below the limit.  The bound on the counter is the lost
  update at work: two retries write the same value.
* `NeverOrphaned`: `Spec => []NoOrphan`, inductive together with the types.  Each
  step keeps a pursuer, or leaves a terminal status, or sets `dropped`.
* `CompletedWhole`: `Spec => [](CompletedIsWhole /\ WorkInOrder)`, from
  `ChainInv`: unless raced, there is one carrier, and at each of its places what
  lies behind it has been produced (`Behind`), what it holds was made from that
  (`InHand`), and the status is its own or says cancelled or failed (`InOrder`);
  a done status implies the outputs it names.
* `SubtitlesThere`: `Spec => []CompletedHasSubtitles`, from an invariant about
  package tasks that have stored their outputs.
* `CancellationSettles`: `Spec => CancelSettles`, by cases on the step.
* `WorkAlwaysInOrder`: `WorkInOrder`, from the same invariant.
* `NeverRegresses`: `Spec => NoRegress`, from `NotAhead`: unless raced, the status
  of the row is not ahead of the one carrier's place, so that what the carrier
  writes next is not behind it.
* `Implements`: `Spec => ImplementsLifecycle`, by one lemma per kind of step that
  names the abstract step it maps to.  It uses the inductive invariants of the
  other theorems: `NoOrphan` for `Release`, `CompletedIsWhole` and the stored
  subtitles for `Complete`, `NotAhead` for `Work`.  `PromiseKept` follows.
* `NeverLingers`: from an invariant that ties the age of a row in flight to
  the time since the sweep last looked.
* `SilenceAlwaysBounded`, `FirstRunAlwaysSpared`: from `AliveInv`, which bounds
  the age of a live job's row by its attempts, crashes and the time at its place.
* `PatientSweep`: if the stale timeout allows for every execution and wait of one
  task, only dead jobs are swept: the condition for what `stale_dead` refutes
  under the defaults.
* `OwnWordsAlways`: from `WordsInv`; rows and chunks mirror the times of the
  segments heard, and what the batches have returned is a prefix of the
  translations, no longer than the rows.  This is where the comparison of the
  lengths is needed.
* `AttributedToMostAlways`: from `SpeakersInv`, the loop invariant of the scan.
* `VoicesAlwaysTellApart`: numbering by first appearance is injective on labels
  and stays below their number, so distinct labels differ modulo the pool.
* `AlmostApartAlways`, `NaturalPaceAlways`: `ProbedLength` says that a probed length
  lacks at most one millisecond, `StretchedLength` and `PlacedLength` bound what
  is played by arithmetic on the rounded tempo, and `LastingLength` puts the two
  together; `TrackInv` says that
  the track holds such lengths at the starts of segments, which follow one
  another (`HeardApart`).
* `PermitsAlwaysBalance`, `OvershootAlwaysBounded`: from `AdmissionInv`.  The
  overshoot needs `PromisesBounded`: jobs uploaded and still queued, together
  with the requests that have found room and not used it, stay below the limit
  plus the number of requests.

* `EagerImplementsParts`: `EagerSpec => Spec /\ PoolSpec`; each step of the whole is
  a step of a part or leaves it alone, so that `EagerPermitsBalance` follows from
  the theorem about `Admission`.  `SlotsAlwaysBalance` counts the holders;
  `GaugeAlwaysExact` needs that at most one update is under way unless one has
  overlapped, and that it has read the current value.
* `ButtonComesBack`, `OneJobAtATime`: from `PageInv`, which adds what a fetch can
  be; `OneAtATime` is inductive only with both its halves, the button and the
  interval.

* `OutputsAlwaysStay`: from `ChainInv`, with the lemma `MadeAtWork`: only a
  task at work makes anything, and while nothing overlapped and the job is
  completed there is none.  `DownloadableUnlessRaced`: the condition
  under which what `download` refutes is true.
* `AlwaysAdvances`: the distance of a message counts the stages before it, the
  attempts left in its stage and the places left in its attempt, in this order;
  no step but a fault makes it larger, and each step of the message itself makes
  it smaller.
* `ExecutionsAlwaysEnd`: `FairSpec /\ []GuardsSuffice => ExecutionsEnd`.  An
  execution has eight places; each has a `Turn`, no step puts the execution back
  (`EveryStepTurns`), and fairness takes it forward (`Descends`), eight times.
* `AlwaysAnswered`: `EagerFairSpec /\ []GuardsSuffice => Answered`, in the same way,
  from the steps that a request has left.  `EagerOvershootBounded` carries the
  bound on the overshoot to the composed process.
* `PoolNeverStandsStill`: when no thread can go on, all of them wait for a slot,
  so nobody holds one and by `SlotsBalance` there are slots to take.
* `AlwaysPolledToTheEnd`: from `PageInv`; the lemma `WhoStops` says which steps
  change the interval.
* `EndAlwaysTold`: `FairSpec /\ []GuardsSuffice /\ <>Calm => EndTold`, where `Calm`
  says that nobody clicks and nothing lapses any more, without any bound on how
  often that happened before.  Were a job polled for ever, it would settle
  (`JobSettles`), requests would come free (`RequestReturns`), the interval would
  send a poll (`IntervalSends`), and the answer of a poll sent since
  ends the polling (`NoFreshPoll`).
* `AlwaysInTurn`: `Spec => PhasesInTurn`, by the steps of `Implements`: unless
  contended, a retry finds a settled job and `Complete` a running one.
* `QueueAlwaysMoves`: `FairSpec /\ []GuardsSuffice /\ <>Calm => QueueMoves`, where
  `Calm` says that no fault strikes any more.  Were a job queued for ever, no
  message could write its status; but each of them is at most seven steps from
  doing so (`Unwritten`), so that all would be through (`AlwaysThrough`), a
  pending dispatch would find one free (`NobodyDispatches`), and nobody would
  pursue the job, against `NoOrphan`.
* `AlwaysSettlesAgain`: with `<>(Calm /\ Patient)`, the providers' transient errors
  being over as well, a job is settled infinitely often, whatever users, the sweep
  and other chains do.  `ChainsEnd`: a chain that is never through goes on place by
  place and stage by stage; `EndSettles`: what ends one settles the job.
* `AlwaysSettles`: `FairSpec /\ []GuardsSuffice /\ <>Left => Settles`.  `Left` adds
  that no retry is committed any more and at most one chain is left
  (`OneCarrier`).  The dispatch under way is the last (`NoMoreDispatch`), its
  chain ends (`SpentSometime`), nothing starts another (`SpentStays`), and
  without a pursuer the job is settled.
* `NothingEverLeftOut`: from `LengthsInv`, which ties the lengths of the lists in
  each phase to the position of its loop.

What stays with TLC.  The prover treats `ENABLED` as opaque, so the theorems about
liveness have the hypothesis `GuardsSuffice`: a step of a message, a request or
a fetch is enabled where its guard holds, which is what `ENABLED` means of these
actions.  That the guard of some step holds wherever one has to come is a lemma
from the definitions (`SomeGuardHolds`, `AlwaysResumable`, `FetchCanGoOn`); the
page needs that an upload is answered with a job or refused, for it has no handler
for anything else.  TLC computes `ENABLED` itself in the runs with fairness, `live`,
`eager` and `page`, which use no such hypothesis.  Inductions under `<>` over a counter or over a
finite set are out of reach of the installed provers as well, and the other
hypotheses stand for them: that faults and clicks, which are bounded, come to
an end (`<>Calm`), that retries do (`Patient`, `Resigned`), and that of several
chains all end together (`OneCarrier`).  The run `live` has one message and
needs none of these; `AlwaysAdvances` proves the step of the induction over the
attempts.  `Served` is such an induction over the threads, and only checked.
That a job whose providers fail for ever settles is only checked too.

## 5. Not modelled

* Configuration sources: read once at start; the settings are CONSTANTS.
* Authentication and rate limiting: a stateless comparison and a library.
* Telemetry, migrations, container images: no behaviour of their own.
* Storage backends: one call each; a blob per key, the last upload wins, is part
  of `Pipeline`.
* Muxing, ffmpeg's filters, and the text of subtitles: formatting and outside
  programs.
* Upload validation beyond that it may reject; the reading endpoints apart from
  their guards; the page's list of jobs and result card.
* Two executions of `sync_av_stage` for one job that share scratch files named by
  the job: `Pipeline` sets `raced` and promises nothing about their video.

What could come next: `StaleRecovery` with several jobs competing for worker
processes, so that `MaxWait` and `MaxLag` become consequences of the load; and rows
that another execution replaces while `Dubbing` reads them again.
