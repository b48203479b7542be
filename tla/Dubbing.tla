------------------------------ MODULE Dubbing ------------------------------
(***************************************************************************)
(* What the stages compute, from the segments the recogniser hears to the  *)
(* chunks of the new audio track, for one job whose stages run in order:   *)
(* the loops of PyannoteDiarizationProvider, FasterWhisperProvider,         *)
(* GeminiTranslationProvider,                                              *)
(* translate_stage, EdgeTTSProvider and build_composite_audio_track.       *)
(* Times are milliseconds; how long a chunk really is counts ticks, of     *)
(* which the code sees whole milliseconds only.  What was said in the i-th *)
(* segment is i, and so is its translation.                                *)
(***************************************************************************)
EXTENDS Integers, Sequences, FiniteSets

CONSTANTS
    Grid,          \* the times at which segments and turns begin and end
    MaxSegments,   \* bound: segments heard
    MaxTurns,      \* bound: turns of the diarization
    Labels,        \* the numbers of the speakers' labels in the annotation
    Ticks,         \* ticks to the millisecond (a thousand, as ffprobe prints it)
    AudioLengths,  \* how long a synthesized chunk may be, in ticks
    BatchSize,     \* settings.translation_batch_size
    PoolSize       \* voices of the target language

ASSUME TimesAssumption == Grid \subseteq Nat /\ AudioLengths \subseteq Nat
ASSUME LabelsAssumption == Labels \subseteq Nat
ASSUME SizesAssumption ==
    /\ MaxSegments \in Nat /\ MaxTurns \in Nat
    /\ BatchSize \in Nat \ {0} /\ PoolSize \in Nat \ {0} /\ Ticks \in Nat \ {0}

VARIABLES
    heard,         \* the segments the recogniser finds
    turns,         \* the turns of the diarization
    hasRubberband, \* this build of ffmpeg can stretch
    phase,         \* which stage is at work
    at,            \* the position of its loop
    turn,          \* _attribute_speaker: the next turn,
    best,          \*   the speaker of the longest overlap so far,
    bestOverlap,   \*   and that overlap
    rows,          \* the transcript rows
    translations,  \* what the batches have returned so far
    chunks,        \* the synthesized chunks
    track          \* the chunks placed on the timeline

input   == <<heard, turns, hasRubberband>>
scan    == <<turn, best, bestOverlap>>
results == <<rows, translations, chunks, track>>
vars    == <<input, phase, at, scan, results>>

Nobody   == -1    \* no speaker
Untranslated == 0 \* no translated_text

Intervals == {i \in [start : Grid, end : Grid] : i.start < i.end}

\* The recogniser's segments follow one another; the turns may overlap.
Hearings ==
    {h \in UNION {[1..n -> Intervals] : n \in 0..MaxSegments} :
        \A i, j \in DOMAIN h : i < j => h[i].end <= h[j].start}

Turns == {t \in [label : Labels, start : Grid, end : Grid] : t.start < t.end}

Init ==
    /\ heard \in Hearings
    /\ turns \in UNION {[1..n -> Turns] : n \in 0..MaxTurns}
    /\ hasRubberband \in BOOLEAN
    /\ phase = "transcribing" /\ at = 1
    /\ turn = 1 /\ best = Nobody /\ bestOverlap = 0
    /\ rows = <<>> /\ translations = <<>> /\ chunks = <<>> /\ track = <<>>

Enter(p) == phase' = p /\ at' = 1
Advance(n) == at' = at + n /\ UNCHANGED phase
Fail == phase' = "failed" /\ UNCHANGED at

---------------------------------------------------------------------------
(* diarize: the labels of the annotation are renamed SPEAKER_00, _01, ... in *)
(* the order of their first turns.                                          *)

FirstTurns(ts) ==
    {t \in DOMAIN ts : \A u \in 1..(t - 1) : ts[u].label # ts[t].label}

\* Seeded bug: the label's own number is kept.
SpeakerIdAsLabelled(ts, label) == label

\* How many labels were in label_map when this one was met.
SpeakerId(ts, label) ==
    Cardinality({t \in FirstTurns(ts) : \A u \in 1..t : ts[u].label # label})

---------------------------------------------------------------------------
(* transcribe: every segment goes to the speaker of the longest overlap. *)

Lesser(a, b)  == IF a < b THEN a ELSE b
Greater(a, b) == IF a > b THEN a ELSE b

Overlap(i, t) == Lesser(i.end, t.end) - Greater(i.start, t.start)

\* Seeded bug: a tie is taken by the later turn, and zero ties with nothing.
AttributeTurnOnTie ==
    /\ phase = "transcribing" /\ at <= Len(heard) /\ turn <= Len(turns)
    /\ IF Overlap(heard[at], turns[turn]) >= bestOverlap
         THEN /\ best' = SpeakerId(turns, turns[turn].label)
              /\ bestOverlap' = Overlap(heard[at], turns[turn])
         ELSE UNCHANGED <<best, bestOverlap>>
    /\ turn' = turn + 1
    /\ UNCHANGED <<input, phase, at, results>>

AttributeTurn ==
    /\ phase = "transcribing" /\ at <= Len(heard) /\ turn <= Len(turns)
    /\ IF Overlap(heard[at], turns[turn]) > bestOverlap
         THEN /\ best' = SpeakerId(turns, turns[turn].label)
              /\ bestOverlap' = Overlap(heard[at], turns[turn])
         ELSE UNCHANGED <<best, bestOverlap>>
    /\ turn' = turn + 1
    /\ UNCHANGED <<input, phase, at, results>>

TranscribeSegment ==
    /\ phase = "transcribing" /\ at <= Len(heard) /\ turn > Len(turns)
    /\ rows' = Append(rows, [start |-> heard[at].start, end |-> heard[at].end,
                             speaker |-> best, text |-> Untranslated])
    /\ turn' = 1 /\ best' = Nobody /\ bestOverlap' = 0
    /\ Advance(1)
    /\ UNCHANGED <<input, translations, chunks, track>>

EndTranscription ==
    /\ phase = "transcribing" /\ at > Len(heard)
    /\ Enter("translating")
    /\ UNCHANGED <<input, scan, results>>

---------------------------------------------------------------------------
(* translate: in batches, each a list of the model's answer in the order of *)
(* the lines sent, of whatever length.                                      *)

Batch == Lesser(BatchSize, Len(rows) - at + 1)

Answered(n) == translations' = translations \o [k \in 1..n |-> at + k - 1]

\* Seeded bug: the lengths are not compared.
TranslateBatchUnchecked ==
    /\ phase = "translating" /\ at <= Len(rows)
    /\ \E n \in 0..(BatchSize + 1) : Answered(n) /\ Advance(BatchSize)
    /\ UNCHANGED <<input, scan, rows, chunks, track>>

TranslateBatch ==
    /\ phase = "translating" /\ at <= Len(rows)
    /\ \E n \in 0..(BatchSize + 1) :
          \/ n = Batch /\ Answered(n) /\ Advance(BatchSize)
          \/ n # Batch /\ Fail /\ UNCHANGED translations
    /\ UNCHANGED <<input, scan, rows, chunks, track>>

\* zip: the rows, in order, get the translations, in order.
StoreTranslations ==
    /\ phase = "translating" /\ at > Len(rows)
    /\ rows' = [i \in DOMAIN rows |->
                  IF i \in DOMAIN translations
                    THEN [rows[i] EXCEPT !.text = translations[i]]
                    ELSE rows[i]]
    /\ Enter("synthesizing")
    /\ UNCHANGED <<input, scan, translations, chunks, track>>

---------------------------------------------------------------------------
(* synthesize *)

Voice(speaker) == IF speaker = Nobody THEN 0 ELSE speaker % PoolSize

\* Seeded bug: a segment whose calls fail is left out, and not the job failed.
SynthesizeSegmentSkipping ==
    /\ phase = "synthesizing" /\ at <= Len(rows)
    /\ \/ \E audio \in AudioLengths, voice \in {Voice(rows[at].speaker), 0} :
             chunks' = Append(chunks,
                   [start |-> rows[at].start, end |-> rows[at].end,
                    says  |-> IF rows[at].text = Untranslated THEN at
                                                             ELSE rows[at].text,
                    voice |-> voice, audio |-> audio])
       \/ UNCHANGED chunks
    /\ Advance(1)
    /\ UNCHANGED <<input, scan, rows, translations, track>>

\* The voice of the speaker, or the first of the pool when that one fails.
SynthesizeSegment ==
    /\ phase = "synthesizing" /\ at <= Len(rows)
    /\ \/ \E audio \in AudioLengths, voice \in {Voice(rows[at].speaker), 0} :
             /\ chunks' = Append(chunks,
                   [start |-> rows[at].start, end |-> rows[at].end,
                    says  |-> IF rows[at].text = Untranslated THEN at
                                                             ELSE rows[at].text,
                    voice |-> voice, audio |-> audio])
             /\ Advance(1)
       \/ Fail /\ UNCHANGED chunks
    /\ UNCHANGED <<input, scan, rows, translations, track>>

EndSynthesis ==
    /\ phase = "synthesizing" /\ at > Len(rows)
    /\ Enter("composing")
    /\ UNCHANGED <<input, scan, results>>

---------------------------------------------------------------------------
(* sync_av: the chunks are in order already, so that sorting them by their  *)
(* start changes nothing.  A length is the fraction num / den.              *)

Whole(n) == [num |-> n, den |-> 1]

\* Played at a tempo in thousandths.
Played(audio, tempo) == [num |-> 1000 * audio, den |-> Ticks * tempo]

Window(c) == Greater(c.end - c.start, 1)

\* int(float(seconds) * 1000): the fraction is cut off, and a whole number of
\* milliseconds may come out one less (1.001 * 1000 is below 1001).
Probed(audio) ==
    {ms \in {audio \div Ticks, audio \div Ticks - 1} :
        ms >= 0 /\ audio <= (ms + 1) * Ticks}

\* The tempo in thousandths, as "{tempo:.3f}" prints it: a nearest one.
Printed(ms, window) ==
    {t \in {(1000 * ms) \div window, (1000 * ms) \div window + 1} :
        /\ 2 * (1000 * ms - t * window) <= window
        /\ 2 * (t * window - 1000 * ms) <= window}

\* abs(tempo - 1.0) > 0.03, which holds of 1.03 in floating point.
WorthStretching(ms, window) == 100 * ms >= 103 * window

OverTheCap(ms, window) == 100 * ms > 135 * window

Trimmed(length, window) ==
    IF length.num > window * length.den THEN Whole(window) ELSE length

Stretched(audio, ms, window) == {Played(audio, t) : t \in Printed(ms, window)}

\* Seeded bug: the stretch is not capped.
PlacedUncapped(rubberband, audio, ms, window) ==
    IF ms <= window
      THEN {Played(audio, 1000)}
      ELSE IF ~rubberband \/ ~WorthStretching(ms, window)
             THEN {Whole(window)}
             ELSE Stretched(audio, ms, window)

\* Seeded bug: an overrun not worth stretching is let pass.
PlacedUntrimmed(rubberband, audio, ms, window) ==
    IF ms <= window \/ ~rubberband \/ ~WorthStretching(ms, window)
      THEN {Played(audio, 1000)}
      ELSE IF OverTheCap(ms, window) THEN {Whole(window)}
                                     ELSE Stretched(audio, ms, window)

\* How long the chunk, which is said to have ms milliseconds, may be on the
\* track.  Below the cap the last comparison divides ms by the unrounded tempo,
\* which gives the window but for the last bit: it may trim or not.
Placed(rubberband, audio, ms, window) ==
    IF ms <= window
      THEN {Played(audio, 1000)}
      ELSE IF \/ ~rubberband
              \/ ~WorthStretching(ms, window)
              \/ OverTheCap(ms, window)
             THEN {Whole(window)}
             ELSE UNION {{l, Trimmed(l, window)} : l \in Stretched(audio, ms, window)}

MayLast(rubberband, c) ==
    UNION {Placed(rubberband, c.audio, ms, Window(c)) : ms \in Probed(c.audio)}

PlaceChunk ==
    /\ phase = "composing" /\ at <= Len(chunks)
    /\ \E length \in MayLast(hasRubberband, chunks[at]) :
          track' = Append(track, [start |-> chunks[at].start, length |-> length])
    /\ Advance(1)
    /\ UNCHANGED <<input, scan, rows, translations, chunks>>

EndTrack ==
    /\ phase = "composing" /\ at > Len(chunks)
    /\ Enter("done")
    /\ UNCHANGED <<input, scan, results>>

---------------------------------------------------------------------------

Next ==
    \/ AttributeTurn \/ TranscribeSegment \/ EndTranscription
    \/ TranslateBatch \/ StoreTranslations
    \/ SynthesizeSegment \/ EndSynthesis
    \/ PlaceChunk \/ EndTrack

Spec == Init /\ [][Next]_vars

---------------------------------------------------------------------------
(* Properties. *)

\* The track speaks over each segment the words of that segment, through the
\* batches, the zip over the rows read again and the synthesis: nothing is
\* skipped or shifted however many lines the model returns.
OwnWords ==
    \A i \in DOMAIN chunks :
        /\ chunks[i].says = i
        /\ chunks[i].start = heard[i].start /\ chunks[i].end = heard[i].end

\* A job that gets through to its track has every segment of it: as many rows,
\* translations, chunks and placings as segments were heard, each placing at the
\* start of its own.  What cannot be translated or spoken fails the job.
NothingLeftOut ==
    phase = "done" =>
        /\ Len(rows) = Len(heard) /\ Len(chunks) = Len(heard) /\ Len(track) = Len(heard)
        /\ \A i \in 1..Len(heard) : track[i].start = heard[i].start

\* "Assign the diarized speaker whose segment has the most time overlap": a
\* row has no speaker when no turn overlaps it, and otherwise that of the
\* first of the turns with the longest overlap.
Longest(i) == {t \in DOMAIN turns :
                 /\ Overlap(heard[i], turns[t]) > 0
                 /\ \A u \in DOMAIN turns :
                       Overlap(heard[i], turns[u]) <= Overlap(heard[i], turns[t])}

Speaking(i) == {t \in Longest(i) : \A u \in Longest(i) : t <= u}

AttributedToMost ==
    \A i \in DOMAIN rows :
        IF Longest(i) = {}
          THEN rows[i].speaker = Nobody
          ELSE \E t \in Speaking(i) : rows[i].speaker = SpeakerId(turns, turns[t].label)

\* "Each speaker is mapped to a distinct voice from the language's pool
\* (stable per speaker_id)" (edge_tts_provider.py), from the diarization's
\* labels, whatever their numbers, through the renaming and the attribution:
\* chunks of one label have one voice, and those of two labels two voices
\* while the pool is large enough, but for the chunks that fell back on the
\* pool's first voice because a call failed.
NotFallenBack(i) == chunks[i].voice # 0 \/ Voice(rows[i].speaker) = 0

VoicesTellApart ==
    \A i, j \in DOMAIN chunks : \A t \in Speaking(i), u \in Speaking(j) :
        (NotFallenBack(i) /\ NotFallenBack(j)) =>
            /\ turns[t].label = turns[u].label => chunks[i].voice = chunks[j].voice
            /\ (/\ turns[t].label # turns[u].label
                /\ Cardinality(FirstTurns(turns)) <= PoolSize)
                  => chunks[i].voice # chunks[j].voice

\* Two roundings let a chunk run into its successor, and no other: that of its
\* length to whole milliseconds, by which it passes for one that fits or gets too
\* slow a tempo, is worth one millisecond, and that of the tempo to three decimals
\* one part in two thousand of its window.  Up to that, "chunks can never overlap"
\* (core/av_sync.py).
Overrun(i, j) ==
    track[i].length.num - (track[j].start - track[i].start) * track[i].length.den

AlmostApart ==
    \A i, j \in DOMAIN track : i < j =>
        \/ Overrun(i, j) <= 0
        \/ 2000 * Overrun(i, j) <= (2000 + Window(chunks[i])) * track[i].length.den

\* A chunk that fits is left alone, and one that is neither left alone nor cut at
\* its window is not slowed down, nor made faster than MAX_SPEEDUP
\* (core/av_sync.py: "dubbed speech keeps a natural pace").
NaturalPace ==
    \A i \in DOMAIN track :
        LET c == chunks[i]
            l == track[i].length
        IN  /\ c.audio <= Ticks * Window(c) => l = Played(c.audio, 1000)
            /\ \/ l = Whole(Window(c))
               \/ l.num = 1000 * c.audio /\ l.den \in (1000 * Ticks)..(1350 * Ticks)
===========================================================================
