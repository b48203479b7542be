--------------------------- MODULE DubbingProofs ---------------------------
(***************************************************************************)
(* Theorems about Dubbing, for every grid of times, every length of the    *)
(* chunks, every batch size and any number of segments and turns.          *)
(***************************************************************************)
EXTENDS Dubbing, SequenceTheorems, FiniteSetTheorems, WellFoundedInduction, TLAPS

---------------------------------------------------------------------------
(* Arithmetic of one chunk. *)

LEMMA Scaling ==
    ASSUME NEW a \in Int, NEW b \in Int, NEW c \in Nat, a <= b
    PROVE  a * c <= b * c
  <1>1. PICK d \in Nat : b = a + d
    <2>1. b - a \in Nat /\ b = a + (b - a)
      OBVIOUS
    <2> QED
      BY <2>1
  <1>2. b * c = a * c + d * c /\ d * c \in Nat
    BY <1>1
  <1> QED
    BY <1>1, <1>2

\* What ffprobe's length says of the real one.
LEMMA ProbedLength ==
    ASSUME NEW audio \in Nat, NEW ms \in Probed(audio)
    PROVE  /\ ms \in Nat
           /\ ms * Ticks <= audio /\ audio <= (ms + 1) * Ticks
  <1>1. /\ Ticks \in Nat \ {0}
        /\ audio \div Ticks \in Nat
        /\ Ticks * (audio \div Ticks) <= audio
    BY SizesAssumption
  <1>2. /\ ms \in Int /\ ms >= 0 /\ ms <= audio \div Ticks
        /\ audio <= (ms + 1) * Ticks
    BY <1>1 DEF Probed
  <1>3. ms * Ticks <= (audio \div Ticks) * Ticks
    BY <1>1, <1>2, Scaling
  <1>4. (audio \div Ticks) * Ticks = Ticks * (audio \div Ticks)
    BY <1>1
  <1> QED
    BY <1>1, <1>2, <1>3, <1>4

\* A tempo that is printed for a stretch is a natural one, and the chunk played
\* at it is longer than its window by at most the two roundings.
LEMMA StretchedLength ==
    ASSUME NEW audio \in Nat, NEW ms \in Probed(audio), NEW window \in Nat \ {0},
           NEW t \in Printed(ms, window),
           WorthStretching(ms, window), ~OverTheCap(ms, window)
    PROVE  /\ t \in 1030..1350
           /\ 2000 * (1000 * audio - window * (Ticks * t)) <= (2000 + window) * (Ticks * t)
  <1>1. ms \in Nat /\ audio <= (ms + 1) * Ticks /\ Ticks \in Nat \ {0}
    BY ProbedLength, SizesAssumption
  <1>2. (1000 * ms) \div window \in Int
    BY <1>1
  <1>3. /\ t \in Int
        /\ 2 * (1000 * ms - t * window) <= window
        /\ 2 * (t * window - 1000 * ms) <= window
    BY <1>1, <1>2 DEF Printed
  <1>4. t >= 1030
    <2>1. SUFFICES ASSUME t <= 1029 PROVE FALSE
      BY <1>3
    <2>2. t * window <= 1029 * window
      BY <1>3, <2>1, Scaling
    <2> QED
      BY <1>1, <1>3, <2>2 DEF WorthStretching
  <1>5. t <= 1350
    <2>1. SUFFICES ASSUME t >= 1351 PROVE FALSE
      BY <1>3
    <2>2. 1351 * window <= t * window
      BY <1>3, <2>1, Scaling
    <2> QED
      BY <1>1, <1>3, <2>2 DEF OverTheCap
  <1>6. 2000 * (1000 * audio - window * (Ticks * t)) <= (2000 + window) * (Ticks * t)
    <2> DEFINE over == 2 * (1000 * (ms + 1) - t * window)
    <2>1. over \in Int /\ over <= window + 2000
      BY <1>1, <1>3
    <2>2. 2 * (1000 * audio - window * (Ticks * t)) <= over * Ticks
      <3>1. window * (Ticks * t) = (t * window) * Ticks
        BY <1>1, <1>3
      <3>2. over * Ticks = 2 * (1000 * ((ms + 1) * Ticks) - (t * window) * Ticks)
        BY <1>1, <1>3
      <3>3. (t * window) * Ticks \in Int /\ (ms + 1) * Ticks \in Int
        BY <1>1, <1>3
      <3> QED
        BY <1>1, <3>1, <3>2, <3>3
    <2> HIDE DEF over
    <2>3. over * Ticks <= (window + 2000) * Ticks
      BY <1>1, <2>1, Scaling
    <2>4. 1000 * ((window + 2000) * Ticks) <= t * ((window + 2000) * Ticks)
      <3>1. (window + 2000) * Ticks \in Nat
        BY <1>1
      <3> QED
        BY <1>3, <1>4, <3>1, Scaling
    <2>5. t * ((window + 2000) * Ticks) = (2000 + window) * (Ticks * t)
      BY <1>1, <1>3
    <2>6. /\ window * (Ticks * t) \in Int /\ over * Ticks \in Int
          /\ (window + 2000) * Ticks \in Int /\ t * ((window + 2000) * Ticks) \in Int
      BY <1>1, <1>3, <2>1
    <2> QED
      BY <2>2, <2>3, <2>4, <2>5, <2>6
  <1> QED
    BY <1>3, <1>4, <1>5, <1>6

\* A fraction of milliseconds no larger than the window and two roundings.
Fits(l, window) ==
    \/ l.num - window * l.den <= 0
    \/ 2000 * (l.num - window * l.den) <= (2000 + window) * l.den

LEMMA PlacedLength ==
    ASSUME NEW rubberband, NEW audio \in Nat, NEW ms \in Probed(audio),
           NEW window \in Nat \ {0},
           NEW l \in Placed(rubberband, audio, ms, window)
    PROVE  /\ l.num \in Nat /\ l.den \in Nat \ {0}
           /\ l = [num |-> l.num, den |-> l.den]
           /\ Fits(l, window)
           /\ audio <= Ticks * window => l = Played(audio, 1000)
           /\ \/ l = Whole(window)
              \/ l.num = 1000 * audio /\ l.den \in (1000 * Ticks)..(1350 * Ticks)
  <1>0. /\ ms \in Nat /\ Ticks \in Nat \ {0}
        /\ ms * Ticks <= audio /\ audio <= (ms + 1) * Ticks
    BY ProbedLength, SizesAssumption
  <1>1. audio <= Ticks * window => ms <= window
    <2> SUFFICES ASSUME audio <= Ticks * window, ms >= window + 1 PROVE FALSE
      BY <1>0
    <2>1. (window + 1) * Ticks <= ms * Ticks
      BY <1>0, Scaling
    <2>2. (window + 1) * Ticks = Ticks * window + Ticks /\ Ticks * window \in Nat
      BY <1>0
    <2>3. ms * Ticks \in Nat
      BY <1>0
    <2> QED
      BY <1>0, <2>1, <2>2, <2>3
  <1>2. CASE ms <= window
    <2>1. l = Played(audio, 1000)
      BY <1>2 DEF Placed
    <2>2. l.num = 1000 * audio /\ l.den = Ticks * 1000 /\ l = [num |-> l.num, den |-> l.den]
      BY <2>1 DEF Played
    <2>3. (ms + 1) * Ticks <= (window + 1) * Ticks
      BY <1>0, <1>2, Scaling
    <2>4. (window + 1) * Ticks = window * Ticks + Ticks /\ window * Ticks \in Nat
      BY <1>0
    <2>5. window * (Ticks * 1000) = 1000 * (window * Ticks)
      BY <1>0
    <2>6. 1000 * audio - window * (Ticks * 1000) <= Ticks * 1000
      BY <1>0, <2>3, <2>4, <2>5
    <2>7. (2000 + window) * (Ticks * 1000) = 2000 * (Ticks * 1000) + 1000 * (window * Ticks)
      BY <1>0
    <2>8. Fits(l, window)
      BY <1>0, <2>2, <2>4, <2>5, <2>6, <2>7 DEF Fits
    <2> QED
      BY <1>0, <2>1, <2>2, <2>8
  <1>3. CASE l = Whole(window) /\ ~(ms <= window)
    BY <1>1, <1>3 DEF Whole, Fits
  <1>4. CASE /\ ~(ms <= window) /\ WorthStretching(ms, window)
             /\ ~OverTheCap(ms, window)
             /\ l \in Stretched(audio, ms, window)
    <2>1. PICK t \in Printed(ms, window) : l = Played(audio, t)
      BY <1>4 DEF Stretched
    <2>2. /\ t \in 1030..1350
          /\ 2000 * (1000 * audio - window * (Ticks * t)) <= (2000 + window) * (Ticks * t)
      BY <1>4, StretchedLength
    <2>3. l.num = 1000 * audio /\ l.den = Ticks * t /\ l = [num |-> l.num, den |-> l.den]
      BY <2>1 DEF Played
    <2>4. Ticks * t = t * Ticks
      BY <1>0, <2>2
    <2>5. 1000 * Ticks <= t * Ticks /\ t * Ticks <= 1350 * Ticks
      BY <1>0, <2>2, Scaling
    <2>6. t * Ticks \in Int /\ 1000 * Ticks \in Nat \ {0} /\ 1350 * Ticks \in Int
      BY <1>0, <2>2
    <2>7. l.den \in (1000 * Ticks)..(1350 * Ticks) /\ l.den \in Nat \ {0}
      BY <2>3, <2>4, <2>5, <2>6
    <2>8. Fits(l, window)
      BY <2>2, <2>3 DEF Fits
    <2> QED
      BY <1>1, <1>4, <2>3, <2>7, <2>8
  <1>5. ASSUME ~(ms <= window), ~(l = Whole(window))
        PROVE  /\ WorthStretching(ms, window) /\ ~OverTheCap(ms, window)
               /\ l \in Stretched(audio, ms, window)
    BY <1>5 DEF Placed, Trimmed
  <1> QED
    BY <1>2, <1>3, <1>4, <1>5

---------------------------------------------------------------------------
(* Types. *)

Row     == [start : Nat, end : Nat, speaker : Nat \cup {Nobody}, text : Nat]
Chunk   == [start : Nat, end : Nat, says : Nat, voice : Nat, audio : Nat]
Length  == [num : Nat, den : Nat \ {0}]
Placing == [start : Nat, length : Length]

TypeInv ==
    /\ heard \in Seq(Intervals) /\ turns \in Seq(Turns)
    /\ at \in Nat \ {0} /\ turn \in Nat \ {0}
    /\ best \in Nat \cup {Nobody} /\ bestOverlap \in Nat
    /\ rows \in Seq(Row) /\ translations \in Seq(Nat)
    /\ chunks \in Seq(Chunk) /\ track \in Seq(Placing)

LEMMA SameBound ==
    ASSUME NEW m \in Nat, NEW n \in Nat, 1..m = 1..n
    PROVE  m = n
  OBVIOUS

LEMMA Times ==
    /\ \A i \in Intervals : i.start \in Nat /\ i.end \in Nat /\ i.start < i.end
    /\ \A t \in Turns : /\ t.start \in Nat /\ t.end \in Nat
                        /\ t.label \in Nat
  BY TimesAssumption, LabelsAssumption DEF Intervals, Turns

LEMMA ChunkTimes ==
    ASSUME NEW c \in Chunk
    PROVE  /\ c.start \in Nat /\ c.end \in Nat /\ c.audio \in Nat
           /\ Window(c) \in Nat \ {0}
           /\ c.start < c.end => Window(c) = c.end - c.start
  <1>1. c.start \in Nat /\ c.end \in Nat /\ c.audio \in Nat
    BY DEF Chunk
  <1> QED
    BY <1>1 DEF Window, Greater

LEMMA OverlapInt ==
    ASSUME NEW i \in Intervals, NEW t \in Turns
    PROVE  Overlap(i, t) \in Int
  <1>1. i.start \in Int /\ i.end \in Int /\ t.start \in Int /\ t.end \in Int
    BY Times
  <1> QED
    BY <1>1 DEF Overlap, Lesser, Greater

\* What PlacedLength says, of all that a chunk may last.
LEMMA LastingLength ==
    ASSUME NEW rubberband, NEW c \in Chunk, NEW l \in MayLast(rubberband, c)
    PROVE  /\ l \in Length
           /\ Fits(l, Window(c))
           /\ c.audio <= Ticks * Window(c) => l = Played(c.audio, 1000)
           /\ \/ l = Whole(Window(c))
              \/ l.num = 1000 * c.audio /\ l.den \in (1000 * Ticks)..(1350 * Ticks)
  <1>1. c.audio \in Nat /\ Window(c) \in Nat \ {0}
    BY ChunkTimes
  <1>2. PICK ms \in Probed(c.audio) : l \in Placed(rubberband, c.audio, ms, Window(c))
    BY DEF MayLast
  <1>3. l.num \in Nat /\ l.den \in Nat \ {0} /\ l = [num |-> l.num, den |-> l.den]
    BY <1>1, <1>2, PlacedLength
  <1>4. l \in Length
    BY <1>3 DEF Length
  <1> QED
    BY <1>1, <1>2, <1>4, PlacedLength

LEMMA SynthesizedChunk ==
    ASSUME TypeInv, at \in 1..Len(rows),
           NEW audio \in AudioLengths,
           NEW voice \in {Voice(rows[at].speaker), 0}
    PROVE  [start |-> rows[at].start, end |-> rows[at].end,
            says  |-> IF rows[at].text = Untranslated THEN at
                                                      ELSE rows[at].text,
            voice |-> voice, audio |-> audio] \in Chunk
  <1>1. rows[at] \in Row
    BY ElementOfSeq DEF TypeInv
  <1>2. rows[at].speaker \in Nat \cup {-1}
    BY <1>1 DEF Row, Nobody
  <1>3. Voice(rows[at].speaker) \in Nat
    BY <1>2, SizesAssumption DEF Voice, Nobody
  <1>4. /\ rows[at].start \in Nat /\ rows[at].end \in Nat
        /\ rows[at].text \in Nat
    BY <1>1 DEF Row
  <1>5. voice \in Nat /\ audio \in Nat /\ at \in Nat
    BY <1>3, TimesAssumption DEF TypeInv
  <1> QED
    BY <1>4, <1>5 DEF Chunk

---------------------------------------------------------------------------
(* The names: one number to a label, from nought to the number of labels.   *)

LEMMA FirstTurnsFinite ==
    ASSUME NEW ts \in Seq(Turns)
    PROVE  /\ IsFiniteSet(FirstTurns(ts)) /\ FirstTurns(ts) \subseteq DOMAIN ts
           /\ DOMAIN ts = 1..Len(ts) /\ Len(ts) \in Nat
  <1>1. DOMAIN ts = 1..Len(ts) /\ Len(ts) \in Nat
    BY LenProperties
  <1>2. IsFiniteSet(1..Len(ts))
    BY <1>1, FS_Interval
  <1>3. FirstTurns(ts) \subseteq DOMAIN ts
    BY DEF FirstTurns
  <1> QED
    BY <1>1, <1>2, <1>3, FS_Subset

\* The turns that open a label before the given one is met.
Before(ts, label) == {t \in FirstTurns(ts) : \A u \in 1..t : ts[u].label # label}

LEMMA BeforeFinite ==
    ASSUME NEW ts \in Seq(Turns), NEW label
    PROVE  /\ IsFiniteSet(Before(ts, label)) /\ Before(ts, label) \subseteq FirstTurns(ts)
           /\ SpeakerId(ts, label) = Cardinality(Before(ts, label))
           /\ SpeakerId(ts, label) \in Nat
  <1>1. Before(ts, label) \subseteq FirstTurns(ts)
    BY DEF Before
  <1>2. IsFiniteSet(Before(ts, label))
    BY <1>1, FirstTurnsFinite, FS_Subset
  <1>3. SpeakerId(ts, label) = Cardinality(Before(ts, label))
    BY DEF Before, SpeakerId
  <1> QED
    BY <1>1, <1>2, <1>3, FS_CardinalityType

LEMMA SpeakerIdType ==
    ASSUME TypeInv, NEW label PROVE SpeakerId(turns, label) \in Nat
  BY BeforeFinite DEF TypeInv

\* The first turn of a label that occurs.
LEMMA FirstTurn ==
    ASSUME NEW ts \in Seq(Turns), NEW t \in DOMAIN ts
    PROVE  \E f \in FirstTurns(ts) :
              /\ ts[f].label = ts[t].label
              /\ \A u \in 1..(f - 1) : ts[u].label # ts[t].label
  <1> DEFINE L == {u \in DOMAIN ts : ts[u].label = ts[t].label}
  <1>1. DOMAIN ts = 1..Len(ts) /\ Len(ts) \in Nat
    BY LenProperties
  <1>2. L \subseteq Nat /\ t \in L
    BY <1>1
  <1> HIDE DEF L
  <1>3. L # {}
    BY <1>2
  <1>4. PICK R : R = OpToRel(<, Nat)
    OBVIOUS
  <1>5. IsWellFoundedOn(R, Nat)
    BY <1>4, NatLessThanWellFounded
  <1>6. PICK f \in L : \A u \in L : ~(<<u, f>> \in R)
    BY <1>2, <1>3, <1>5, WFMin
  <1>7. ASSUME NEW u \in Nat, u < f PROVE <<u, f>> \in R
    BY <1>2, <1>4, <1>6, <1>7 DEF OpToRel
  <1>8. \A u \in 1..(f - 1) : u \notin L
    <2> SUFFICES ASSUME NEW u \in 1..(f - 1), u \in L PROVE FALSE
      OBVIOUS
    <2>1. u \in Nat /\ f \in Nat
      BY <1>2
    <2>2. u < f
      BY <2>1
    <2> QED
      BY <1>6, <1>7, <2>1, <2>2
  <1>9. f \in DOMAIN ts /\ ts[f].label = ts[t].label
    BY <1>6 DEF L
  <1>10. \A u \in 1..(f - 1) : ts[u].label # ts[t].label
    <2> SUFFICES ASSUME NEW u \in 1..(f - 1) PROVE ts[u].label # ts[t].label
      OBVIOUS
    <2>1. u \in DOMAIN ts
      BY <1>1, <1>9
    <2> QED
      BY <1>8, <2>1 DEF L
  <1> QED
    BY <1>9, <1>10 DEF FirstTurns

\* The label of a turn is not among those met before it, so that its number is
\* less than the number of labels.
LEMMA SpeakerIdBelow ==
    ASSUME NEW ts \in Seq(Turns), NEW t \in DOMAIN ts
    PROVE  SpeakerId(ts, ts[t].label) < Cardinality(FirstTurns(ts))
  <1>1. PICK f \in FirstTurns(ts) : ts[f].label = ts[t].label
    BY FirstTurn
  <1>2. f \in 1..f
    BY <1>1, FirstTurnsFinite
  <1>3. f \notin Before(ts, ts[t].label)
    BY <1>1, <1>2 DEF Before
  <1>4. IsFiniteSet(FirstTurns(ts)) /\ Before(ts, ts[t].label) \in SUBSET FirstTurns(ts)
    BY FirstTurnsFinite, BeforeFinite
  <1>5. /\ Cardinality(Before(ts, ts[t].label)) <= Cardinality(FirstTurns(ts))
        /\ Cardinality(FirstTurns(ts)) # Cardinality(Before(ts, ts[t].label))
    BY <1>1, <1>3, <1>4, FS_Subset
  <1>6. Cardinality(FirstTurns(ts)) \in Nat
    BY <1>4, FS_CardinalityType
  <1> QED
    BY <1>5, <1>6, BeforeFinite

\* The later of two labels counts all that the earlier counts, and the earlier.
LEMMA SpeakerIdLess ==
    ASSUME NEW ts \in Seq(Turns), NEW a, NEW b,
           NEW f \in FirstTurns(ts), NEW g \in FirstTurns(ts),
           ts[f].label = a, ts[g].label = b, a # b, f < g
    PROVE  SpeakerId(ts, a) < SpeakerId(ts, b)
  <1>1. f \in Nat \ {0} /\ g \in Nat \ {0}
    BY FirstTurnsFinite
  <1>2. \A u \in 1..(g - 1) : ts[u].label # b
    BY DEF FirstTurns
  <1>3. f \in Before(ts, b)
    BY <1>1, <1>2 DEF Before
  <1>4. f \notin Before(ts, a)
    BY <1>1 DEF Before
  <1>5. ASSUME NEW t \in Before(ts, a) PROVE t \in Before(ts, b)
    <2>1. t \in FirstTurns(ts) /\ t \in Nat /\ \A u \in 1..t : ts[u].label # a
      BY <1>5, FirstTurnsFinite DEF Before
    <2>2. t < f
      BY <1>1, <2>1
    <2>3. \A u \in 1..t : u \in 1..(g - 1)
      BY <1>1, <2>1, <2>2
    <2> QED
      BY <1>2, <2>1, <2>3 DEF Before
  <1>6. IsFiniteSet(Before(ts, b)) /\ Before(ts, a) \in SUBSET Before(ts, b)
    BY <1>5, BeforeFinite
  <1>7. /\ Cardinality(Before(ts, a)) <= Cardinality(Before(ts, b))
        /\ Cardinality(Before(ts, b)) # Cardinality(Before(ts, a))
    BY <1>3, <1>4, <1>6, FS_Subset
  <1>8. /\ SpeakerId(ts, a) = Cardinality(Before(ts, a)) /\ SpeakerId(ts, a) \in Nat
        /\ SpeakerId(ts, b) = Cardinality(Before(ts, b)) /\ SpeakerId(ts, b) \in Nat
    BY BeforeFinite
  <1> QED
    BY <1>7, <1>8

LEMMA SpeakerIdInjective ==
    ASSUME NEW ts \in Seq(Turns), NEW t \in DOMAIN ts, NEW u \in DOMAIN ts,
           ts[t].label # ts[u].label
    PROVE  SpeakerId(ts, ts[t].label) # SpeakerId(ts, ts[u].label)
  <1>1. PICK f \in FirstTurns(ts) : ts[f].label = ts[t].label
    BY FirstTurn
  <1>2. PICK g \in FirstTurns(ts) : ts[g].label = ts[u].label
    BY FirstTurn
  <1>3. f \in Nat /\ g \in Nat /\ f # g
    BY <1>1, <1>2, FirstTurnsFinite
  <1>4. /\ SpeakerId(ts, ts[t].label) \in Nat
        /\ SpeakerId(ts, ts[u].label) \in Nat
    BY BeforeFinite
  <1>5. CASE f < g
    <2>1. SpeakerId(ts, ts[t].label) < SpeakerId(ts, ts[u].label)
      BY <1>1, <1>2, <1>5, SpeakerIdLess
    <2> QED
      BY <1>4, <2>1
  <1>6. CASE g < f
    <2>1. ts[u].label # ts[t].label
      OBVIOUS
    <2>2. SpeakerId(ts, ts[u].label) < SpeakerId(ts, ts[t].label)
      BY <1>1, <1>2, <1>6, <2>1, SpeakerIdLess
    <2> QED
      BY <1>4, <2>2
  <1> QED
    BY <1>3, <1>5, <1>6

LEMMA InitTypeInv == Init => TypeInv
  <1> SUFFICES ASSUME Init PROVE TypeInv
    OBVIOUS
  <1>1. heard \in Seq(Intervals)
    <2>1. PICK n \in 0..MaxSegments : heard \in [1..n -> Intervals]
      BY DEF Init, Hearings
    <2> QED
      BY <2>1, SizesAssumption, SeqDef
  <1>2. turns \in Seq(Turns)
    <2>1. PICK n \in 0..MaxTurns : turns \in [1..n -> Turns]
      BY DEF Init
    <2> QED
      BY <2>1, SizesAssumption, SeqDef
  <1> QED
    BY <1>1, <1>2, EmptySeq DEF Init, TypeInv

LEMMA NextTypeInv == TypeInv /\ [Next]_vars => TypeInv'
  <1> SUFFICES ASSUME TypeInv, [Next]_vars PROVE TypeInv'
    OBVIOUS
  <1> USE DEF TypeInv, Nobody
  <1>1. CASE AttributeTurn
    <2>1. turns[turn] \in Turns /\ heard[at] \in Intervals
      BY <1>1, ElementOfSeq, LenProperties DEF AttributeTurn
    <2>2. Overlap(heard[at], turns[turn]) \in Int
      BY <2>1, OverlapInt
    <2>3. SpeakerId(turns, turns[turn].label) \in Nat
      BY SpeakerIdType
    <2>4. best' \in Nat \cup {Nobody} /\ bestOverlap' \in Nat
      <3>1. CASE Overlap(heard[at], turns[turn]) > bestOverlap
        BY <1>1, <2>2, <2>3, <3>1 DEF AttributeTurn
      <3>2. CASE ~(Overlap(heard[at], turns[turn]) > bestOverlap)
        BY <1>1, <3>2 DEF AttributeTurn
      <3> QED
        BY <3>1, <3>2
    <2> QED
      BY <1>1, <2>4 DEF AttributeTurn, input, results
  <1>2. CASE TranscribeSegment
    <2>1. heard[at] \in Intervals
      BY <1>2, ElementOfSeq, LenProperties DEF TranscribeSegment
    <2>2. [start |-> heard[at].start, end |-> heard[at].end,
           speaker |-> best, text |-> Untranslated] \in Row
      BY <2>1, Times DEF Row, Untranslated
    <2>3. rows' \in Seq(Row)
      BY <1>2, <2>2, AppendProperties DEF TranscribeSegment
    <2> QED
      BY <1>2, <2>3 DEF TranscribeSegment, Advance, input
  <1>3. CASE EndTranscription
    BY <1>3 DEF EndTranscription, Enter, input, scan, results
  <1>4. CASE TranslateBatch
    <2>1. PICK n \in 0..(BatchSize + 1) :
             \/ n = Batch /\ Answered(n) /\ Advance(BatchSize)
             \/ n # Batch /\ Fail /\ UNCHANGED translations
      BY <1>4 DEF TranslateBatch
    <2>2. [k \in 1..n |-> at + k - 1] \in [1..n -> Nat] /\ n \in Nat
      BY SizesAssumption
    <2>3. [k \in 1..n |-> at + k - 1] \in Seq(Nat)
      BY <2>2, SeqDef
    <2>4. translations' \in Seq(Nat)
      <3>1. translations \o [k \in 1..n |-> at + k - 1] \in Seq(Nat)
        BY <2>3, ConcatProperties
      <3> QED
        BY <2>1, <3>1 DEF Answered
    <2>5. at' \in Nat \ {0}
      BY <2>1, SizesAssumption DEF Advance, Fail
    <2> QED
      BY <1>4, <2>4, <2>5 DEF TranslateBatch, input, scan
  <1>5. CASE StoreTranslations
    <2>1. ASSUME NEW i \in DOMAIN rows
          PROVE  (IF i \in DOMAIN translations
                    THEN [rows[i] EXCEPT !.text = translations[i]]
                    ELSE rows[i]) \in Row
      <3>1. rows[i] \in Row
        BY <2>1, ElementOfSeq, LenProperties
      <3>2. i \in DOMAIN translations => translations[i] \in Nat
        BY ElementOfSeq, LenProperties
      <3> QED
        BY <3>1, <3>2 DEF Row
    <2>2. Len(rows) \in Nat /\ DOMAIN rows = 1..Len(rows)
      BY LenProperties
    <2>3. rows' \in [1..Len(rows) -> Row]
      BY <1>5, <2>1, <2>2 DEF StoreTranslations
    <2>4. rows' \in Seq(Row)
      BY <2>2, <2>3, SeqDef
    <2> QED
      BY <1>5, <2>4 DEF StoreTranslations, Enter, input, scan
  <1>6. CASE SynthesizeSegment
    <2>1. at \in 1..Len(rows)
      BY <1>6, LenProperties DEF SynthesizeSegment
    <2>3. ASSUME NEW audio \in AudioLengths,
                 NEW voice \in {Voice(rows[at].speaker), 0}
          PROVE  [start |-> rows[at].start, end |-> rows[at].end,
                  says  |-> IF rows[at].text = Untranslated THEN at
                                                            ELSE rows[at].text,
                  voice |-> voice, audio |-> audio] \in Chunk
      BY <2>1, <2>3, SynthesizedChunk
    <2>4. chunks' \in Seq(Chunk) /\ at' \in Nat \ {0}
      <3>1. CASE Fail /\ UNCHANGED chunks
        BY <3>1 DEF Fail
      <3>2. ASSUME NEW audio \in AudioLengths,
                   NEW voice \in {Voice(rows[at].speaker), 0},
                   chunks' = Append(chunks,
                     [start |-> rows[at].start, end |-> rows[at].end,
                      says  |-> IF rows[at].text = Untranslated THEN at
                                                                ELSE rows[at].text,
                      voice |-> voice, audio |-> audio]),
                   Advance(1)
            PROVE  chunks' \in Seq(Chunk) /\ at' \in Nat \ {0}
        <4>1. at' \in Nat \ {0}
          BY <3>2 DEF Advance
        <4>2. chunks' \in Seq(Chunk)
          BY <2>3, <3>2, AppendProperties
        <4> QED
          BY <4>1, <4>2
      <3> QED
        BY <1>6, <3>1, <3>2 DEF SynthesizeSegment
    <2> QED
      BY <1>6, <2>4 DEF SynthesizeSegment, input, scan
  <1>7. CASE EndSynthesis
    BY <1>7 DEF EndSynthesis, Enter, input, scan, results
  <1>8. CASE PlaceChunk
    <2>1. chunks[at] \in Chunk
      BY <1>8, ElementOfSeq, LenProperties DEF PlaceChunk
    <2>3. PICK length \in MayLast(hasRubberband, chunks[at]) :
             track' = Append(track, [start |-> chunks[at].start, length |-> length])
      BY <1>8 DEF PlaceChunk
    <2>4. length \in Length
      BY <2>1, <2>3, LastingLength
    <2>5. [start |-> chunks[at].start, length |-> length] \in Placing
      BY <2>1, <2>4 DEF Chunk, Placing
    <2>6. track' \in Seq(Placing)
      BY <2>3, <2>5, AppendProperties
    <2> QED
      BY <1>8, <2>6 DEF PlaceChunk, Advance, input, scan
  <1>9. CASE EndTrack
    BY <1>9 DEF EndTrack, Enter, input, scan, results
  <1>10. CASE UNCHANGED vars
    BY <1>10 DEF vars, input, scan, results
  <1> QED
    BY <1>1, <1>2, <1>3, <1>4, <1>5, <1>6, <1>7, <1>8, <1>9, <1>10 DEF Next

THEOREM TypeCorrect == Spec => []TypeInv
  BY InitTypeInv, NextTypeInv, PTL DEF Spec

---------------------------------------------------------------------------
(* The words: rows and chunks follow the segments heard, and what the      *)
(* batches have returned so far are the translations of the first rows.    *)

Mirrors(s, h) ==
    /\ Len(s) <= Len(h)
    /\ \A i \in 1..Len(s) : s[i].start = h[i].start /\ s[i].end = h[i].end

WordsInv ==
    /\ Mirrors(rows, heard) /\ Mirrors(chunks, heard)
    /\ phase = "transcribing" =>
          Len(rows) = at - 1 /\ translations = <<>> /\ chunks = <<>>
    /\ phase = "translating" =>
          Len(translations) = Lesser(at - 1, Len(rows)) /\ chunks = <<>>
    /\ phase = "synthesizing" =>
          Len(chunks) = at - 1 /\ \A i \in 1..Len(rows) : rows[i].text = i
    /\ \A i \in 1..Len(translations) : translations[i] = i
    /\ \A i \in 1..Len(chunks) : chunks[i].says = i

LEMMA AppendMirrors ==
    ASSUME NEW S, NEW s \in Seq(S), NEW x \in S,
           NEW h \in Seq(Intervals), Mirrors(s, h), Len(s) + 1 <= Len(h),
           x.start = h[Len(s) + 1].start, x.end = h[Len(s) + 1].end
    PROVE  Mirrors(Append(s, x), h)
  <1>1. Len(s) \in Nat /\ Len(h) \in Nat
    BY LenProperties
  <1>2. Len(Append(s, x)) = Len(s) + 1
    BY AppendProperties
  <1>3. ASSUME NEW i \in 1..(Len(s) + 1)
        PROVE  Append(s, x)[i].start = h[i].start /\ Append(s, x)[i].end = h[i].end
    <2>1. CASE i = Len(s) + 1
      BY <2>1, AppendProperties
    <2>2. CASE i \in 1..Len(s)
      BY <2>2, AppendProperties DEF Mirrors
    <2> QED
      BY <1>1, <2>1, <2>2
  <1> QED
    BY <1>1, <1>2, <1>3 DEF Mirrors

LEMMA InitWords == Init => WordsInv
  <1> SUFFICES ASSUME Init PROVE WordsInv
    OBVIOUS
  <1>1. Len(heard) \in Nat
    BY InitTypeInv, LenProperties DEF TypeInv
  <1>2. Len(<<>>) = 0
    BY EmptySeq
  <1> QED
    BY <1>1, <1>2 DEF Init, WordsInv, Mirrors

LEMMA TranscribeWords ==
    ASSUME TypeInv, WordsInv, TranscribeSegment
    PROVE  WordsInv'
  <1>1. /\ heard' = heard /\ chunks' = chunks /\ translations' = translations
        /\ phase = "transcribing" /\ phase' = phase /\ at' = at + 1
        /\ at \in Nat \ {0} /\ at <= Len(heard) /\ Len(rows) = at - 1
    BY DEF TranscribeSegment, Advance, input, TypeInv, WordsInv
  <1> DEFINE row == [start |-> heard[at].start, end |-> heard[at].end,
                     speaker |-> best, text |-> Untranslated]
  <1>2. heard[at] \in Intervals
    BY <1>1, ElementOfSeq, LenProperties DEF TypeInv
  <1>3. row \in Row
    BY <1>2, Times DEF Row, Untranslated, TypeInv
  <1>4. rows' = Append(rows, row) /\ rows \in Seq(Row) /\ heard \in Seq(Intervals)
    BY DEF TranscribeSegment, TypeInv
  <1>5. row.start = heard[at].start /\ row.end = heard[at].end
    OBVIOUS
  <1> HIDE DEF row
  <1>6. Len(rows) + 1 = at /\ Len(rows) + 1 <= Len(heard)
    BY <1>1
  <1>7. Mirrors(rows', heard')
    BY <1>1, <1>3, <1>4, <1>5, <1>6, AppendMirrors DEF WordsInv
  <1>8. Len(rows') = at' - 1
    BY <1>1, <1>3, <1>4, <1>6, AppendProperties
  <1> QED
    BY <1>1, <1>7, <1>8 DEF WordsInv

LEMMA TranslateWords ==
    ASSUME TypeInv, WordsInv, TranslateBatch
    PROVE  WordsInv'
  <1>1. /\ heard' = heard /\ chunks' = chunks /\ rows' = rows
        /\ phase = "translating" /\ at \in Nat \ {0} /\ at <= Len(rows)
        /\ Len(rows) \in Nat /\ translations \in Seq(Nat)
        /\ BatchSize \in Nat \ {0}
    BY SizesAssumption, LenProperties DEF TranslateBatch, input, TypeInv
  <1>2. Len(translations) = at - 1
    BY <1>1 DEF WordsInv, Lesser
  <1>3. CASE Fail /\ UNCHANGED translations
    BY <1>1, <1>3 DEF WordsInv, Fail
  <1>4. CASE Answered(Batch) /\ Advance(BatchSize)
    <2>1. Batch \in Nat /\ Batch = Lesser(BatchSize, Len(rows) - at + 1)
      BY <1>1 DEF Batch, Lesser
    <2>2. [k \in 1..Batch |-> at + k - 1] \in [1..Batch -> Nat]
      BY <1>1, <2>1
    <2>3. /\ [k \in 1..Batch |-> at + k - 1] \in Seq(Nat)
          /\ Len([k \in 1..Batch |-> at + k - 1]) = Batch
      <3>1. [k \in 1..Batch |-> at + k - 1] \in Seq(Nat)
        BY <2>1, <2>2, SeqDef
      <3> DEFINE answer == [k \in 1..Batch |-> at + k - 1]
      <3>2. DOMAIN answer = 1..Batch
        OBVIOUS
      <3> HIDE DEF answer
      <3>3. answer \in Seq(Nat)
        BY <3>1 DEF answer
      <3>4. Len(answer) \in Nat /\ DOMAIN answer = 1..Len(answer)
        BY <3>3, LenProperties
      <3>5. Len(answer) = Batch
        BY <2>1, <3>2, <3>4, SameBound
      <3> QED
        BY <3>3, <3>5 DEF answer
    <2>4. translations' = translations \o [k \in 1..Batch |-> at + k - 1]
      BY <1>4 DEF Answered
    <2>5. Len(translations') = at - 1 + Batch
      BY <1>1, <1>2, <2>3, <2>4, ConcatProperties
    <2>6. ASSUME NEW i \in 1..(at - 1 + Batch)
          PROVE  translations'[i] = i
      <3>1. CASE i <= at - 1
        <4>1. translations'[i] = translations[i]
          BY <1>1, <1>2, <2>1, <2>3, <2>4, <3>1, ConcatProperties
        <4> QED
          BY <1>1, <1>2, <3>1, <4>1 DEF WordsInv
      <3>2. CASE ~(i <= at - 1)
        <4>1. translations'[i] = [k \in 1..Batch |-> at + k - 1][i - (at - 1)]
          BY <1>1, <1>2, <2>1, <2>3, <2>4, <3>2, ConcatProperties
        <4>2. i - (at - 1) \in 1..Batch
          BY <1>1, <2>1, <3>2
        <4> QED
          BY <1>1, <4>1, <4>2
      <3> QED
        BY <3>1, <3>2
    <2>7. at - 1 + Batch = Lesser(at' - 1, Len(rows))
      BY <1>1, <1>4, <2>1 DEF Lesser, Advance
    <2> QED
      BY <1>1, <1>4, <2>5, <2>6, <2>7 DEF WordsInv, Advance
  <1> QED
    BY <1>3, <1>4 DEF TranslateBatch

LEMMA StoreWords ==
    ASSUME TypeInv, WordsInv, StoreTranslations
    PROVE  WordsInv'
  <1>1. /\ heard' = heard /\ chunks' = chunks /\ translations' = translations
        /\ phase = "translating" /\ phase' = "synthesizing" /\ at' = 1
        /\ at \in Nat \ {0} /\ at > Len(rows)
        /\ Len(rows) \in Nat /\ DOMAIN rows = 1..Len(rows)
        /\ Len(translations) \in Nat
        /\ DOMAIN translations = 1..Len(translations)
    BY LenProperties DEF StoreTranslations, Enter, input, TypeInv
  <1>2. Len(translations) = Len(rows) /\ chunks = <<>>
    <2>1. Len(translations) = Lesser(at - 1, Len(rows)) /\ chunks = <<>>
      BY <1>1 DEF WordsInv
    <2>2. ~(at - 1 < Len(rows))
      BY <1>1
    <2> QED
      BY <2>1, <2>2 DEF Lesser
  <1>3. rows' = [i \in 1..Len(rows) |-> [rows[i] EXCEPT !.text = translations[i]]]
    BY <1>1, <1>2 DEF StoreTranslations
  <1>4. rows' \in Seq(Row)
    BY NextTypeInv DEF TypeInv, Next
  <1>5. Len(rows') = Len(rows)
    <2>1. Len(rows') \in Nat /\ DOMAIN rows' = 1..Len(rows')
      BY <1>4, LenProperties
    <2>2. DOMAIN rows' = 1..Len(rows)
      BY <1>3
    <2> QED
      BY <1>1, <2>1, <2>2, SameBound
  <1>6. ASSUME NEW i \in 1..Len(rows)
        PROVE  /\ rows'[i].start = rows[i].start /\ rows'[i].end = rows[i].end
               /\ rows'[i].text = i
    <2>1. rows[i] \in Row
      BY ElementOfSeq DEF TypeInv
    <2>2. rows'[i] = [rows[i] EXCEPT !.text = translations[i]]
      BY <1>3
    <2>3. translations[i] = i
      BY <1>2 DEF WordsInv
    <2> QED
      BY <2>1, <2>2, <2>3 DEF Row
  <1>7. Mirrors(rows', heard')
    BY <1>1, <1>5, <1>6 DEF WordsInv, Mirrors
  <1>8. Len(chunks) = 0
    BY <1>2, EmptySeq
  <1> QED
    BY <1>1, <1>2, <1>5, <1>6, <1>7, <1>8 DEF WordsInv

LEMMA SynthesizeWords ==
    ASSUME TypeInv, WordsInv, SynthesizeSegment
    PROVE  WordsInv'
  <1>1. /\ heard' = heard /\ rows' = rows /\ translations' = translations
        /\ phase = "synthesizing" /\ at \in Nat \ {0} /\ at <= Len(rows)
        /\ Len(rows) \in Nat /\ Len(heard) \in Nat /\ Len(rows) <= Len(heard)
        /\ Len(chunks) = at - 1 /\ chunks \in Seq(Chunk) /\ heard \in Seq(Intervals)
    BY LenProperties DEF SynthesizeSegment, input, TypeInv, WordsInv, Mirrors
  <1>2. rows[at].text = at /\ rows[at].start = heard[at].start
        /\ rows[at].end = heard[at].end
    BY <1>1 DEF WordsInv, Mirrors
  <1>3. CASE Fail /\ UNCHANGED chunks
    BY <1>1, <1>3 DEF WordsInv, Fail
  <1>4. ASSUME NEW chunk, chunks' = Append(chunks, chunk), Advance(1),
               chunk.start = rows[at].start, chunk.end = rows[at].end,
               chunk.says = at, chunk \in Chunk
        PROVE  WordsInv'
    <2>1. Mirrors(chunks', heard')
      <3>1. Len(chunks) + 1 = at /\ Len(chunks) + 1 <= Len(heard)
        BY <1>1
      <3>2. Mirrors(chunks, heard)
        BY DEF WordsInv
      <3>3. /\ chunk.start = heard[Len(chunks) + 1].start
            /\ chunk.end = heard[Len(chunks) + 1].end
        BY <1>2, <1>4, <3>1
      <3>4. Mirrors(Append(chunks, chunk), heard)
        BY <1>1, <1>4, <3>1, <3>2, <3>3, AppendMirrors
      <3> QED
        BY <1>1, <1>4, <3>4
    <2>2. Len(chunks') = at
      BY <1>1, <1>4, AppendProperties
    <2>3. ASSUME NEW i \in 1..at PROVE chunks'[i].says = i
      <3>1. CASE i = at
        BY <1>1, <1>4, <3>1, AppendProperties
      <3>2. CASE i \in 1..Len(chunks)
        <4>1. chunks'[i] = chunks[i]
          BY <1>1, <1>4, <3>2, AppendProperties
        <4> QED
          BY <3>2, <4>1 DEF WordsInv
      <3> QED
        BY <1>1, <3>1, <3>2
    <2> QED
      BY <1>1, <1>4, <2>1, <2>2, <2>3 DEF WordsInv, Advance
  <1>5. ASSUME NEW audio \in AudioLengths,
               NEW voice \in {Voice(rows[at].speaker), 0},
               chunks' = Append(chunks,
                 [start |-> rows[at].start, end |-> rows[at].end,
                  says  |-> IF rows[at].text = Untranslated THEN at
                                                            ELSE rows[at].text,
                  voice |-> voice, audio |-> audio]),
               Advance(1)
        PROVE  WordsInv'
    <2> DEFINE chunk == [start |-> rows[at].start, end |-> rows[at].end,
                         says  |-> IF rows[at].text = Untranslated THEN at
                                                                   ELSE rows[at].text,
                         voice |-> voice, audio |-> audio]
    <2>1. chunk \in Chunk
      <3>1. at \in 1..Len(rows)
        BY <1>1
      <3> QED
        BY <1>5, <3>1, SynthesizedChunk
    <2>2. chunk.start = rows[at].start /\ chunk.end = rows[at].end /\ chunk.says = at
      BY <1>2
    <2>3. chunks' = Append(chunks, chunk)
      BY <1>5
    <2> HIDE DEF chunk
    <2> QED
      BY <1>4, <1>5, <2>1, <2>2, <2>3
  <1> QED
    BY <1>3, <1>5 DEF SynthesizeSegment

LEMMA NextWords == TypeInv /\ WordsInv /\ [Next]_vars => WordsInv'
  <1> SUFFICES ASSUME TypeInv, WordsInv, [Next]_vars PROVE WordsInv'
    OBVIOUS
  <1>1. CASE AttributeTurn
    BY <1>1 DEF AttributeTurn, WordsInv, input, results
  <1>2. CASE TranscribeSegment
    BY <1>2, TranscribeWords
  <1>3. CASE EndTranscription
    <2>1. Len(rows) \in Nat /\ Len(<<>>) = 0
      BY LenProperties, EmptySeq DEF TypeInv
    <2> QED
      BY <1>3, <2>1 DEF EndTranscription, Enter, WordsInv, Lesser, input, results
  <1>4. CASE TranslateBatch
    BY <1>4, TranslateWords
  <1>5. CASE StoreTranslations
    BY <1>5, StoreWords
  <1>6. CASE SynthesizeSegment
    BY <1>6, SynthesizeWords
  <1>7. CASE EndSynthesis
    BY <1>7 DEF EndSynthesis, Enter, WordsInv, input, results
  <1>8. CASE PlaceChunk
    BY <1>8 DEF PlaceChunk, Advance, WordsInv, input
  <1>9. CASE EndTrack
    BY <1>9 DEF EndTrack, Enter, WordsInv, input, results
  <1>10. CASE UNCHANGED vars
    BY <1>10 DEF WordsInv, vars, input, results
  <1> QED
    BY <1>1, <1>2, <1>3, <1>4, <1>5, <1>6, <1>7, <1>8, <1>9, <1>10 DEF Next

\* The track speaks over each segment the translation of that segment, however
\* many segments, batches and speakers there are.
THEOREM OwnWordsAlways == Spec => []OwnWords
  <1>1. TypeInv /\ WordsInv => OwnWords
    <2> SUFFICES ASSUME TypeInv, WordsInv, NEW i \in DOMAIN chunks
                 PROVE  /\ chunks[i].says = i
                        /\ chunks[i].start = heard[i].start
                        /\ chunks[i].end = heard[i].end
      BY DEF OwnWords
    <2>1. i \in 1..Len(chunks)
      BY LenProperties DEF TypeInv
    <2> QED
      BY <2>1 DEF WordsInv, Mirrors
  <1>2. Spec => []WordsInv
    BY InitWords, NextWords, TypeCorrect, PTL DEF Spec
  <1> QED
    BY <1>1, <1>2, TypeCorrect, PTL

---------------------------------------------------------------------------
(* The track: every chunk is placed where its segment began, for as long as *)
(* Placed allows.                                                           *)

HeardApart(h) ==
    \A i, j \in 1..Len(h) : i < j => h[i].end <= h[j].start

PlacedInOrder(rubberband, t, c) ==
    /\ Len(t) <= Len(c)
    /\ \A i \in 1..Len(t) :
          /\ t[i].start = c[i].start
          /\ t[i].length \in MayLast(rubberband, c[i])

TrackInv ==
    /\ HeardApart(heard)
    /\ phase \notin {"composing", "done"} => track = <<>>
    /\ phase = "composing" => Len(track) = at - 1
    /\ PlacedInOrder(hasRubberband, track, chunks)

LEMMA InitTrack == Init => TrackInv
  <1> SUFFICES ASSUME Init PROVE TrackInv
    OBVIOUS
  <1>1. Len(<<>>) = 0
    BY EmptySeq
  <1>2. HeardApart(heard)
    <2>1. DOMAIN heard = 1..Len(heard)
      BY InitTypeInv, LenProperties DEF TypeInv
    <2> QED
      BY <2>1 DEF Init, Hearings, HeardApart
  <1> QED
    BY <1>1, <1>2 DEF Init, TrackInv, PlacedInOrder

LEMMA PlaceTrack ==
    ASSUME TypeInv, TrackInv, PlaceChunk
    PROVE  TrackInv'
  <1>1. /\ heard' = heard /\ chunks' = chunks /\ phase = "composing"
        /\ hasRubberband' = hasRubberband
        /\ phase' = phase /\ at' = at + 1 /\ at \in Nat \ {0}
        /\ at <= Len(chunks) /\ Len(chunks) \in Nat
        /\ Len(track) = at - 1 /\ track \in Seq(Placing)
    BY LenProperties DEF PlaceChunk, Advance, input, TypeInv, TrackInv
  <1>2. PICK length \in MayLast(hasRubberband, chunks[at]) :
           track' = Append(track, [start |-> chunks[at].start, length |-> length])
    BY DEF PlaceChunk
  <1> DEFINE placing == [start |-> chunks[at].start, length |-> length]
  <1>3. placing \in Placing
    <2>1. chunks[at] \in Chunk
      BY <1>1, ElementOfSeq DEF TypeInv
    <2>2. chunks[at].start \in Nat /\ length \in Length
      BY <1>2, <2>1, ChunkTimes, LastingLength
    <2> QED
      BY <2>2 DEF Placing
  <1>4. placing.start = chunks[at].start /\ placing.length = length
    OBVIOUS
  <1>5. track' = Append(track, placing)
    BY <1>2
  <1> HIDE DEF placing
  <1>6. Len(track') = at
    BY <1>1, <1>3, <1>5, AppendProperties
  <1>7. ASSUME NEW i \in 1..at
        PROVE  /\ track'[i].start = chunks[i].start
               /\ track'[i].length \in MayLast(hasRubberband, chunks[i])
    <2>1. CASE i = at
      <3>1. track'[at] = placing
        BY <1>1, <1>3, <1>5, AppendProperties
      <3> QED
        BY <1>2, <1>4, <2>1, <3>1
    <2>2. CASE i \in 1..Len(track)
      <3>1. track'[i] = track[i]
        BY <1>1, <1>3, <1>5, <2>2, AppendProperties
      <3> QED
        BY <2>2, <3>1 DEF TrackInv, PlacedInOrder
    <2> QED
      BY <1>1, <2>1, <2>2
  <1> QED
    BY <1>1, <1>6, <1>7 DEF TrackInv, PlacedInOrder

LEMMA SynthesizeTrack ==
    ASSUME TypeInv, TrackInv, SynthesizeSegment
    PROVE  TrackInv'
  <1>1. track = <<>> /\ track' = track /\ heard' = heard
    BY DEF SynthesizeSegment, TrackInv, input
  <1>2. phase' \in {"synthesizing", "failed"}
    BY DEF SynthesizeSegment, Advance, Fail
  <1>3. Len(track) = 0 /\ Len(chunks') \in Nat
    BY <1>1, EmptySeq, NextTypeInv, LenProperties DEF TypeInv, Next
  <1> QED
    BY <1>1, <1>2, <1>3 DEF TrackInv, PlacedInOrder

LEMMA NextTrack == TypeInv /\ WordsInv /\ TrackInv /\ [Next]_vars => TrackInv'
  <1> SUFFICES ASSUME TypeInv, WordsInv, TrackInv, [Next]_vars PROVE TrackInv'
    OBVIOUS
  <1> USE DEF TrackInv
  <1>1. CASE AttributeTurn
    BY <1>1 DEF AttributeTurn, input, results
  <1>2. CASE TranscribeSegment
    BY <1>2 DEF TranscribeSegment, Advance, input
  <1>3. CASE EndTranscription
    BY <1>3 DEF EndTranscription, Enter, input, results
  <1>4. CASE TranslateBatch
    BY <1>4 DEF TranslateBatch, Advance, Fail, input
  <1>5. CASE StoreTranslations
    BY <1>5 DEF StoreTranslations, Enter, input
  <1>6. CASE SynthesizeSegment
    BY <1>6, SynthesizeTrack
  <1>7. CASE EndSynthesis
    <2>1. track = <<>> /\ Len(<<>>) = 0
      BY <1>7, EmptySeq DEF EndSynthesis
    <2> QED
      BY <1>7, <2>1 DEF EndSynthesis, Enter, input, results, PlacedInOrder
  <1>8. CASE PlaceChunk
    BY <1>8, PlaceTrack
  <1>9. CASE EndTrack
    BY <1>9 DEF EndTrack, Enter, input, results
  <1>10. CASE UNCHANGED vars
    BY <1>10 DEF vars, input, results
  <1> QED
    BY <1>1, <1>2, <1>3, <1>4, <1>5, <1>6, <1>7, <1>8, <1>9, <1>10 DEF Next

LEMMA TrackAlways == Spec => [](TypeInv /\ WordsInv /\ TrackInv)
  <1>1. Init => TypeInv /\ WordsInv /\ TrackInv
    BY InitTypeInv, InitWords, InitTrack
  <1>2. TypeInv /\ WordsInv /\ TrackInv /\ [Next]_vars
           => (TypeInv /\ WordsInv /\ TrackInv)'
    BY NextTypeInv, NextWords, NextTrack
  <1> QED
    BY <1>1, <1>2, PTL DEF Spec

---------------------------------------------------------------------------
(* Completeness: each stage goes through all that the one before it left.   *)

LengthsInv ==
    /\ phase \in {"translating", "synthesizing", "composing", "done"} => Len(rows) = Len(heard)
    /\ phase \in {"composing", "done"} => Len(chunks) = Len(heard)
    /\ phase = "done" => Len(track) = Len(heard)

LEMMA NextLengths ==
    ASSUME TypeInv, WordsInv, TrackInv, LengthsInv, [Next]_vars
    PROVE  LengthsInv'
  <1>0. /\ Len(rows) \in Nat /\ Len(heard) \in Nat /\ Len(chunks) \in Nat
        /\ Len(track) \in Nat /\ at \in Nat \ {0}
        /\ Len(rows) <= Len(heard) /\ Len(chunks) <= Len(heard) /\ Len(track) <= Len(chunks)
    BY LenProperties DEF TypeInv, WordsInv, Mirrors, TrackInv, PlacedInOrder
  <1> USE DEF LengthsInv
  <1>1. CASE AttributeTurn
    BY <1>1 DEF AttributeTurn, input, results
  <1>2. CASE TranscribeSegment
    BY <1>2 DEF TranscribeSegment, Advance
  <1>3. CASE EndTranscription
    <2>1. Len(rows) = at - 1 /\ at > Len(heard)
      BY <1>3 DEF EndTranscription, WordsInv
    <2>2. phase' = "translating" /\ rows' = rows /\ heard' = heard
      BY <1>3 DEF EndTranscription, Enter, input, results
    <2> QED
      BY <1>0, <2>1, <2>2
  <1>4. CASE TranslateBatch
    <2>1. /\ phase' \in {"translating", "failed"} /\ phase = "translating"
          /\ rows' = rows /\ heard' = heard
      BY <1>4 DEF TranslateBatch, Advance, Fail, input
    <2> QED
      BY <2>1
  <1>5. CASE StoreTranslations
    <2>1. phase' = "synthesizing" /\ phase = "translating" /\ heard' = heard
      BY <1>5 DEF StoreTranslations, Enter, input
    <2>2. Len(rows') = Len(rows)
      <3>1. DOMAIN rows' = DOMAIN rows
        BY <1>5 DEF StoreTranslations
      <3>2. TypeInv'
        BY NextTypeInv
      <3>3. DOMAIN rows = 1..Len(rows) /\ DOMAIN rows' = 1..Len(rows') /\ Len(rows') \in Nat
        BY <3>2, LenProperties DEF TypeInv
      <3> QED
        BY <1>0, <3>1, <3>3, SameBound
    <2> QED
      BY <2>1, <2>2
  <1>6. CASE SynthesizeSegment
    <2>1. /\ phase = "synthesizing" /\ phase' \in {"synthesizing", "failed"}
          /\ rows' = rows /\ heard' = heard
      BY <1>6 DEF SynthesizeSegment, Advance, Fail, input
    <2> QED
      BY <2>1
  <1>7. CASE EndSynthesis
    <2>1. phase = "synthesizing" /\ Len(chunks) = at - 1 /\ at > Len(rows)
      BY <1>7 DEF EndSynthesis, WordsInv
    <2>2. phase' = "composing" /\ rows' = rows /\ chunks' = chunks /\ heard' = heard
      BY <1>7 DEF EndSynthesis, Enter, input, results
    <2> QED
      BY <1>0, <2>1, <2>2
  <1>8. CASE PlaceChunk
    <2>1. /\ phase = "composing" /\ phase' = "composing"
          /\ rows' = rows /\ chunks' = chunks /\ heard' = heard
      BY <1>8 DEF PlaceChunk, Advance, input
    <2> QED
      BY <2>1
  <1>9. CASE EndTrack
    <2>1. phase = "composing" /\ Len(track) = at - 1 /\ at > Len(chunks)
      BY <1>9 DEF EndTrack, TrackInv
    <2>2. /\ phase' = "done" /\ rows' = rows /\ chunks' = chunks /\ track' = track
          /\ heard' = heard
      BY <1>9 DEF EndTrack, Enter, input, results
    <2> QED
      BY <1>0, <2>1, <2>2
  <1>10. CASE UNCHANGED vars
    BY <1>10 DEF vars, input, results
  <1> QED
    BY <1>1, <1>2, <1>3, <1>4, <1>5, <1>6, <1>7, <1>8, <1>9, <1>10 DEF Next

\* A finished track speaks every segment that was heard, from where it began,
\* however many segments there are and however they fall into batches.
THEOREM NothingEverLeftOut == Spec => []NothingLeftOut
  <1>1. Init => LengthsInv
    BY DEF Init, LengthsInv
  <1>2. TypeInv /\ WordsInv /\ TrackInv /\ LengthsInv => NothingLeftOut
    <2> SUFFICES ASSUME TypeInv, WordsInv, TrackInv, LengthsInv, phase = "done"
                 PROVE  /\ Len(rows) = Len(heard) /\ Len(chunks) = Len(heard)
                        /\ Len(track) = Len(heard)
                        /\ \A i \in 1..Len(heard) : track[i].start = heard[i].start
      BY DEF NothingLeftOut
    <2>1. Len(rows) = Len(heard) /\ Len(chunks) = Len(heard) /\ Len(track) = Len(heard)
      BY DEF LengthsInv
    <2>2. ASSUME NEW i \in 1..Len(heard) PROVE track[i].start = heard[i].start
      BY <2>1 DEF TrackInv, PlacedInOrder, WordsInv, Mirrors
    <2> QED
      BY <2>1, <2>2
  <1>3. TypeInv /\ WordsInv /\ TrackInv /\ LengthsInv /\ [Next]_vars => LengthsInv'
    BY NextLengths
  <1> QED
    BY <1>1, <1>2, <1>3, TrackAlways, PTL DEF Spec

---------------------------------------------------------------------------
(* The lengths. *)

\* What the invariants say of one chunk on the track.
LEMMA PlacedChunk ==
    ASSUME TypeInv, WordsInv, TrackInv, NEW i \in DOMAIN track
    PROVE  /\ i \in 1..Len(heard)
           /\ chunks[i] \in Chunk /\ Window(chunks[i]) \in Nat \ {0}
           /\ track[i].start = heard[i].start
           /\ Window(chunks[i]) = heard[i].end - heard[i].start
           /\ track[i].length \in MayLast(hasRubberband, chunks[i])
  <1>1. /\ i \in 1..Len(track) /\ Len(track) \in Nat /\ Len(chunks) \in Nat
        /\ Len(heard) \in Nat
    BY LenProperties DEF TypeInv
  <1>2. i \in 1..Len(chunks) /\ i \in 1..Len(heard)
    BY <1>1 DEF TrackInv, WordsInv, Mirrors, PlacedInOrder
  <1>3. chunks[i] \in Chunk /\ heard[i] \in Intervals
    BY <1>2, ElementOfSeq DEF TypeInv
  <1>4. /\ track[i].start = chunks[i].start
        /\ track[i].length \in MayLast(hasRubberband, chunks[i])
    BY <1>1 DEF TrackInv, PlacedInOrder
  <1>5. chunks[i].start = heard[i].start /\ chunks[i].end = heard[i].end
    BY <1>2 DEF WordsInv, Mirrors
  <1> QED
    BY <1>2, <1>3, <1>4, <1>5, ChunkTimes, Times

\* Every chunk is left alone when it fits, and is never made faster than
\* MAX_SPEEDUP otherwise, for every length of segments and of chunks.
THEOREM NaturalPaceAlways == Spec => []NaturalPace
  <1>1. TypeInv /\ WordsInv /\ TrackInv => NaturalPace
    <2> SUFFICES ASSUME TypeInv, WordsInv, TrackInv, NEW i \in DOMAIN track
                 PROVE  /\ chunks[i].audio <= Ticks * Window(chunks[i])
                              => track[i].length = Played(chunks[i].audio, 1000)
                        /\ \/ track[i].length = Whole(Window(chunks[i]))
                           \/ /\ track[i].length.num = 1000 * chunks[i].audio
                              /\ track[i].length.den \in (1000 * Ticks)..(1350 * Ticks)
      BY DEF NaturalPace
    <2>1. chunks[i] \in Chunk /\ track[i].length \in MayLast(hasRubberband, chunks[i])
      BY PlacedChunk
    <2> QED
      BY <2>1, LastingLength
  <1> QED
    BY <1>1, TrackAlways, PTL

\* No chunk of the track runs into a later one by more than a millisecond and one
\* part in two thousand of its window, for every length of segments and of chunks
\* and however fine the chunks' lengths are.
THEOREM AlmostApartAlways == Spec => []AlmostApart
  <1>1. TypeInv /\ WordsInv /\ TrackInv => AlmostApart
    <2> SUFFICES ASSUME TypeInv, WordsInv, TrackInv,
                        NEW i \in DOMAIN track, NEW j \in DOMAIN track, i < j
                 PROVE  \/ Overrun(i, j) <= 0
                        \/ 2000 * Overrun(i, j)
                              <= (2000 + Window(chunks[i])) * track[i].length.den
      BY DEF AlmostApart
    <2> DEFINE l == track[i].length
               window == Window(chunks[i])
               gap == track[j].start - track[i].start
    <2>1. /\ i \in 1..Len(heard) /\ j \in 1..Len(heard)
          /\ track[i].start = heard[i].start /\ track[j].start = heard[j].start
          /\ window = heard[i].end - heard[i].start
          /\ window \in Nat \ {0} /\ chunks[i] \in Chunk
          /\ l \in MayLast(hasRubberband, chunks[i])
      BY PlacedChunk
    <2>2. /\ heard[i].start \in Nat /\ heard[i].end \in Nat
          /\ heard[j].start \in Nat /\ heard[i].end <= heard[j].start
      BY <2>1, Times, ElementOfSeq DEF TypeInv, TrackInv, HeardApart
    <2>3. gap \in Int /\ window \in Int /\ window <= gap
      BY <2>1, <2>2
    <2>4. l \in Length /\ Fits(l, window)
      BY <2>1, LastingLength
    <2>5. Overrun(i, j) = l.num - gap * l.den
      BY DEF Overrun
    <2> HIDE DEF l, window, gap
    <2>6. l.num \in Nat /\ l.den \in Nat \ {0}
      BY <2>4 DEF Length
    <2>7. window * l.den <= gap * l.den
      BY <2>3, <2>6, Scaling
    <2>8. window * l.den \in Int /\ gap * l.den \in Int /\ (2000 + window) * l.den \in Int
      BY <2>3, <2>6
    <2>9. Overrun(i, j) <= 0 \/ 2000 * Overrun(i, j) <= (2000 + window) * l.den
      BY <2>4, <2>5, <2>6, <2>7, <2>8 DEF Fits
    <2> QED
      BY <2>9 DEF l, window
  <1> QED
    BY <1>1, TrackAlways, PTL

---------------------------------------------------------------------------
(* The speakers: after some turns, the best is the first of those with the *)
(* longest overlap among them.                                              *)

Attributed(segment, ts, n, speaker, longest) ==
    /\ \A u \in 1..n : Overlap(segment, ts[u]) <= longest
    /\ longest = 0 => speaker = Nobody
    /\ longest > 0 => \E t \in 1..n :
          /\ Overlap(segment, ts[t]) = longest /\ speaker = SpeakerId(ts, ts[t].label)
          /\ \A u \in 1..n : Overlap(segment, ts[u]) = longest => t <= u

SpeakersInv ==
    /\ phase = "transcribing" =>
          /\ Len(rows) = at - 1 /\ turn <= Len(turns) + 1
          /\ at <= Len(heard) =>
                Attributed(heard[at], turns, turn - 1, best, bestOverlap)
    /\ Len(rows) <= Len(heard)
    /\ \A i \in 1..Len(rows) : \E longest \in Nat :
          Attributed(heard[i], turns, Len(turns), rows[i].speaker, longest)

LEMMA OneMoreTurn ==
    ASSUME NEW segment \in Intervals, NEW ts \in Seq(Turns), NEW n \in Nat,
           n + 1 <= Len(ts), NEW speaker, NEW longest \in Nat,
           Attributed(segment, ts, n, speaker, longest)
    PROVE  IF Overlap(segment, ts[n + 1]) > longest
             THEN Attributed(segment, ts, n + 1, SpeakerId(ts, ts[n + 1].label),
                             Overlap(segment, ts[n + 1]))
             ELSE Attributed(segment, ts, n + 1, speaker, longest)
  <1> DEFINE O(u) == Overlap(segment, ts[u])
  <1>1. \A u \in 1..(n + 1) : O(u) \in Int
    <2> SUFFICES ASSUME NEW u \in 1..(n + 1) PROVE O(u) \in Int
      OBVIOUS
    <2>1. Len(ts) \in Nat
      BY LenProperties
    <2>2. ts[u] \in Turns
      BY <2>1, ElementOfSeq
    <2> QED
      BY <2>2, OverlapInt
  <1>2. /\ \A u \in 1..n : O(u) <= longest
        /\ longest = 0 => speaker = Nobody
        /\ longest > 0 => \E t \in 1..n :
              /\ O(t) = longest /\ speaker = SpeakerId(ts, ts[t].label)
              /\ \A u \in 1..n : O(u) = longest => t <= u
    BY DEF Attributed
  <1> HIDE DEF O
  <1>3. CASE O(n + 1) > longest
    <2>1. \A u \in 1..n : O(u) < O(n + 1)
      BY <1>1, <1>2, <1>3
    <2>2. \A u \in 1..(n + 1) : O(u) <= O(n + 1)
      BY <1>1, <2>1
    <2>3. \A u \in 1..(n + 1) : O(u) = O(n + 1) => n + 1 <= u
      BY <1>1, <2>1
    <2>4. O(n + 1) > 0 /\ n + 1 \in 1..(n + 1)
      BY <1>1, <1>3
    <2> QED
      BY <1>3, <2>2, <2>3, <2>4 DEF Attributed, O
  <1>4. CASE ~(O(n + 1) > longest)
    <2>1. \A u \in 1..(n + 1) : O(u) <= longest
      BY <1>1, <1>2, <1>4
    <2>2. ASSUME longest > 0
          PROVE  \E t \in 1..(n + 1) :
                    /\ O(t) = longest /\ speaker = SpeakerId(ts, ts[t].label)
                    /\ \A u \in 1..(n + 1) : O(u) = longest => t <= u
      <3>1. PICK t \in 1..n : /\ O(t) = longest /\ speaker = SpeakerId(ts, ts[t].label)
                              /\ \A u \in 1..n : O(u) = longest => t <= u
        BY <1>2, <2>2
      <3>2. \A u \in 1..(n + 1) : O(u) = longest => t <= u
        BY <3>1
      <3>3. t \in 1..(n + 1)
        OBVIOUS
      <3> QED
        BY <3>1, <3>2, <3>3
    <2> QED
      BY <1>2, <1>4, <2>1, <2>2 DEF Attributed, O
  <1> QED
    BY <1>3, <1>4 DEF O

\* Before any turn there is nobody.
LEMMA NobodyYet ==
    ASSUME NEW segment, NEW ts
    PROVE  Attributed(segment, ts, 0, Nobody, 0)
  BY DEF Attributed

LEMMA InitSpeakers == Init => SpeakersInv
  <1> SUFFICES ASSUME Init PROVE SpeakersInv
    OBVIOUS
  <1>1. /\ Len(<<>>) = 0 /\ Len(heard) \in Nat /\ Len(turns) \in Nat
    BY EmptySeq, InitTypeInv, LenProperties DEF TypeInv
  <1>2. Attributed(heard[at], turns, turn - 1, best, bestOverlap)
    BY NobodyYet DEF Init
  <1> QED
    BY <1>1, <1>2 DEF Init, SpeakersInv

LEMMA TurnSpeakers ==
    ASSUME TypeInv, SpeakersInv, AttributeTurn
    PROVE  SpeakersInv'
  <1>1. /\ heard' = heard /\ turns' = turns /\ rows' = rows /\ at' = at
        /\ phase = "transcribing" /\ phase' = phase /\ turn' = turn + 1
        /\ at \in Nat \ {0} /\ turn \in Nat \ {0} /\ bestOverlap \in Nat
        /\ at <= Len(heard) /\ turn <= Len(turns)
        /\ heard \in Seq(Intervals) /\ turns \in Seq(Turns)
    BY DEF AttributeTurn, input, results, TypeInv
  <1>2. heard[at] \in Intervals /\ Len(turns) \in Nat
    BY <1>1, ElementOfSeq, LenProperties
  <1>3. Attributed(heard[at], turns, turn - 1, best, bestOverlap)
    BY <1>1 DEF SpeakersInv
  <1>4. turn - 1 \in Nat /\ (turn - 1) + 1 = turn
    BY <1>1
  <1>5. IF Overlap(heard[at], turns[turn]) > bestOverlap
          THEN Attributed(heard[at], turns, turn, SpeakerId(turns, turns[turn].label),
                          Overlap(heard[at], turns[turn]))
          ELSE Attributed(heard[at], turns, turn, best, bestOverlap)
    <2> DEFINE n == turn - 1
    <2>1. n \in Nat /\ n + 1 = turn /\ n + 1 <= Len(turns)
      BY <1>1, <1>4
    <2>2. Attributed(heard[at], turns, n, best, bestOverlap)
      BY <1>3
    <2> HIDE DEF n
    <2>3. IF Overlap(heard[at], turns[n + 1]) > bestOverlap
            THEN Attributed(heard[at], turns, n + 1, SpeakerId(turns, turns[n + 1].label),
                            Overlap(heard[at], turns[n + 1]))
            ELSE Attributed(heard[at], turns, n + 1, best, bestOverlap)
      BY <1>1, <1>2, <2>1, <2>2, OneMoreTurn
    <2> QED
      BY <2>1, <2>3
  <1>6. Attributed(heard[at], turns, turn, best', bestOverlap')
    BY <1>5 DEF AttributeTurn
  <1>7. turn' - 1 = turn /\ turn' <= Len(turns) + 1
    BY <1>1, <1>2
  <1> QED
    BY <1>1, <1>6, <1>7 DEF SpeakersInv

LEMMA TranscribeSpeakers ==
    ASSUME TypeInv, SpeakersInv, TranscribeSegment
    PROVE  SpeakersInv'
  <1>1. /\ heard' = heard /\ turns' = turns
        /\ phase = "transcribing" /\ phase' = phase
        /\ at' = at + 1 /\ turn' = 1 /\ best' = Nobody /\ bestOverlap' = 0
        /\ at \in Nat \ {0} /\ turn \in Nat \ {0} /\ bestOverlap \in Nat
        /\ at <= Len(heard) /\ turn > Len(turns) /\ Len(turns) \in Nat
        /\ rows \in Seq(Row) /\ Len(rows) \in Nat
    BY LenProperties DEF TranscribeSegment, Advance, input, TypeInv
  <1>2. turn - 1 = Len(turns) /\ Len(rows) = at - 1
    BY <1>1 DEF SpeakersInv
  <1>3. Attributed(heard[at], turns, Len(turns), best, bestOverlap)
    BY <1>1, <1>2 DEF SpeakersInv
  <1> DEFINE row == [start |-> heard[at].start, end |-> heard[at].end,
                     speaker |-> best, text |-> Untranslated]
  <1>4. row \in Row
    <2>1. heard[at] \in Intervals
      BY <1>1, ElementOfSeq, LenProperties DEF TypeInv
    <2> QED
      BY <2>1, Times DEF Row, Untranslated, TypeInv
  <1>5. row.speaker = best /\ rows' = Append(rows, row)
    BY DEF TranscribeSegment
  <1> HIDE DEF row
  <1>6. Len(rows') = at
    BY <1>1, <1>2, <1>4, <1>5, AppendProperties
  <1>7. ASSUME NEW i \in 1..at
        PROVE  \E longest \in Nat :
                  Attributed(heard[i], turns, Len(turns), rows'[i].speaker, longest)
    <2>1. CASE i = at
      <3>1. rows'[at] = row
        BY <1>1, <1>2, <1>4, <1>5, AppendProperties
      <3> QED
        BY <1>1, <1>3, <1>5, <2>1, <3>1
    <2>2. CASE i \in 1..Len(rows)
      <3>1. rows'[i] = rows[i]
        BY <1>1, <1>4, <1>5, <2>2, AppendProperties
      <3> QED
        BY <2>2, <3>1 DEF SpeakersInv
    <2> QED
      BY <1>1, <1>2, <2>1, <2>2
  <1>8. Attributed(heard'[at'], turns', turn' - 1, best', bestOverlap')
    BY <1>1, NobodyYet
  <1>9. Len(rows') = at' - 1 /\ turn' <= Len(turns) + 1
    BY <1>1, <1>6
  <1> QED
    BY <1>1, <1>6, <1>7, <1>8, <1>9 DEF SpeakersInv

LEMMA StoreSpeakers ==
    ASSUME TypeInv, SpeakersInv, StoreTranslations
    PROVE  SpeakersInv'
  <1>1. /\ heard' = heard /\ turns' = turns /\ phase' = "synthesizing"
        /\ rows \in Seq(Row) /\ Len(rows) \in Nat
        /\ DOMAIN rows = 1..Len(rows)
    BY LenProperties DEF StoreTranslations, Enter, input, TypeInv
  <1>2. Len(rows') = Len(rows)
    <2>1. rows' \in Seq(Row)
      BY NextTypeInv DEF TypeInv, Next
    <2>2. Len(rows') \in Nat /\ DOMAIN rows' = 1..Len(rows')
      BY <2>1, LenProperties
    <2>3. DOMAIN rows' = 1..Len(rows)
      BY <1>1 DEF StoreTranslations
    <2> QED
      BY <1>1, <2>2, <2>3, SameBound
  <1>3. ASSUME NEW i \in 1..Len(rows) PROVE rows'[i].speaker = rows[i].speaker
    <2>1. rows[i] \in Row
      BY ElementOfSeq DEF TypeInv
    <2>2. rows'[i] = IF i \in DOMAIN translations
                       THEN [rows[i] EXCEPT !.text = translations[i]]
                       ELSE rows[i]
      BY <1>1 DEF StoreTranslations
    <2> QED
      BY <2>1, <2>2 DEF Row
  <1> QED
    BY <1>1, <1>2, <1>3 DEF SpeakersInv

LEMMA NextSpeakers == TypeInv /\ SpeakersInv /\ [Next]_vars => SpeakersInv'
  <1> SUFFICES ASSUME TypeInv, SpeakersInv, [Next]_vars PROVE SpeakersInv'
    OBVIOUS
  <1> USE DEF SpeakersInv
  <1>1. CASE AttributeTurn
    BY <1>1, TurnSpeakers
  <1>2. CASE TranscribeSegment
    BY <1>2, TranscribeSpeakers
  <1>3. CASE EndTranscription
    BY <1>3 DEF EndTranscription, Enter, input, results
  <1>4. CASE TranslateBatch
    BY <1>4 DEF TranslateBatch, Advance, Fail, input
  <1>5. CASE StoreTranslations
    BY <1>5, StoreSpeakers
  <1>6. CASE SynthesizeSegment
    BY <1>6 DEF SynthesizeSegment, Advance, Fail, input
  <1>7. CASE EndSynthesis
    BY <1>7 DEF EndSynthesis, Enter, input, results
  <1>8. CASE PlaceChunk
    BY <1>8 DEF PlaceChunk, Advance, input
  <1>9. CASE EndTrack
    BY <1>9 DEF EndTrack, Enter, input, results
  <1>10. CASE UNCHANGED vars
    BY <1>10 DEF vars, input, scan, results
  <1> QED
    BY <1>1, <1>2, <1>3, <1>4, <1>5, <1>6, <1>7, <1>8, <1>9, <1>10 DEF Next

\* Every row is given the speaker of the first turn that overlaps its segment
\* longest, and nobody when no turn does, for any number of turns.
THEOREM AttributedToMostAlways == Spec => []AttributedToMost
  <1>1. TypeInv /\ SpeakersInv => AttributedToMost
    <2> SUFFICES ASSUME TypeInv, SpeakersInv, NEW i \in DOMAIN rows
                 PROVE  IF Longest(i) = {}
                          THEN rows[i].speaker = Nobody
                          ELSE \E t \in Speaking(i) :
                                  rows[i].speaker = SpeakerId(turns, turns[t].label)
      BY DEF AttributedToMost
    <2> DEFINE O(u) == Overlap(heard[i], turns[u])
               N == Len(turns)
    <2>1. /\ i \in 1..Len(rows) /\ Len(rows) \in Nat /\ Len(heard) \in Nat
          /\ N \in Nat /\ DOMAIN turns = 1..N
      BY LenProperties DEF TypeInv
    <2>2. heard[i] \in Intervals
      <3>1. i \in 1..Len(heard)
        BY <2>1 DEF SpeakersInv
      <3> QED
        BY <3>1, ElementOfSeq DEF TypeInv
    <2>3. ASSUME NEW u \in 1..N PROVE O(u) \in Int
      <3>1. turns[u] \in Turns
        BY <2>1, ElementOfSeq DEF TypeInv
      <3> QED
        BY <2>2, <3>1, OverlapInt
    <2>4. Longest(i) = {t \in 1..N : /\ O(t) > 0
                                     /\ \A u \in 1..N : O(u) <= O(t)}
      BY <2>1 DEF Longest
    <2>5. PICK longest \in Nat : Attributed(heard[i], turns, N, rows[i].speaker, longest)
      BY <2>1 DEF SpeakersInv
    <2>6. /\ \A u \in 1..N : O(u) <= longest
          /\ longest = 0 => rows[i].speaker = Nobody
          /\ longest > 0 => \E t \in 1..N :
                /\ O(t) = longest /\ rows[i].speaker = SpeakerId(turns, turns[t].label)
                /\ \A u \in 1..N : O(u) = longest => t <= u
      BY <2>5 DEF Attributed
    <2> HIDE DEF O, N
    <2>7. CASE longest = 0
      <3>1. Longest(i) = {}
        BY <2>3, <2>4, <2>6, <2>7
      <3> QED
        BY <2>6, <2>7, <3>1
    <2>8. CASE longest > 0
      <3>1. PICK t \in 1..N : /\ O(t) = longest
                              /\ rows[i].speaker = SpeakerId(turns, turns[t].label)
                              /\ \A u \in 1..N : O(u) = longest => t <= u
        BY <2>6, <2>8
      <3>2. t \in Longest(i)
        BY <2>3, <2>4, <2>6, <2>8, <3>1
      <3>3. ASSUME NEW u \in Longest(i) PROVE t <= u
        <4>1. u \in 1..N /\ O(t) <= O(u) /\ O(u) <= longest
          BY <2>4, <2>6
        <4>2. O(u) = longest
          BY <2>3, <3>1, <4>1
        <4> QED
          BY <3>1, <4>1, <4>2
      <3> QED
        BY <3>1, <3>2, <3>3 DEF Speaking
    <2> QED
      BY <2>7, <2>8
  <1>2. Spec => []SpeakersInv
    BY InitSpeakers, NextSpeakers, TypeCorrect, PTL DEF Spec
  <1> QED
    BY <1>1, <1>2, TypeCorrect, PTL

---------------------------------------------------------------------------
(* The voices: a chunk has its row's, or the first.                         *)

VoicesInv ==
    /\ Len(chunks) <= Len(rows)
    /\ \A i \in 1..Len(chunks) : chunks[i].voice \in {Voice(rows[i].speaker), 0}

\* The speakers of the rows are what they were while the chunks are made.
LEMMA SynthesizeVoices ==
    ASSUME TypeInv, WordsInv, VoicesInv, SynthesizeSegment
    PROVE  VoicesInv'
  <1>1. /\ rows' = rows /\ chunks \in Seq(Chunk) /\ Len(rows) \in Nat
        /\ at \in Nat \ {0} /\ at <= Len(rows) /\ Len(chunks) = at - 1
    BY LenProperties DEF SynthesizeSegment, TypeInv, WordsInv
  <1>2. CASE UNCHANGED chunks
    BY <1>1, <1>2 DEF VoicesInv
  <1>3. ASSUME NEW chunk \in Chunk, chunks' = Append(chunks, chunk),
               chunk.voice \in {Voice(rows[at].speaker), 0}
        PROVE  VoicesInv'
    <2>1. Len(chunks') = at
      BY <1>1, <1>3, AppendProperties
    <2>2. ASSUME NEW i \in 1..at
          PROVE  chunks'[i].voice \in {Voice(rows[i].speaker), 0}
      <3>1. CASE i = at
        BY <1>1, <1>3, <3>1, AppendProperties
      <3>2. CASE i \in 1..Len(chunks)
        <4>1. chunks'[i] = chunks[i]
          BY <1>1, <1>3, <3>2, AppendProperties
        <4> QED
          BY <3>2, <4>1 DEF VoicesInv
      <3> QED
        BY <1>1, <3>1, <3>2
    <2>3. \A i \in 1..Len(chunks') : chunks'[i].voice \in {Voice(rows'[i].speaker), 0}
      BY <1>1, <2>1, <2>2
    <2> QED
      BY <1>1, <2>1, <2>3 DEF VoicesInv, Voice
  <1>4. ASSUME NEW audio \in AudioLengths,
               NEW voice \in {Voice(rows[at].speaker), 0},
               chunks' = Append(chunks,
                 [start |-> rows[at].start, end |-> rows[at].end,
                  says  |-> IF rows[at].text = Untranslated THEN at
                                                            ELSE rows[at].text,
                  voice |-> voice, audio |-> audio])
        PROVE  VoicesInv'
    <2> DEFINE chunk == [start |-> rows[at].start, end |-> rows[at].end,
                         says  |-> IF rows[at].text = Untranslated THEN at
                                                                   ELSE rows[at].text,
                         voice |-> voice, audio |-> audio]
    <2>1. chunk \in Chunk
      <3>1. at \in 1..Len(rows)
        BY <1>1
      <3> QED
        BY <1>4, <3>1, SynthesizedChunk
    <2>2. chunk.voice \in {Voice(rows[at].speaker), 0} /\ chunks' = Append(chunks, chunk)
      BY <1>4
    <2> HIDE DEF chunk
    <2> QED
      BY <1>3, <2>1, <2>2
  <1> QED
    BY <1>2, <1>4 DEF SynthesizeSegment

LEMMA NextVoices ==
    TypeInv /\ WordsInv /\ SpeakersInv /\ VoicesInv /\ [Next]_vars => VoicesInv'
  <1> SUFFICES ASSUME TypeInv, WordsInv, SpeakersInv, VoicesInv, [Next]_vars
               PROVE  VoicesInv'
    OBVIOUS
  <1>1. ASSUME chunks = <<>>, UNCHANGED chunks, Len(rows') \in Nat
        PROVE  VoicesInv'
    BY <1>1, EmptySeq DEF VoicesInv
  <1>2. Len(rows') \in Nat
    <2>1. rows' \in Seq(Row)
      BY NextTypeInv DEF TypeInv
    <2> QED
      BY <2>1, LenProperties
  <1>3. CASE TranscribeSegment \/ StoreTranslations
    <2>1. chunks = <<>> /\ UNCHANGED chunks
      BY <1>3 DEF TranscribeSegment, StoreTranslations, WordsInv
    <2> QED
      BY <1>1, <1>2, <2>1
  <1>4. CASE SynthesizeSegment
    BY <1>4, SynthesizeVoices
  <1>5. ASSUME UNCHANGED <<rows, chunks>> PROVE VoicesInv'
    BY <1>5 DEF VoicesInv, Voice
  <1>6. CASE AttributeTurn
    BY <1>5, <1>6 DEF AttributeTurn, results
  <1>7. CASE EndTranscription
    BY <1>5, <1>7 DEF EndTranscription, results
  <1>8. CASE TranslateBatch
    BY <1>5, <1>8 DEF TranslateBatch
  <1>9. CASE EndSynthesis
    BY <1>5, <1>9 DEF EndSynthesis, results
  <1>10. CASE PlaceChunk
    BY <1>5, <1>10 DEF PlaceChunk
  <1>11. CASE EndTrack
    BY <1>5, <1>11 DEF EndTrack, results
  <1>12. CASE UNCHANGED vars
    BY <1>5, <1>12 DEF vars, results
  <1> QED
    BY <1>3, <1>4, <1>6, <1>7, <1>8, <1>9, <1>10, <1>11, <1>12 DEF Next

\* Whatever the labels of the diarization and however many turns there are,
\* the chunks of one label have one voice, and those of two labels have two
\* while there are voices enough.
THEOREM VoicesAlwaysTellApart == Spec => []VoicesTellApart
  <1>1. TypeInv /\ AttributedToMost /\ VoicesInv => VoicesTellApart
    <2> SUFFICES ASSUME TypeInv, AttributedToMost, VoicesInv,
                        NEW i \in DOMAIN chunks, NEW j \in DOMAIN chunks,
                        NEW t \in Speaking(i), NEW u \in Speaking(j),
                        NotFallenBack(i), NotFallenBack(j)
                 PROVE  /\ turns[t].label = turns[u].label => chunks[i].voice = chunks[j].voice
                        /\ (/\ turns[t].label # turns[u].label
                            /\ Cardinality(FirstTurns(turns)) <= PoolSize)
                              => chunks[i].voice # chunks[j].voice
      BY DEF VoicesTellApart
    <2>1. /\ DOMAIN chunks = 1..Len(chunks) /\ Len(chunks) \in Nat
          /\ DOMAIN rows = 1..Len(rows) /\ Len(rows) \in Nat
          /\ Len(chunks) <= Len(rows) /\ turns \in Seq(Turns)
      BY LenProperties DEF TypeInv, VoicesInv
    <2>2. i \in DOMAIN rows /\ j \in DOMAIN rows
      BY <2>1
    <2>3. /\ chunks[i].voice = Voice(rows[i].speaker)
          /\ chunks[j].voice = Voice(rows[j].speaker)
      BY <2>1 DEF VoicesInv, NotFallenBack
    <2>4. ASSUME NEW k \in DOMAIN rows, NEW v \in Speaking(k)
          PROVE  v \in DOMAIN turns /\ rows[k].speaker = SpeakerId(turns, turns[v].label)
      <3>1. v \in Longest(k) /\ \A w \in Longest(k) : v <= w
        BY <2>4 DEF Speaking
      <3>2. PICK w \in Speaking(k) : rows[k].speaker = SpeakerId(turns, turns[w].label)
        BY <3>1 DEF AttributedToMost
      <3>3. w \in Longest(k) /\ w <= v /\ v <= w
        BY <3>1, <3>2 DEF Speaking
      <3>4. v \in Nat /\ w \in Nat /\ v \in DOMAIN turns
        BY <2>1, <3>1, <3>3, LenProperties DEF Longest
      <3> QED
        BY <3>2, <3>3, <3>4
    <2>5. PICK a \in Nat : a = SpeakerId(turns, turns[t].label)
      BY SpeakerIdType
    <2>6. PICK b \in Nat : b = SpeakerId(turns, turns[u].label)
      BY SpeakerIdType
    <2>7. chunks[i].voice = a % PoolSize /\ chunks[j].voice = b % PoolSize
      BY <2>2, <2>3, <2>4, <2>5, <2>6 DEF Voice, Nobody
    <2>8. turns[t].label = turns[u].label => a = b
      BY <2>5, <2>6
    <2>9. ASSUME turns[t].label # turns[u].label,
                 Cardinality(FirstTurns(turns)) <= PoolSize
          PROVE  a % PoolSize # b % PoolSize
      <3>1. t \in DOMAIN turns /\ u \in DOMAIN turns
        BY <2>2, <2>4
      <3>2. a # b
        BY <2>1, <2>5, <2>6, <2>9, <3>1, SpeakerIdInjective
      <3>3. PICK n \in Nat : n = Cardinality(FirstTurns(turns))
        BY <2>1, FirstTurnsFinite, FS_CardinalityType
      <3>4. a < n /\ b < n
        BY <2>1, <2>5, <2>6, <3>1, <3>3, SpeakerIdBelow
      <3>5. a < PoolSize /\ b < PoolSize
        BY <2>9, <3>3, <3>4, SizesAssumption
      <3>6. \A p \in Nat \ {0} : \A x \in Nat : x < p => x % p = x
        OBVIOUS
      <3> QED
        BY <3>2, <3>5, <3>6, SizesAssumption
    <2> QED
      BY <2>7, <2>8, <2>9
  <1>2. Init => VoicesInv
    BY EmptySeq DEF Init, VoicesInv
  <1>3. Spec => []SpeakersInv
    BY InitSpeakers, NextSpeakers, TypeCorrect, PTL DEF Spec
  <1>4. Spec => []VoicesInv
    BY <1>2, <1>3, NextVoices, InitWords, NextWords, TypeCorrect, PTL DEF Spec
  <1> QED
    BY <1>1, <1>4, TypeCorrect, AttributedToMostAlways, PTL

===========================================================================
