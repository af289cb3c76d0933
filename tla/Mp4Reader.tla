------------------------------ MODULE Mp4Reader ------------------------------
(***************************************************************************)
(* How the muxer's small fragments become HLS segments                     *)
(* (crates/rustorr-gstreamer/src/mp4box.rs Reader; pipeline.rs calls it).  *)
(*                                                                         *)
(* A fragment is one moof and its mdat, of one track; a buffer pushed to   *)
(* the reader holds some of them.  A sample is its number in its track,    *)
(* whether it is a sync sample and how long it lasts; one sample is one    *)
(* unit of payload.  Both tracks tick in the same unit, and the sizes and  *)
(* the syntax of boxes are left out, as is the cue mode.                   *)
(***************************************************************************)
EXTENDS Integers, SequencesExt

CONSTANTS
    Shapes,     \* track -> the fragments its muxer makes: sequences of [sync, dur]
    Buffers,    \* how many fragments a buffer may hold: a set of numbers
    Seconds,    \* segment_seconds
    Diff,       \* segment_diff
    MaxGop,     \* the longest time between sync samples
    MaxTime     \* bound: how much of a track is made

Tracks == {"video", "audio"}

ASSUME MuxerConstants ==
    /\ \A t \in Tracks : Shapes[t] \subseteq Seq([sync : BOOLEAN, dur : Nat]) \ {<<>>}
    /\ Buffers \subseteq Nat \ {0}

VARIABLES
    reader,     \* the Reader
    taken,      \* the last segment that was taken
    made,       \* track -> the samples muxed so far
    clock,      \* track -> the time they last
    gop,        \* the time since the last sync sample
    sent,       \* track -> the samples in segments so far
    ended       \* the muxer reached the end of the stream

muxVars == <<reader, taken, made, clock, gop, sent, ended>>

Duration(samples) ==
    LET upTo[i \in 0 .. Len(samples)] == IF i = 0 THEN 0 ELSE upTo[i - 1] + samples[i].dur
    IN  upTo[Len(samples)]

\* Fragment::end_time.
EndTime(f) == f.time + Duration(f.samples)

NoSegment == [final |-> FALSE, video |-> <<>>, audio |-> <<>>, media |-> <<>>]

Silent == Shapes["audio"] = {}

MuxInit ==
    /\ reader = [video |-> <<>>, audio |-> <<>>, payload |-> <<>>, deferred |-> <<>>,
                 hint |-> [t \in Tracks |-> 0], completed |-> 0, lastEnd |-> 0,
                 failed |-> FALSE, built |-> NoSegment]
    /\ taken = NoSegment
    /\ made = [t \in Tracks |-> 0]
    /\ clock = [t \in Tracks |-> 0]
    /\ gop = 0
    /\ sent = [t \in Tracks |-> 0]
    /\ ended = FALSE

-----------------------------------------------------------------------------
(* A fragment arrives. *)

\* Faulty variant: the guess is taken for the truth.
Resolved_KeepsGuess(queue, time) ==
    IF queue = <<>> THEN queue ELSE [queue EXCEPT ![Len(queue)].guess = FALSE]

\* resolve_previous_inferred_duration: the next fragment of the track says how
\* long the last sample before it really was.
Resolved(queue, time) ==
    IF queue = <<>> \/ ~Last(queue).guess THEN queue
    ELSE LET f == Last(queue)
             n == Len(f.samples)
             start == EndTime(f) - f.samples[n].dur
         IN  [queue EXCEPT ![Len(queue)] =
                [f EXCEPT !.samples[n].dur = time - start, !.guess = FALSE]]

\* complete_moof and complete_mdat.
Queued(rd, f) ==
    LET queue == Append(Resolved(rd[f.track], f.time),
                        [samples |-> f.samples, time |-> f.time, guess |-> f.guess,
                         start |-> Len(rd.payload)])
        before == IF Len(queue) > 1 /\ rd[f.track] # <<>> /\ Last(rd[f.track]).guess
                  THEN Last(queue[Len(queue) - 1].samples).dur ELSE rd.hint[f.track]
    IN  [rd EXCEPT ![f.track] = queue,
                   !.payload = @ \o [i \in 1 .. Len(f.samples) |-> <<f.track, f.samples[i].n>>],
                   !.hint[f.track] = IF f.guess THEN before ELSE Last(f.samples).dur]

-----------------------------------------------------------------------------
(* What makes a segment. *)

\* The segments so far ran too long: the next one ends at the first chance.
CatchingUp(rd) ==
    LET expected == rd.completed * Seconds IN
    /\ rd.completed > 0 /\ Diff > 0
    /\ rd.lastEnd > expected
    /\ rd.lastEnd - expected >= Seconds + Diff

\* select_video_count: the fragments up to a sync sample, as many as fill the
\* target, or 0.
SelectVideo(rd) ==
    LET length(i) == EndTime(rd.video[i]) - rd.video[1].time
        boundaries == {i \in 1 .. Len(rd.video) - 1 : rd.video[i + 1].samples[1].sync}
        long == {i \in boundaries : length(i) >= Seconds}
        short == {i \in boundaries : length(i) <= Seconds}
        overrun == \E i \in 1 .. Len(rd.video) - 1 : length(i) > Seconds
    IN  IF ~CatchingUp(rd) THEN IF long = {} THEN 0 ELSE Min(long)
        ELSE IF \E i \in boundaries : length(i) = Seconds
        THEN CHOOSE i \in boundaries : length(i) = Seconds
        ELSE IF ~overrun THEN 0
        ELSE IF short # {} THEN Max(short)
        ELSE IF long # {} THEN Min(long) ELSE 0

\* split_fragment_at_sample.
Split(f, n) ==
    << [f EXCEPT !.samples = SubSeq(@, 1, n), !.guess = FALSE],
       [f EXCEPT !.samples = SubSeq(@, n + 1, Len(@)), !.guess = FALSE,
                 !.time = @ + Duration(SubSeq(f.samples, 1, n)), !.start = @ + n] >>

\* select_audio_count, first: the fragment and the sample of it that reach the
\* end of the video.
AudioCut(rd, videoEnd) ==
    {c \in UNION {{i} \X (1 .. Len(rd.audio[i].samples)) : i \in 1 .. Len(rd.audio)} :
       LET f == rd.audio[c[1]]
           upTo(m) == f.time + Duration(SubSeq(f.samples, 1, m))
       IN  upTo(c[2]) >= videoEnd /\ \A m \in 1 .. c[2] - 1 : upTo(m) < videoEnd}

\* select_audio_count: that fragment is split there, and is the last one taken.
SelectAudio(rd, videoEnd) ==
    LET cuts == AudioCut(rd, videoEnd) IN
    IF cuts = {} THEN [audio |-> rd.audio, count |-> 0]
    ELSE LET i == Min({c[1] : c \in cuts})
             n == (CHOOSE c \in cuts : c[1] = i)[2]
             f == rd.audio[i]
         IN  [audio |-> IF n = Len(f.samples) THEN rd.audio
                        ELSE SubSeq(rd.audio, 1, i - 1) \o Split(f, n)
                               \o SubSeq(rd.audio, i + 1, Len(rd.audio)),
              count |-> i]

\* reclaim_payloads: what no queued fragment needs is dropped from the front.
Reclaimed(rd) ==
    LET starts == {rd.video[i].start : i \in 1 .. Len(rd.video)}
                    \cup {rd.audio[i].start : i \in 1 .. Len(rd.audio)}
        moved(queue) == [i \in 1 .. Len(queue) |-> [queue[i] EXCEPT !.start = @ - Min(starts)]]
    IN  IF starts = {} THEN [rd EXCEPT !.payload = <<>>]
        ELSE [rd EXCEPT !.payload = SubSeq(@, Min(starts) + 1, Len(@)),
                        !.video = moved(@), !.audio = moved(@)]

\* validate_track: each fragment starts where the one before it ends.
Mergeable(queue) ==
    \A i \in 1 .. Len(queue) - 1 : queue[i + 1].time = EndTime(queue[i])

Media(rd, queue) ==
    FlattenSeq([i \in 1 .. Len(queue) |->
      SubSeq(rd.payload, queue[i].start + 1, queue[i].start + Len(queue[i].samples))])
SamplesOf(queue) == FlattenSeq([i \in 1 .. Len(queue) |-> queue[i].samples])

\* build_segment: the first fragments of both tracks.
BuildSegment(rd, v, a, final) ==
    LET video == SubSeq(rd.video, 1, v)
        audio == SubSeq(rd.audio, 1, a)
    IN  IF ~Mergeable(video) \/ ~Mergeable(audio) THEN [rd EXCEPT !.failed = TRUE]
        ELSE Reclaimed(
          [rd EXCEPT !.built = [final |-> final, video |-> SamplesOf(video), audio |-> SamplesOf(audio),
                                media |-> Media(rd, video) \o Media(rd, audio)],
                     !.lastEnd = IF v > 0 THEN EndTime(video[v]) ELSE @,
                     !.completed = IF v > 0 THEN @ + 1 ELSE @,
                     !.video = SubSeq(@, v + 1, Len(@)),
                     !.audio = SubSeq(@, a + 1, Len(@))])

\* try_build_segment: a segment of video, and of audio where the file has it; a
\* stream that does not start with a sync sample cannot be cut.
TryBuild(rd) ==
    IF rd.video # <<>> /\ ~rd.video[1].samples[1].sync THEN [rd EXCEPT !.failed = TRUE]
    ELSE LET v == SelectVideo(rd) IN
         IF v = 0 THEN rd
         ELSE IF Silent THEN BuildSegment(rd, v, 0, FALSE)
         ELSE LET chosen == SelectAudio(rd, EndTime(rd.video[v])) IN
              IF chosen.count = 0 THEN rd
              ELSE BuildSegment([rd EXCEPT !.audio = chosen.audio], v, chosen.count, FALSE)

Stopped(rd) == rd.failed \/ rd.built # NoSegment

\* process_bytes: fragments up to the one that completes a segment; the others
\* stay deferred.  (A reader that failed is reset before it is used again.)
Arrived(rd, f) ==
    IF Stopped(rd) THEN [rd EXCEPT !.deferred = Append(@, f)] ELSE TryBuild(Queued(rd, f))
Process(rd, fragments) ==
    LET after[i \in 0 .. Len(fragments)] ==
          IF i = 0 THEN rd ELSE Arrived(after[i - 1], fragments[i])
    IN  after[Len(fragments)]

\* push: a segment of what is queued already, then what was deferred, then the
\* new bytes; what comes after the one that completes a segment is deferred.
PushedBytes(rd, fragments) ==
    Process([TryBuild(rd) EXCEPT !.deferred = <<>>], rd.deferred \o fragments)

\* try_process_deferred: the same without new bytes.
ProcessDeferred(rd) == PushedBytes(rd, <<>>)

\* try_build_end_of_stream_remainder: all that is left, even of one track; audio
\* beyond the end of the last video is given up.
Remainder(rd) ==
    IF (rd.video = <<>> /\ rd.audio = <<>>) \/ (rd.video # <<>> /\ ~rd.video[1].samples[1].sync)
    THEN rd
    ELSE LET v == Len(rd.video)
             chosen == IF v = 0 \/ rd.audio = <<>> THEN [audio |-> rd.audio, count |-> 0]
                       ELSE SelectAudio(rd, EndTime(rd.video[v]))
             a == IF chosen.count > 0 THEN chosen.count ELSE Len(rd.audio)
             done == BuildSegment([rd EXCEPT !.audio = chosen.audio], v, a, TRUE)
         IN  IF v > 0 /\ ~done.failed THEN [done EXCEPT !.audio = <<>>, !.payload = <<>>] ELSE done

-----------------------------------------------------------------------------
(* The pipeline: the muxer's buffers, and the segment each one completes. *)

\* collect_reader_output: the segment is taken.
Took(rd) ==
    /\ reader' = [rd EXCEPT !.built = NoSegment]
    /\ taken' = IF rd.built = NoSegment THEN taken ELSE rd.built
    /\ sent' = [t \in Tracks |-> sent[t] + Len(rd.built[t])]

\* A track's next fragment: where its muxer is, and whether the length of its
\* last sample is left to the one before it.
Fragment(track, shape, time, first, guess, hint) ==
    [track |-> track, time |-> time, guess |-> guess,
     samples |-> [i \in 1 .. Len(shape) |->
                    [n |-> first + i, sync |-> shape[i].sync,
                     dur |-> IF guess /\ i = Len(shape) THEN hint ELSE shape[i].dur]]]

\* One buffer with one fragment or more of a track.
Push(track, shapes, guess) ==
    /\ ~ended /\ ~reader.failed
    /\ LET all == FlattenSeq(shapes)
           offset(i) == Duration(FlattenSeq(SubSeq(shapes, 1, i - 1)))
           count(i) == Len(FlattenSeq(SubSeq(shapes, 1, i - 1)))
       IN  /\ clock[track] + Duration(all) <= MaxTime
           /\ guess => /\ reader.hint[track] > 0 /\ reader.deferred = <<>>
                       /\ Len(shapes[1]) = 1
           /\ \E now \in {PushedBytes(reader,
                [i \in 1 .. Len(shapes) |->
                   Fragment(track, shapes[i], clock[track] + offset(i), made[track] + count(i),
                            guess /\ i = 1, reader.hint[track])])} : Took(now)
           /\ clock' = [clock EXCEPT ![track] = @ + Duration(all)]
           /\ made' = [made EXCEPT ![track] = @ + Len(all)]
           /\ IF track = "video"
              THEN /\ gop' = LET syncs == {i \in 1 .. Len(all) : all[i].sync} IN
                        IF syncs = {} THEN gop + Duration(all)
                        ELSE Duration(SubSeq(all, Max(syncs), Len(all)))
                   /\ \A i \in 1 .. Len(all) :
                        LET syncs == {j \in 1 .. i : all[j].sync} IN
                        MaxGop >= IF syncs = {} THEN gop + Duration(SubSeq(all, 1, i))
                                  ELSE Duration(SubSeq(all, Max(syncs), i))
              ELSE UNCHANGED gop
    /\ UNCHANGED ended

\* The end of the stream; each request after it drains one more segment.
EndOfStream ==
    /\ ~ended /\ ~reader.failed
    /\ ended' = TRUE
    /\ UNCHANGED <<reader, taken, made, clock, gop, sent>>

\* drain_end_of_stream.
Drain ==
    /\ ended /\ ~reader.failed
    /\ \E now \in {ProcessDeferred(reader)} :
       \E done \in {IF Stopped(now) THEN now ELSE Remainder(now)} : Took(done)
    /\ UNCHANGED <<made, clock, gop, ended>>

MuxNext ==
    \/ \E track \in Tracks, guess \in BOOLEAN : \E n \in Buffers :
         \E shapes \in [1 .. n -> Shapes[track]] : Push(track, shapes, guess)
    \/ EndOfStream
    \/ Drain

MuxSpec == MuxInit /\ [][MuxNext]_muxVars

-----------------------------------------------------------------------------
(* Properties. *)

MuxTypeOK ==
    /\ reader.completed \in 0 .. MaxTime /\ reader.lastEnd \in 0 .. MaxTime + MaxGop
    /\ reader.failed \in BOOLEAN /\ ended \in BOOLEAN
    /\ \A t \in Tracks : sent[t] <= made[t] /\ clock[t] \in 0 .. MaxTime

Unsent(t) == SamplesOf(reader[t]) \o
    FlattenSeq([i \in 1 .. Len(reader.deferred) |->
      IF reader.deferred[i].track = t THEN reader.deferred[i].samples ELSE <<>>])

\* Nothing of the film is lost, repeated or put in another order on the way through
\* splits, deferred buffers and segments: what waits is just what was muxed after
\* the last sample sent (mp4box.rs:338-384, 930-948, 1137-1148); only at the end
\* of the stream is audio given up (mp4box.rs:408-410).
NothingLost ==
    ~ended => \A t \in Tracks :
      /\ sent[t] + Len(Unsent(t)) = made[t]
      /\ \A i \in 1 .. Len(Unsent(t)) : Unsent(t)[i].n = sent[t] + i

\* A segment's media are the samples it lists, however often the payload store
\* was cut and moved under the fragments that wait (mp4box.rs:1110-1124, 1181-1206).
MediaMatches ==
    taken.media = [i \in 1 .. Len(taken.video) |-> <<"video", taken.video[i].n>>]
                    \o [i \in 1 .. Len(taken.audio) |-> <<"audio", taken.audio[i].n>>]

\* Lengths that were guessed are right by the time they are used: the fragments
\* of a track queued for a segment follow each other without a gap, so
\* validate_track never stops the film (mp4box.rs:738-796, 1387-1408).
Contiguous == Mergeable(reader.video) /\ Mergeable(reader.audio)

MediaContiguous == NothingLost /\ MediaMatches /\ Contiguous
=============================================================================
