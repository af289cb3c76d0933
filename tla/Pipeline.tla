------------------------------ MODULE Pipeline ------------------------------
(***************************************************************************)
(* The GStreamer pipeline of an HLS task and the subtitles collected from   *)
(* it (rustorr-gstreamer/src/pipeline.rs GstRunner, subtitles.rs Store,     *)
(* service.rs Task::subtitle_vtt).                                          *)
(*                                                                         *)
(* The task's mutex lets one operation of the runner run at a time.  While  *)
(* it runs, GStreamer's threads produce samples, cues and messages, and     *)
(* requests for subtitles wait on the store that the runner has published,  *)
(* outside the mutex.  Time is counted in units, SegmentLength of them in   *)
(* a segment; the video of a unit is one sample, and a buffer of subtitles  *)
(* is one cue, with the film's clock.  The task follows no cue timeline.    *)
(***************************************************************************)
EXTENDS Integers, Sequences, FiniteSets

CONSTANTS
    SegmentLength,
    FilmLength,
    KeyUnits,       \* the units that begin with a key frame, 0 among them
    Cues,       \* [start, end]
    Ahead,      \* samples that GStreamer has ready at most
    EosBackoff, \* how long before its end a film may end
    Segments,   \* what is asked for
    CueSegments,    \* those whose subtitles are asked for
    Readers,    \* requests for subtitles
    MaxOperations, MaxFaults,   \* bounds; a fault counts as an operation too
    MaxStores,
    Null

\* What Null is not.
Reader == [offset : Nat, got : Seq(Nat)]
Probe == [actual : Nat \cup {Null}, first : BOOLEAN]
MediaSegment == [start : Nat, content : Seq(Nat)]
State ==
    [playing : BOOLEAN, at : Nat, out : Seq(Nat), subs : SUBSET Cues,
     bus : SUBSET {"async", "eos", "error"}, eos : BOOLEAN]
Operation ==
    [is : {"init", "segment", "seek"}, index : Segments, to : Nat, via : {"seek", "start", ""},
     at : {"launch", "seek", "flush", "arrive", "pull"}]

ASSUME PipelineConstants ==
    /\ SegmentLength \in Nat \ {0} /\ FilmLength \in Nat /\ EosBackoff \in Nat
    /\ CueSegments \subseteq Segments /\ Segments \subseteq Nat
    /\ KeyUnits \subseteq 0 .. FilmLength - 1
    /\ Cues \subseteq [start : Nat, end : Nat] /\ IsFiniteSet(Cues)
    /\ \A c \in Cues : c.start < c.end
    /\ Null \notin Nat \cup Reader \cup Probe \cup MediaSegment \cup State \cup Operation

VARIABLES
    runner,     \* GstRunner
    gst,        \* its pipeline, or Null
    init,       \* TaskInfo has an init segment
    op,         \* the operation under way, or Null
    stores,     \* by number, the subtitle stores made so far
    published,  \* the number of the one in TaskInfo, or 0
    disposed,   \* the task is, or is about to be
    cueRequest,    \* requests for subtitles
    yielded,    \* history: the last media segment made since the pipeline was moved
    reads,      \* history: the units that were read since the store was made
    strayed,    \* history: a buffer of before a seek was taken for the first after it,
                \* since the store was made: "never", at a seek "before", or at the last, "now"
    begun, faults

historyVars == <<yielded, reads, strayed>>
pipeVars ==
    <<runner, gst, init, op, stores, published, disposed, cueRequest, historyVars, begun, faults>>

Start(index) == index * SegmentLength

Lesser(a, b) == IF a < b THEN a ELSE b
Greater(a, b) == IF a > b THEN a ELSE b

-----------------------------------------------------------------------------
(* The store. *)

NewStore == [cues |-> {}, readTo |-> 0, version |-> 0]

\* set_video_read_to.
SetReadTo(store, value) ==
    IF store.readTo = value THEN store
    ELSE [store EXCEPT !.readTo = value, !.version = @ + 1]

\* advance_video_read_to.
Advance(store, value) == IF value > store.readTo THEN SetReadTo(store, value) ELSE store

\* append_vtt: what lies before the seek by more than a segment is on a clock that
\* started again at the seek.
Placed(cue, seek) ==
    IF seek > 0 /\ cue.start < seek - SegmentLength
    THEN [start |-> cue.start + seek, end |-> cue.end + seek] ELSE cue

AppendAll(store, cues, seek) ==
    IF cues = {} THEN store
    ELSE [store EXCEPT !.cues = @ \cup {Placed(c, seek) : c \in cues},
                       !.version = @ + Cardinality(cues)]

\* subtitle_range, of a film of known length.
From(segment) == Start(segment)
To(segment) ==
    IF From(segment) >= FilmLength THEN From(segment)
    ELSE Lesser(From(segment) + SegmentLength, FilmLength)

\* render: the cues, cut to the segment and counted from its start.
Render(store, segment) ==
    {[start |-> Greater(c.start, From(segment)) - From(segment),
      end |-> Lesser(c.end, To(segment)) - From(segment)] :
       c \in {d \in store.cues : d.end > From(segment) /\ d.start < To(segment)}}

ReadyFor(store, segment) == To(segment) <= From(segment) \/ store.readTo >= To(segment)

-----------------------------------------------------------------------------
(* The runner. *)

Segment(start, content) == [start |-> start, content |-> content]

New ==
    [playing |-> FALSE, frozen |-> FALSE, index |-> 0, ready |-> Null, position |-> 0,
     seekAt |-> 0, probe |-> Null, reader |-> Null, gone |-> FALSE]

NoReader == [offset |-> 0, got |-> <<>>]

\* GStreamer's pipeline before it has run.
BuiltPipeline == [playing |-> FALSE, at |-> 0, out |-> <<>>, subs |-> {}, bus |-> {}, eos |-> FALSE]

Current == stores[published]

PipeTypeOK ==
    /\ runner.position \in Int /\ runner.playing \in BOOLEAN /\ runner.frozen \in BOOLEAN
    /\ gst # Null => gst.at \in 0 .. FilmLength /\ Len(gst.out) <= Ahead
    /\ op # Null => op.at \in {"launch", "seek", "flush", "arrive", "pull"}
    /\ published \in 0 .. Len(stores)
    /\ disposed \in BOOLEAN
    /\ \A r \in Readers : cueRequest[r].at \in {"idle", "subscribe", "render", "wait", "answered"}
    /\ reads \subseteq 0 .. FilmLength - 1 /\ strayed \in {"never", "before", "now"}

\* create_runner: the store is there before the first request.
PipeInit ==
    /\ runner = [New EXCEPT !.reader = NoReader]
    /\ gst = Null /\ init = FALSE /\ op = Null
    /\ stores = <<NewStore>> /\ published = 1 /\ disposed = FALSE
    /\ cueRequest = [r \in Readers |-> [at |-> "idle"]]
    /\ yielded = Null /\ reads = {} /\ strayed = "never"
    /\ begun = 0 /\ faults = 0

Discarded(rn) == [rn EXCEPT !.index = -1, !.ready = Null]
At(rn, position) ==
    [rn EXCEPT !.reader = [NoReader EXCEPT !.offset = position], !.seekAt = position,
               !.position = position]

\* ensure_transient_state: a store and a reader, if they were released.
KeptStores == IF published # 0 THEN stores ELSE Append(stores, NewStore)
KeptNumber == IF published # 0 THEN published ELSE Len(stores) + 1
Ensured(rn) == IF rn.reader = Null THEN [rn EXCEPT !.reader = NoReader] ELSE rn

\* reset_subtitle_progress.
ProgressAt(list, number, position) == [list EXCEPT ![number] = SetReadTo(@, position)]

\* Faulty variant: requests that wait on the store are not told.
Release_Silently == published' = 0 /\ UNCHANGED stores

\* release_transient_state: who waits on the store is told.
Release ==
    /\ published' = 0
    /\ stores' = IF published = 0 THEN stores ELSE [stores EXCEPT ![published].version = @ + 1]

\* freeze_at_position: everything is released, and the next request starts again.
FreezeAt(position) ==
    /\ runner' = [Discarded(New) EXCEPT !.frozen = TRUE, !.position = position, !.seekAt = position]
    /\ gst' = Null /\ init' = FALSE /\ op' = Null
    /\ Release
    /\ UNCHANGED historyVars

\* Where an operation goes that has to start a pipeline or move the one there is.
Moves(rn, is, index, to, via) ==
    LET at == IF gst = Null THEN "launch" ELSE "seek"
        moved == IF via = "seek" /\ gst # Null THEN At(Discarded(rn), to)
                 ELSE IF via = "seek" THEN [Discarded(rn) EXCEPT !.reader = [NoReader EXCEPT !.offset = to]]
                 ELSE IF to > 0 THEN At([rn EXCEPT !.playing = TRUE], to)
                 ELSE [rn EXCEPT !.playing = TRUE]
    IN  /\ runner' = moved
        /\ stores' = IF via = "seek" THEN ProgressAt(KeptStores, KeptNumber, to) ELSE KeptStores
        /\ gst' = IF gst = Null THEN Null ELSE [gst EXCEPT !.playing = FALSE]
        /\ op' = [is |-> is, index |-> index, to |-> to, via |-> via, at |-> at]
        /\ yielded' = Null
        /\ strayed' = IF published = 0 THEN "never" ELSE IF strayed = "now" THEN "before" ELSE strayed

Completed(list, number, rn, index) ==
    [list EXCEPT ![number] =
       Advance(@, Greater(To(index), rn.ready.start + Len(rn.ready.content)))]

\* What follows once the pipeline is where it should be.
Continues(rn, list, number, is, index) ==
    LET done(r) == runner' = r /\ op' = Null
        ready == [rn EXCEPT !.index = index]
    IN  CASE is = "seek" -> done(rn) /\ stores' = list
          [] is = "init" /\ init /\ rn.ready # Null ->
               done(ready) /\ stores' = Completed(list, number, rn, index)
          [] is = "init" /\ init /\ rn.ready = Null -> done(rn) /\ stores' = list
          [] is = "segment" /\ rn.index = index /\ rn.ready # Null -> done(rn) /\ stores' = list
          [] OTHER -> /\ runner' = IF is = "segment" THEN Discarded(rn) ELSE rn
                      /\ op' = [is |-> is, index |-> index, to |-> 0, via |-> "", at |-> "pull"]
                      /\ stores' = list

\* ensure_init, get_segment and seek, called with the task's mutex.
BeginOperation(is, index) ==
    /\ op = Null /\ ~runner.gone /\ begun + faults < MaxOperations
    /\ published # 0 \/ Len(stores) < MaxStores
    /\ begun' = begun + 1
    /\ published' = KeptNumber
    /\ reads' = IF published = 0 THEN {} ELSE reads
    /\ LET rn == Ensured(runner)
       IN  IF is = "seek" \/ (is = "init" /\ rn.frozen)
           THEN Moves(rn, is, index, Start(index), "seek")
           ELSE IF rn.frozen THEN Moves(rn, is, index, rn.position, "seek")
           ELSE IF ~rn.playing THEN Moves(rn, is, index, Start(index), "start")
           ELSE IF is = "init" /\ index > 0 /\ rn.position # Start(index)
           THEN Moves(rn, is, index, Start(index), "seek")
           ELSE /\ Continues(rn, KeptStores, KeptNumber, is, index)
                /\ UNCHANGED <<gst, yielded, strayed>>
    /\ UNCHANGED <<init, disposed, cueRequest, faults>>

\* frozen, for a task nobody has asked for a while.
Freeze ==
    /\ op = Null /\ ~runner.gone /\ ~runner.frozen /\ ~disposed
    /\ FreezeAt(runner.position)
    /\ UNCHANGED <<disposed, cueRequest, begun, faults>>

\* dispose: the task is marked, and when it has the mutex it lets go of the runner.
Mark ==
    /\ ~disposed /\ disposed' = TRUE
    /\ UNCHANGED <<runner, gst, init, op, stores, published, cueRequest, historyVars, begun, faults>>

DisposeRunner ==
    /\ disposed /\ op = Null /\ ~runner.gone
    /\ runner' = [Discarded(runner) EXCEPT !.playing = FALSE, !.reader = Null, !.probe = Null,
                                           !.gone = TRUE]
    /\ gst' = Null /\ init' = FALSE
    /\ Release
    /\ UNCHANGED <<op, disposed, cueRequest, historyVars, begun, faults>>

-----------------------------------------------------------------------------
(* Starting and moving the pipeline. *)

Doing(at) == op # Null /\ op.at = at

Faulty ==
    /\ faults < MaxFaults /\ begun + faults < MaxOperations
    /\ faults' = faults + 1

\* A pipeline that starts at the beginning just plays; elsewhere it is paused first.
Launch ==
    /\ Doing("launch")
    /\ gst' = BuiltPipeline
    /\ op' = [op EXCEPT !.at = IF op.to = 0 THEN "arrive" ELSE "seek"]
    /\ UNCHANGED <<runner, init, stores, published, disposed, cueRequest, historyVars, begun, faults>>

\* The first key frame at or after the position asked for.
Landing(to) ==
    IF \E k \in KeyUnits : k >= to THEN CHOOSE k \in KeyUnits : k >= to /\ \A j \in KeyUnits : j >= to => k <= j
    ELSE FilmLength

\* drain_bus and install_seek_probes, where the sink was reset: what passes from now on
\* is taken for what the seek brings, but GStreamer has not been told to seek yet.
InstallProbes ==
    /\ Doing("seek")
    /\ runner' = [runner EXCEPT !.probe = [actual |-> Null, first |-> FALSE]]
    /\ gst' = [gst EXCEPT !.out = <<>>, !.bus = @ \ {"async", "eos"}]
    /\ op' = [op EXCEPT !.at = "flush"]
    /\ UNCHANGED <<init, stores, published, disposed, cueRequest, historyVars, begun, faults>>

\* send_video_seek: the flush empties the sinks; an end that came before it stays on the
\* bus, and only what follows it makes the seek done.  The event of the new segment
\* names the position asked for or the one reached, and the first buffer then tells,
\* unless one of before told the probe already: it listens to nothing more.
SendSeek ==
    /\ Doing("flush") /\ "error" \notin gst.bus
    /\ IF runner.probe.first THEN UNCHANGED runner
       ELSE \E told \in {op.to, Landing(op.to)} : runner' = [runner EXCEPT !.probe.actual = told]
    /\ strayed' = IF runner.probe.first /\ runner.probe.actual # Landing(op.to) THEN "now"
                  ELSE strayed
    /\ gst' = [gst EXCEPT !.at = Landing(op.to), !.out = <<>>, !.subs = {}, !.eos = FALSE,
                          !.bus = @ \ {"async"}]
    /\ op' = [op EXCEPT !.at = "arrive"]
    /\ UNCHANGED <<init, stores, published, disposed, cueRequest, yielded, reads, begun, faults>>

\* wait_for_seek_done, query_position and the rest of seek or start_at.
Arrive ==
    /\ Doing("arrive")
    /\ "error" \notin gst.bus
    /\ runner.probe # Null => "async" \in gst.bus /\ "eos" \notin gst.bus
    /\ \E actual \in IF runner.probe = Null THEN {op.to} ELSE {op.to, Landing(op.to)} :
         LET rn == IF op.via = "seek"
                   THEN [At(runner, actual) EXCEPT !.playing = TRUE, !.frozen = FALSE]
                   ELSE IF op.to > 0 THEN At(runner, actual) ELSE runner
         IN  Continues(rn, ProgressAt(stores, published, actual), published, op.is, op.index)
    /\ gst' = [gst EXCEPT !.playing = TRUE]
    /\ UNCHANGED <<init, published, disposed, cueRequest, historyVars, begun, faults>>

\* An error or an end on the bus, a state that is not reached in time, a pipeline
\* that cannot be built: it is stopped, and the task frozen where it should have
\* come to.
MoveFails ==
    /\ op # Null /\ op.at # "pull"
    /\ IF gst # Null /\ gst.bus \cap {"error", "eos"} # {} THEN UNCHANGED faults ELSE Faulty
    /\ FreezeAt(op.to)
    /\ UNCHANGED <<disposed, cueRequest, begun>>

-----------------------------------------------------------------------------
(* Reading from it. *)

\* drain_subtitles.
Drained == [stores EXCEPT ![published] = AppendAll(@, gst.subs, runner.seekAt)]

\* apply_pending_video_start.
Applied(rn) ==
    IF rn.probe = Null \/ rn.probe.actual = Null THEN rn
    ELSE [rn EXCEPT !.reader.offset = rn.probe.actual, !.seekAt = rn.probe.actual,
                    !.position = rn.probe.actual, !.probe.actual = Null]

\* The reader takes a sample; a whole segment is what collect_reader_output finds.
Made(rn, got) ==
    [rn EXCEPT !.reader = [offset |-> rn.reader.offset + Len(got), got |-> <<>>],
               !.position = rn.reader.offset + Len(got), !.ready = Segment(rn.reader.offset, got)]
Pushed(rn, sample) ==
    LET got == Append(rn.reader.got, sample)
    IN  IF Len(got) < SegmentLength THEN [rn EXCEPT !.reader.got = got] ELSE Made(rn, got)

\* complete_ready_segment.
Completes(rn, list) ==
    /\ runner' = [rn EXCEPT !.index = op.index] /\ op' = Null
    /\ stores' = Completed(list, published, rn, op.index)
    /\ yielded' = rn.ready

\* pull_output_sample, and what its caller makes of it: the first sample brings the
\* init segment, which ensure_init waits for.
Pull ==
    /\ Doing("pull") /\ "error" \notin gst.bus /\ gst.out # <<>>
    /\ LET rn == Pushed(Applied(runner), Head(gst.out))
       IN  /\ IF rn.ready # Null THEN Completes(rn, Drained)
              ELSE /\ runner' = rn /\ stores' = Drained
                   /\ op' = IF op.is = "init" THEN Null ELSE op
                   /\ UNCHANGED yielded
           /\ init' = TRUE
    /\ reads' = reads \cup {Head(gst.out)}
    /\ gst' = [gst EXCEPT !.out = Tail(@), !.subs = {}]
    /\ UNCHANGED <<published, disposed, cueRequest, strayed, begun, faults>>

Ended == gst.out = <<>> /\ gst.eos
EndsEarly == runner.position < Greater(FilmLength - EosBackoff, 0)

\* finish_end_of_stream: what is left is a segment, and then there are no more.
PullEnd ==
    /\ Doing("pull") /\ "error" \notin gst.bus /\ Ended /\ ~EndsEarly /\ op.is = "segment"
    /\ IF runner.reader.got # <<>> THEN Completes(Made(runner, runner.reader.got), Drained)
       ELSE op' = Null /\ stores' = Drained /\ UNCHANGED <<runner, yielded>>
    /\ gst' = [gst EXCEPT !.subs = {}]
    /\ UNCHANGED <<init, published, disposed, cueRequest, reads, strayed, begun, faults>>

\* An error on the bus, an end that comes early or before the init segment: the
\* task is frozen at the segment that was asked for.
PullFails ==
    /\ Doing("pull")
    /\ "error" \in gst.bus \/ (Ended /\ (EndsEarly \/ op.is = "init"))
    /\ FreezeAt(Start(op.index))
    /\ UNCHANGED <<disposed, cueRequest, begun, faults>>

\* The request is cancelled, or nothing comes in time: the pipeline runs on.
PullTimesOut ==
    /\ Doing("pull") /\ Faulty
    /\ op' = Null
    /\ UNCHANGED <<runner, gst, init, stores, published, disposed, cueRequest, historyVars, begun>>

-----------------------------------------------------------------------------
(* GStreamer. *)

\* A unit is read from the source: its cues first.  Paused, one sample is made; the
\* bus hears when that is done.  The probe notes the first buffer after it was put in
\* that is not from more than a segment before the position asked for (accepts), and
\* every one after the flush is.
Notes ==
    /\ runner.probe # Null /\ ~runner.probe.first
    /\ Doing("flush") => gst.at + SegmentLength >= op.to

Produce ==
    /\ gst # Null /\ "error" \notin gst.bus /\ ~gst.eos
    /\ gst.at < FilmLength /\ Len(gst.out) < IF gst.playing THEN Ahead ELSE 1
    /\ gst' = [gst EXCEPT !.at = @ + 1, !.out = Append(@, gst.at),
                 !.subs = @ \cup {c \in Cues : c.start = gst.at},
                 !.bus = IF gst.playing THEN @ ELSE @ \cup {"async"}]
    /\ runner' = IF Notes THEN [runner EXCEPT !.probe = [actual |-> gst.at, first |-> TRUE]]
                 ELSE runner
    /\ UNCHANGED <<init, op, stores, published, disposed, cueRequest, historyVars, begun, faults>>

\* The film ends, or its source does before it.
ProduceEnd ==
    /\ gst # Null /\ ~gst.eos
    /\ IF gst.at = FilmLength THEN UNCHANGED faults ELSE Faulty
    /\ gst' = [gst EXCEPT !.eos = TRUE, !.bus = @ \cup {"eos"}]
    /\ UNCHANGED <<runner, init, op, stores, published, disposed, cueRequest, historyVars, begun>>

BreaksDown ==
    /\ gst # Null /\ Faulty
    /\ gst' = [gst EXCEPT !.bus = @ \cup {"error"}]
    /\ UNCHANGED <<runner, init, op, stores, published, disposed, cueRequest, historyVars, begun>>

-----------------------------------------------------------------------------
(* Requests for subtitles. *)

Answered(r, cues) == cueRequest' = [cueRequest EXCEPT ![r] = [at |-> "answered", cues |-> cues]]

\* Then the answer is empty.
NoStore == disposed \/ published = 0

\* subtitle_vtt: the store.
Look(r, segment) ==
    IF NoStore THEN Answered(r, {})
    ELSE cueRequest' = [cueRequest EXCEPT ![r] =
           [at |-> "subscribe", segment |-> segment, store |-> published]]

AskSubtitles(r, segment) ==
    /\ cueRequest[r].at = "idle"
    /\ Look(r, segment)
    /\ UNCHANGED <<runner, gst, init, op, stores, published, disposed, historyVars, begun, faults>>

\* Its version, from which on a change wakes the request; the store may have been
\* replaced since it was looked up.
Subscribe(r) ==
    /\ cueRequest[r].at = "subscribe"
    /\ LET q == cueRequest[r]
       IN  cueRequest' = [cueRequest EXCEPT ![r] =
             [at |-> "render", segment |-> q.segment, store |-> q.store,
              seen |-> stores[q.store].version, late |-> q.store # published]]
    /\ UNCHANGED <<runner, gst, init, op, stores, published, disposed, historyVars, begun, faults>>

RenderOrWait(r) ==
    /\ cueRequest[r].at = "render"
    /\ LET q == cueRequest[r]
       IN  IF ReadyFor(stores[q.store], q.segment)
           THEN Answered(r, Render(stores[q.store], q.segment))
           ELSE cueRequest' = [cueRequest EXCEPT ![r].at = "wait"]
    /\ UNCHANGED <<runner, gst, init, op, stores, published, disposed, historyVars, begun, faults>>

Wakes(r) ==
    /\ cueRequest[r].at = "wait" /\ stores[cueRequest[r].store].version # cueRequest[r].seen
    /\ Look(r, cueRequest[r].segment)
    /\ UNCHANGED <<runner, gst, init, op, stores, published, disposed, historyVars, begun, faults>>

\* After five seconds the answer is what there is.
GivesUp(r) ==
    /\ cueRequest[r].at = "wait"
    /\ Answered(r, IF NoStore THEN {} ELSE Render(Current, cueRequest[r].segment))
    /\ UNCHANGED <<runner, gst, init, op, stores, published, disposed, historyVars, begun, faults>>

PipeNext ==
    \/ \E is \in {"init", "segment", "seek"}, index \in Segments : BeginOperation(is, index)
    \/ Freeze \/ Mark \/ DisposeRunner \/ Launch \/ InstallProbes \/ SendSeek \/ Arrive \/ MoveFails
    \/ Pull \/ PullEnd \/ PullFails \/ PullTimesOut
    \/ Produce \/ ProduceEnd \/ BreaksDown
    \/ \E r \in Readers :
         \/ \E segment \in CueSegments : AskSubtitles(r, segment)
         \/ Subscribe(r) \/ RenderOrWait(r) \/ Wakes(r) \/ GivesUp(r)

PipeSpec == PipeInit /\ [][PipeNext]_pipeVars
-----------------------------------------------------------------------------
(* Properties. *)

\* Between operations a pipeline runs if and only if the runner plays, no probe of
\* another is left, and a task that is frozen has released everything
\* (pipeline.rs:539-544, 1345-1366).
RunnerSettled ==
    op = Null =>
      /\ runner.playing <=> gst # Null
      /\ gst = Null => runner.probe = Null /\ ~init
      /\ (published = 0) <=> (runner.reader = Null)
      /\ runner.gone => published = 0
      /\ runner.frozen => gst = Null /\ published = 0

\* However a seek snaps and whatever the position query answers, a media segment is
\* placed where its first sample really is, and its samples follow each other
\* (pipeline.rs:1106-1126, 1176-1196).  It is not where a buffer of before the seek
\* passed between the probes and the flush (pipeline.rs:945-951, 1012-1041): until the
\* next seek everything is placed from that one.
PlacedWhereItIs ==
    (yielded # Null /\ strayed # "now") =>
      \A i \in DOMAIN yielded.content : yielded.content[i] = yielded.start + i - 1

\* Only one wake-up can be lost, that of a store replaced between its look-up and
\* the subscription to it: any other request that waits, and was not told since it
\* subscribed, waits for the store that is published, which is not ready for it
\* (service.rs:257-262, 545-570, subtitles.rs:68-74).
NoneWaitsInVain ==
    \A r \in Readers :
      LET q == cueRequest[r]
      IN  (q.at = "wait" /\ ~q.late /\ stores[q.store].version = q.seen) =>
            q.store = published /\ ~ReadyFor(Current, q.segment)

\* A store holds cues of the film, each in its place; and if it is ready for a
\* segment that was read, every cue that starts in the segment is rendered
\* (subtitles.rs:104-206, pipeline.rs:1222-1249, 1320-1328).  One that was filled from
\* where a buffer of before a seek put the pipeline keeps what is misplaced in it.
ReadyIsComplete ==
    (published # 0 /\ strayed = "never") =>
      /\ Current.cues \subseteq Cues
      /\ \A s \in Segments :
           (ReadyFor(Current, s) /\ From(s) .. To(s) - 1 \subseteq reads) =>
             \A c \in Cues :
               c.start \in From(s) .. To(s) - 1 =>
                 [start |-> c.start - From(s), end |-> Lesser(c.end, To(s)) - From(s)]
                   \in Render(Current, s)

PipelineRight == RunnerSettled /\ PlacedWhereItIs /\ NoneWaitsInVain /\ ReadyIsComplete
=============================================================================
