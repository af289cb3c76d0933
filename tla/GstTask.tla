------------------------------ MODULE GstTask ------------------------------
(***************************************************************************)
(* One HLS task: the segments of a file in order, from a GStreamer         *)
(* pipeline that can be moved, frozen and released                         *)
(* (crates/rustorr-gstreamer/src/service.rs Task, pipeline.rs GstRunner).  *)
(*                                                                         *)
(* A request looks the task up and then waits for the task's mutex, once   *)
(* for the init segment and once for the segment; what it does under the   *)
(* mutex is one step, but for a request that catches up, which takes a     *)
(* step per segment it skips.  The pipeline is what it yields next: a      *)
(* segment's content is the number of the segment it really is.  The task  *)
(* follows no cue timeline.                                                *)
(***************************************************************************)
EXTENDS Integers

CONSTANTS
    Requests,   \* the requests that may be under way together
    Segments,   \* the number of segments of the file
    Catchup,    \* how far ahead a request may be without a seek
    Starts,     \* the segments an init may be asked for at
    Faults      \* subset of {"timeout", "error", "freeze"}

VARIABLES
    last,       \* TaskState.last_sent_segment, -1 at first
    runner,     \* TaskState.runner
    init,       \* TaskInfo has an init segment
    disposed,
    request,    \* request -> what it asks for and where it is
    served      \* the answer to the last segment request that got one

vars == <<last, runner, init, disposed, request, served>>

Indexes == 0 .. Segments - 1

\* No runner: it was taken by dispose.
Gone == [gone |-> TRUE]

NotReady == [index |-> -1, content |-> -1]
Idle == [at |-> "idle"]

\* pos: what the pipeline yields next, and where a frozen one starts again.
New == [gone |-> FALSE, playing |-> FALSE, frozen |-> FALSE, running |-> FALSE,
        pos |-> 0, ready |-> NotReady]

Init ==
    /\ last = -1
    /\ runner = New
    /\ init = FALSE
    /\ disposed = FALSE
    /\ request = [r \in Requests |-> Idle]
    /\ served = NotReady

TypeOK ==
    /\ last \in -1 .. Segments - 1
    /\ runner = Gone \/ runner.pos \in 0 .. Segments
    /\ init \in BOOLEAN /\ disposed \in BOOLEAN
    /\ \A r \in Requests :
         request[r] = Idle \/ request[r].at \in {"init", "segment", "catch up"}
    /\ served.index \in -1 .. Segments - 1

-----------------------------------------------------------------------------
(* The runner.  An operation's outcomes are a set of [ok, rn, init, content]: *)
(* how it may end, with the runner and the init segment it leaves.             *)

Ends(ok, rn, has, content) == [ok |-> ok, rn |-> rn, init |-> has, content |-> content]

\* freeze_at_position: the pipeline is stopped and the init segment cleared.
FrozenAt(rn, pos) ==
    [rn EXCEPT !.playing = FALSE, !.frozen = TRUE, !.running = FALSE,
               !.pos = pos, !.ready = NotReady]

Failed(rn, pos) ==
    IF "error" \in Faults THEN {Ends(FALSE, FrozenAt(rn, pos), FALSE, -1)} ELSE {}

\* seek: the running pipeline is moved, or a new one starts there.
Seek(rn, has, pos) ==
    {Ends(TRUE, [rn EXCEPT !.playing = TRUE, !.frozen = FALSE, !.running = TRUE,
                           !.pos = pos, !.ready = NotReady], has, -1)}
      \cup Failed(rn, pos)

\* start_at: the first pipeline.
StartAt(rn, has, pos) ==
    {Ends(TRUE, [rn EXCEPT !.playing = TRUE, !.running = TRUE, !.pos = pos], has, -1)}
      \cup Failed(rn, pos)

\* The wait for output: a request that is cancelled or too slow leaves the
\* pipeline running, an error of the pipeline freezes it at the index asked for.
Waited(rn, has, index) ==
    (IF "timeout" \in Faults THEN {Ends(FALSE, rn, has, -1)} ELSE {})
      \cup Failed(rn, index)

\* GstRunner::ensure_init, from a pipeline that stands at the index or plays
\* towards it.  The buffer that completes the init segment holds no whole media
\* segment.
Produced(rn, has, index) ==
    IF has
    THEN {Ends(TRUE, IF rn.ready.content >= 0 THEN [rn EXCEPT !.ready.index = index] ELSE rn,
               has, -1)}
    ELSE {Ends(TRUE, rn, TRUE, -1)} \cup Waited(rn, has, index)

RunnerInit(rn, has, index) ==
    LET positioned ==
          IF rn.frozen THEN Seek(rn, has, index)
          ELSE IF ~rn.playing THEN StartAt(rn, has, index)
          ELSE IF index > 0 /\ rn.pos # index THEN Seek(rn, has, index)
          ELSE {Ends(TRUE, rn, has, -1)}
    IN  UNION {IF o.ok THEN Produced(o.rn, o.init, index) ELSE {o} : o \in positioned}

\* GstRunner::get_segment: the segment the pipeline yields next is the answer,
\* unless the one asked for was kept; after the last there is none.
Pulled(rn, has, index) ==
    IF rn.ready.index = index THEN {Ends(TRUE, rn, has, rn.ready.content)}
    ELSE IF rn.pos < Segments
    THEN {Ends(TRUE, [rn EXCEPT !.ready = [index |-> index, content |-> rn.pos],
                                !.pos = @ + 1], TRUE, rn.pos)}
           \cup Waited([rn EXCEPT !.ready = NotReady], has, index)
    ELSE {Ends(FALSE, [rn EXCEPT !.ready = NotReady], has, -1)}

RunnerSegment(rn, has, index) ==
    LET positioned ==
          IF rn.frozen THEN Seek(rn, has, rn.pos)
          ELSE IF ~rn.playing THEN StartAt(rn, has, index)
          ELSE {Ends(TRUE, rn, has, -1)}
    IN  UNION {IF o.ok THEN Pulled(o.rn, o.init, index) ELSE {o} : o \in positioned}

-----------------------------------------------------------------------------
(* The task. *)

Becomes(o) == runner' = o.rn /\ init' = o.init

\* A request that catches up is the only one to hold the mutex between steps.
Unlocked == \A r \in Requests : request[r].at # "catch up"

Ended(r) == request' = [request EXCEPT ![r] = Idle]

\* master and init_mp4: the playlist and the init segment need the pipeline
\* started at the position the player wants.
InitRequest(r, index) ==
    /\ request[r] = Idle
    /\ ~disposed
    /\ request' = [request EXCEPT ![r] = [at |-> "init", index |-> index, segment |-> FALSE]]
    /\ UNCHANGED <<last, runner, init, disposed, served>>

\* serve_segment: the init segment is looked at before the mutex is taken.
SegmentRequest(r, index) ==
    /\ request[r] = Idle
    /\ ~disposed
    /\ request' = [request EXCEPT ![r] =
         IF init THEN [at |-> "segment", index |-> index]
         ELSE [at |-> "init", index |-> index, segment |-> TRUE]]
    /\ UNCHANGED <<last, runner, init, disposed, served>>

\* Task::ensure_init.
EnsureInit(r) ==
    /\ request[r].at = "init"
    /\ Unlocked
    /\ LET index == request[r].index
           outcomes ==
             IF init /\ (index = 0 \/ last # -1) THEN {Ends(TRUE, runner, init, -1)}
             ELSE IF runner = Gone THEN {Ends(FALSE, runner, init, -1)}
             ELSE RunnerInit(runner, init, index)
       IN  \E o \in outcomes :
             /\ Becomes(o)
             /\ last' = IF o.ok /\ index > 0 /\ last = -1 THEN index - 1 ELSE last
             /\ request' = [request EXCEPT ![r] =
                  IF o.ok /\ request[r].segment
                  THEN [at |-> "segment", index |-> index] ELSE Idle]
    /\ UNCHANGED <<disposed, served>>

\* How segment_locked gets to a segment.
Approach(index) ==
    IF runner.frozen \/ (last = -1 /\ index > 0) THEN "seek"
    ELSE IF last = -1 \/ index \in {last, last + 1} THEN "here"
    ELSE IF index > last /\ index - last <= Catchup THEN "catch up"
    ELSE "seek"

\* The segment itself, at the end of every approach.
Answer(rn, has, index) ==
    \E o \in RunnerSegment(rn, has, index) :
      /\ Becomes(o)
      /\ last' = IF o.ok THEN index ELSE last
      /\ served' = IF o.ok THEN [index |-> index, content |-> o.content] ELSE served

\* Task::segment: where the pipeline is not at the segment, it seeks, or it reads
\* over the segments between.
Segment(r) ==
    /\ request[r].at = "segment"
    /\ Unlocked
    /\ LET index == request[r].index IN
       \/ /\ runner = Gone
          /\ Ended(r) /\ UNCHANGED <<last, runner, init, served>>
       \/ /\ runner # Gone /\ Approach(index) = "here"
          /\ Answer(runner, init, index) /\ Ended(r)
       \/ /\ runner # Gone /\ Approach(index) = "seek"
          /\ \E o \in Seek(runner, init, index) :
               IF o.ok THEN Answer(o.rn, o.init, index)
               ELSE Becomes(o) /\ UNCHANGED <<last, served>>
          /\ Ended(r)
       \/ /\ runner # Gone /\ Approach(index) = "catch up"
          /\ request' = [request EXCEPT ![r].at = "catch up"]
          /\ UNCHANGED <<last, runner, init, served>>
    /\ UNCHANGED disposed

\* One segment between is fetched and thrown away; a failure ends the request
\* and leaves the number at the last one that came.
CatchUp(r) ==
    /\ request[r].at = "catch up"
    /\ IF last + 1 < request[r].index
       THEN \E o \in RunnerSegment(runner, init, last + 1) :
              /\ Becomes(o)
              /\ last' = IF o.ok THEN last + 1 ELSE last
              /\ IF o.ok THEN UNCHANGED request ELSE Ended(r)
              /\ UNCHANGED served
       ELSE Answer(runner, init, request[r].index) /\ Ended(r)
    /\ UNCHANGED disposed

\* freeze_if_inactive, called by the sweep.
Freeze ==
    /\ "freeze" \in Faults
    /\ Unlocked
    /\ ~disposed
    /\ runner # Gone
    /\ ~runner.frozen
    /\ runner' = FrozenAt(runner, runner.pos)
    /\ init' = FALSE
    /\ UNCHANGED <<last, disposed, request, served>>

\* Task::dispose, first: the flag, without the mutex.
MarkDisposed ==
    /\ ~disposed
    /\ disposed' = TRUE
    /\ UNCHANGED <<last, runner, init, request, served>>

\* Then the runner is taken and stopped, once the mutex is free.
Dispose ==
    /\ disposed
    /\ Unlocked
    /\ runner # Gone
    /\ runner' = Gone
    /\ init' = FALSE
    /\ UNCHANGED <<last, disposed, request, served>>

Next ==
    \/ \E r \in Requests :
         \/ \E index \in Indexes \cap Starts : InitRequest(r, index)
         \/ \E index \in Indexes : SegmentRequest(r, index)
         \/ EnsureInit(r)
         \/ Segment(r)
         \/ CatchUp(r)
    \/ Freeze
    \/ MarkDisposed
    \/ Dispose

Spec == Init /\ [][Next]_vars

-----------------------------------------------------------------------------
(* Properties. *)

\* A request for a segment is answered with that segment and no other
\* (service.rs:435, "the segment, fetched in order where possible").
AskedIsServed == served.content = served.index

\* The init segment the task hands out is the running pipeline's: whatever stops
\* the pipeline takes it back, so a player never joins it to media of another
\* pipeline (service.rs:509-538, pipeline.rs:1337-1357).
InitIsCurrent == init => runner # Gone /\ runner.running
=============================================================================
