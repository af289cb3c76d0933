------------------------------ MODULE HlsPages ------------------------------
(***************************************************************************)
(* The pages a player follows to an HLS stream, the settings its tasks are *)
(* made with, and the Matroska cues its segments start on                  *)
(* (crates/rustorr-gstreamer/src/{playlist,cue,config,service}.rs,         *)
(* crates/rustorr-http/src/gstreamer_api.rs).                              *)
(*                                                                         *)
(* One torrent.  The facts of a task never change while it lives, so a     *)
(* request is one step; what its pipeline does with it is GstTask's matter *)
(* and here it works or fails; POST /gst/settings alone takes two, with    *)
(* others in between.  Time is counted in ticks, Second to the second.  A  *)
(* Matroska file is the elements its first megabytes hold and those that   *)
(* can be read whole at a position; the sizes elements may have are not    *)
(* modelled.                                                               *)
(***************************************************************************)
EXTENDS Integers, FiniteSets, SequencesExt

CONSTANTS
    Films,          \* files of the torrent: [duration, size, matroska, codec, ...]
    Second,         \* ticks in a second
    UnknownLength,  \* what a film of unknown duration is listed as, in ticks
    Documents,      \* the settings a database may hold at the start, None among them
    Bodies,         \* bodies of POST /gst/settings
    Savers,         \* requests that may change the settings at once
    Asked,          \* values of ?seconds= and numbers of segments
    Ranges,         \* Range headers of a segment request, None among them
    SegmentSize,    \* bytes of a segment
    None

VARIABLES
    settings,   \* Service.config
    document,   \* what the settings store holds
    saving,     \* saver -> [config, met] from its store to its update, or None
    mixed,      \* history: the last change met another on its way
    playing,    \* the torrent's task, or None
    reply       \* the answer on its way to the client, or None

configVars == <<settings, document, saving, mixed>>
vars == <<configVars, playing, reply>>

Max2(a, b) == IF a > b THEN a ELSE b

-----------------------------------------------------------------------------
(* The settings.  A JSON value is [is, holds]; an object's value is its members    *)
(* in order, each <<name, value>>; names are matched without regard to case.   *)

Zero == [SegmentSeconds |-> 0, Subtitles |-> FALSE, TranscodeH264 |-> FALSE, Source |-> "",
         VideoBitrate |-> 0]

\* Config::platform_defaults.
Defaults == [SegmentSeconds |-> 6, Subtitles |-> TRUE, TranscodeH264 |-> FALSE,
             Source |-> "stream", VideoBitrate |-> 10]

KindOf(field) ==
    CASE field \in {"SegmentSeconds", "VideoBitrate"} -> "number"
      [] field \in {"Subtitles", "TranscodeH264"} -> "bool"
      [] OTHER -> "string"

\* Config::normalized.
Normalized(c) ==
    [c EXCEPT !.SegmentSeconds = IF @ <= 0 THEN 6 ELSE @,
              !.VideoBitrate = IF @ <= 0 THEN 10 ELSE @,
              !.Source = IF @ = "play" THEN @ ELSE "stream"]

Members(object) ==
    SelectSeq(object, LAMBDA m : m[1] \in DOMAIN Zero /\ m[2].is # "null")

Fits(m) == m[2].is = KindOf(m[1])

Set(c, members) == FoldLeft(LAMBDA acc, m : [acc EXCEPT ![m[1]] = m[2].holds], c, members)

\* Config::with_stored: field by field, but nothing of a document that holds a
\* value of the wrong type.
WithStored(c, doc) ==
    LET members == Members(doc) IN
    IF \A i \in DOMAIN members : Fits(members[i]) THEN Set(c, members) ELSE c

\* Service::new.
Loaded(doc) == Normalized(IF doc = None THEN Defaults ELSE WithStored(Defaults, doc))

\* stored_document: the normalized settings, every field of them.
StoredDocument(c) ==
    LET n == Normalized(c) IN
    SetToSeq({<<f, [is |-> KindOf(f), holds |-> n[f]]>> : f \in DOMAIN n})

\* settings_request: members that are null say nothing, but a config of null takes
\* back the one before it; any value of the wrong type refuses the whole request.
\* The outcome is [action, config, bad].
Member(acc, m) ==
    IF m[1] \notin {"action", "config"} THEN acc
    ELSE IF m[2].is = "null"
    THEN IF m[1] = "config" THEN [acc EXCEPT !.config = None] ELSE acc
    ELSE IF m[1] = "action"
    THEN IF m[2].is = "string" THEN [acc EXCEPT !.action = m[2].holds] ELSE [acc EXCEPT !.bad = TRUE]
    ELSE IF m[2].is # "object" THEN [acc EXCEPT !.bad = TRUE]
    ELSE LET members == Members(m[2].holds)
             base == IF acc.config = None THEN Zero ELSE acc.config
         IN  [acc EXCEPT !.config = Set(base, SelectSeq(members, Fits)),
                         !.bad = @ \/ \E i \in DOMAIN members : ~Fits(members[i])]

SettingsRequest(body) ==
    IF body.is # "object" THEN [action |-> "", config |-> None, bad |-> body.is # "null"]
    ELSE FoldLeft(Member, [action |-> "", config |-> None, bad |-> FALSE], body.holds)

-----------------------------------------------------------------------------
(* The cue timeline. *)

Those(seq, id) == SelectSeq(seq, LAMBDA e : e.id = id)

\* Positions: the first seek entry for an element wins.
PositionOf(film, id) ==
    LET entries == FlattenSeq([i \in DOMAIN Those(film.prefix, "seek") |->
                                 Those(Those(film.prefix, "seek")[i].entries, id)])
    IN  IF entries = <<>> THEN None ELSE Head(entries).position

\* read_element: what stands there must be the element that was looked for.
ReadElement(film, id) ==
    LET p == PositionOf(film, id) IN
    IF p # None /\ p \in DOMAIN film.at /\ film.at[p].id = id THEN <<film.at[p]>> ELSE <<>>

\* parse_timestamp_scale, in the prefix and then at the position.
Scale(film) ==
    LET given == SelectSeq(Those(film.prefix, "info") \o ReadElement(film, "info"),
                           LAMBDA e : e.scale > 0)
    IN  IF given = <<>> THEN 1 ELSE Last(given).scale

\* video_track_number: the first track of video that has a number.
TrackNumber(tracks) ==
    LET video == SelectSeq(tracks.entries, LAMBDA e : e.video /\ e.number > 0) IN
    IF video = <<>> THEN 0 ELSE Head(video).number

VideoTrack(film) ==
    LET inPrefix == Those(film.prefix, "tracks")
        found == IF inPrefix = <<>> THEN 0 ELSE TrackNumber(Last(inPrefix))
        elsewhere == ReadElement(film, "tracks")
    IN  IF found > 0 \/ elsewhere = <<>> THEN found ELSE TrackNumber(elsewhere[1])

\* video_cue_time: a point whose children are broken, or that is of another track
\* or of no cluster, is no cue.
IsCue(point, track) ==
    point.time # None /\ ~point.torn /\ <<track, TRUE>> \in point.tracks

\* read_timeline and parse_timeline: the video's cue times in order, the last
\* segment ends with the film.
Timeline(film) ==
    LET cues == ReadElement(film, "cues") IN
    IF film.duration = 0 \/ VideoTrack(film) = 0 \/ cues = <<>> THEN None
    ELSE LET points == SelectSeq(cues[1].points, LAMBDA p : IsCue(p, VideoTrack(film)))
             times == SelectSeq([i \in DOMAIN points |-> points[i].time * Scale(film)],
                                LAMBDA t : t < film.duration)
             s == SetToSortSeq(ToSet(times), <)
         IN  IF cues[1].broken \/ Len(times) < 2 THEN None
             ELSE [i \in DOMAIN s |-> [from |-> s[i],
                                       to |-> IF i < Len(s) THEN s[i + 1] ELSE film.duration]]

\* use_cue_timeline: a remuxed Matroska video follows its cues.
UsesCues(c, film) ==
    /\ film.matroska
    /\ \/ film.codec = "h264" /\ ~c.TranscodeH264
       \/ film.codec \in {"h265", "av1", "vp9"}

-----------------------------------------------------------------------------
(* The pages of a task [film, config, cue]. *)

Step(t) == t.config.SegmentSeconds * Second
Length(t) == IF t.film.duration > 0 THEN t.film.duration ELSE UnknownLength

\* segment_count.
Count(t) == IF t.cue # None THEN Len(t.cue) ELSE 1 + (Length(t) - 1) \div Step(t)

InCues(t, i) == t.cue # None /\ i + 1 \in DOMAIN t.cue

\* segment_start_ns.
StartOf(t, i) == IF InCues(t, i) THEN t.cue[i + 1].from ELSE Max2(i, 0) * Step(t)

\* start_index_for_seconds: the segment that holds the second, or one past the end.
StartIndex(t, seconds) ==
    IF seconds <= 0 THEN 0
    ELSE IF t.cue # None
    THEN Cardinality({i \in DOMAIN t.cue : t.cue[i].to <= seconds * Second})
    ELSE LET whole == t.film.duration \div Second
             count == IF whole > 0 THEN 1 + (whole - 1) \div t.config.SegmentSeconds ELSE 0
             index == seconds \div t.config.SegmentSeconds
         IN  IF count > 0 /\ index > count THEN count ELSE index

\* validate_segment_index.
Valid(t, i) ==
    /\ i >= 0
    /\ t.cue # None => i < Len(t.cue)
    /\ t.cue = None /\ t.film.duration > 0 => i < 1 + (t.film.duration - 1) \div Step(t)

\* subtitle_range.
SubtitleRange(t, i) ==
    LET from == StartOf(t, i)
        to == from + Step(t)
    IN  IF InCues(t, i) THEN <<from, t.cue[i + 1].to>>
        ELSE IF t.film.duration > 0
        THEN <<from, IF from >= t.film.duration THEN from
                     ELSE IF to > t.film.duration THEN t.film.duration ELSE to>>
        ELSE <<from, to>>

\* The length a media playlist gives a segment.
ItemLength(t, i) ==
    IF InCues(t, i) THEN t.cue[i + 1].to - t.cue[i + 1].from
    ELSE IF i = Count(t) - 1 /\ Length(t) > i * Step(t) THEN Length(t) - i * Step(t)
    ELSE Step(t)

\* media_playlist: target and init in whole seconds.
MediaPage(t, startIndex) ==
    LET count == Count(t)
        start == IF startIndex < 0 THEN 0 ELSE IF startIndex > count THEN count ELSE startIndex
        longest == CHOOSE m \in {ItemLength(t, i) : i \in 0 .. count - 1} :
                     \A i \in 0 .. count - 1 : ItemLength(t, i) <= m
    IN  [target |-> Max2(1, IF t.cue = None THEN t.config.SegmentSeconds
                            ELSE (longest + Second - 1) \div Second),
         start |-> start,
         init |-> IF start > 0 THEN StartOf(t, start) \div Second ELSE 0,
         items |-> [i \in start .. count - 1 |-> ItemLength(t, i)]]

\* subtitle_playlist: the media playlist from the start, without its init.
SubtitlePage(t) ==
    LET media == MediaPage(t, 0) IN [target |-> media.target, items |-> media.items]

\* video_is_transcoded, for the codecs there are.
Transcoded(t) == t.film.codec = "h264" /\ t.config.TranscodeH264

\* hls_bandwidth: <<peak, average>>.
Bandwidth(t) ==
    LET made == t.config.VideoBitrate + 1
        rate == (t.film.size * 8 * Second + t.film.duration - 1) \div t.film.duration
    IN  IF Transcoded(t) THEN <<(made * 125) \div 100, made>>
        ELSE IF t.film.size > 0 /\ t.film.duration > 0 THEN <<(rate * 150) \div 100, rate>>
        ELSE <<Max2(4, (made * 150) \div 100), 0>>

\* master: the subtitle tracks it names and the link to the media playlist.
MasterPage(t, seconds) ==
    [subtitles |-> IF t.config.Subtitles THEN t.film.subtitles ELSE {},
     bandwidth |-> Bandwidth(t), seconds |-> Max2(0, seconds)]

\* parse_single_range of a Range [from, to], of which either may be missing.
SingleRange(r) ==
    LET from == IF r.from = None THEN SegmentSize - (IF r.to > SegmentSize THEN SegmentSize ELSE r.to)
                ELSE r.from
        to == IF r.from = None \/ r.to = None \/ r.to >= SegmentSize THEN SegmentSize - 1 ELSE r.to
    IN  IF (r.from = None /\ r.to \in {None, 0}) \/ from >= SegmentSize \/ to < from
        THEN None ELSE <<from, to>>

-----------------------------------------------------------------------------
(* The requests.  A reply is taken before the next request is looked at. *)

Answer(of, status, body) ==
    reply = None /\ reply' = [of |-> of, status |-> status, body |-> body]

Init ==
    /\ document \in Documents
    /\ settings = Loaded(document)
    /\ saving = [s \in Savers |-> None] /\ mixed = FALSE
    /\ playing = None
    /\ reply = None

\* get_or_add: the task of this file if it plays, whatever the settings say now,
\* or a new one; a timeline that cannot be read in time is none.
TaskOf(film, cue) ==
    IF playing # None /\ playing.film = film THEN playing
    ELSE [film |-> film, config |-> settings,
          cue |-> IF UsesCues(settings, film) THEN cue ELSE None]

\* master: the task, its init segment, the page.  The probe or the runner may fail
\* before there is a task, a discoverer that outlives its time with 504; the pipeline
\* after that.
Master(film, seconds) ==
    /\ \/ \E cue \in {Timeline(film), None} :
            LET t == TaskOf(film, cue) IN
            /\ playing' = t
            /\ \/ /\ Valid(t, StartIndex(t, seconds))
                  /\ Answer("master", 200, MasterPage(t, seconds))
               \/ Answer("master", 502, None)
       \/ /\ playing # None => playing.film # film
          /\ Answer("master", 502, None) \/ Answer("master", 504, None)
          /\ UNCHANGED playing
    /\ UNCHANGED configVars

\* A request for the task of a torrent that has none.
NoTask == playing = None /\ Answer("none", 404, None) /\ UNCHANGED <<configVars, playing>>

\* Faulty variant: the page is made with the settings of now.
VideoPlaylist_NewSettings(seconds) ==
    /\ playing # None
    /\ Answer("media", 200, MediaPage([playing EXCEPT !.config = settings],
                                      StartIndex(playing, seconds)))
    /\ UNCHANGED <<configVars, playing>>

VideoPlaylist(seconds) ==
    /\ playing # None
    /\ Answer("media", 200, MediaPage(playing, StartIndex(playing, seconds)))
    /\ UNCHANGED <<configVars, playing>>

InitMp4(seconds) ==
    /\ playing # None
    /\ \/ Valid(playing, StartIndex(playing, seconds)) /\ Answer("init", 200, None)
       \/ Answer("init", 502, None)
    /\ UNCHANGED <<configVars, playing>>

\* serve_segment and write_segment.
ServeSegment(i, range) ==
    /\ playing # None
    /\ \/ /\ Valid(playing, i)
          /\ IF range = None THEN Answer("segment", 200, <<0, SegmentSize - 1>>)
             ELSE IF SingleRange(range) = None THEN Answer("segment", 416, range)
             ELSE Answer("segment", 206, SingleRange(range))
       \/ Answer("segment", 502, None)
    /\ UNCHANGED <<configVars, playing>>

\* serve_subtitle: the playlist of a track.
ServeSubtitle ==
    /\ playing # None
    /\ Answer("subtitles", 200, SubtitlePage(playing))
    /\ UNCHANGED <<configVars, playing>>

\* remove, or the sweep of idle tasks: the task goes.
RemoveTask ==
    /\ playing # None
    /\ playing' = None
    /\ Answer("remove", 200, None)
    /\ UNCHANGED configVars

\* save_config: the document is stored normalized.  Nothing keeps another change out
\* until this one is in force; the two have met.
StoreConfig(s, config) ==
    LET others == {o \in Savers : saving[o] # None} IN
    /\ saving[s] = None /\ reply = None
    /\ document' = StoredDocument(config)
    /\ saving' = [o \in Savers |->
                    IF o = s THEN [config |-> Normalized(config), met |-> others # {}]
                    ELSE IF o \in others THEN [saving[o] EXCEPT !.met = TRUE] ELSE None]
    /\ UNCHANGED <<settings, mixed, playing, reply>>

Settled == \A s \in Savers : saving[s] = None

\* update_config: in force for the tasks to come, and answered.
ApplyConfig(s) ==
    /\ saving[s] # None
    /\ settings' = saving[s].config /\ mixed' = saving[s].met
    /\ saving' = [saving EXCEPT ![s] = None]
    /\ Answer("set", 200, None)
    /\ UNCHANGED <<document, playing>>

\* set_settings: a server that may not write answers 403, a store that fails 500,
\* but 403 to a request for the defaults.
SetSettings(s, body) ==
    LET request == SettingsRequest(body)
        refused == \/ request.bad \/ request.action \notin {"def", "set", ""}
                   \/ request.action # "def" /\ request.config = None
    IN
    \/ refused /\ Answer("set", 400, None) /\ UNCHANGED <<configVars, playing>>
    \/ ~refused /\ StoreConfig(s, IF request.action = "def" THEN Defaults ELSE request.config)
    \/ /\ ~refused /\ UNCHANGED <<configVars, playing>>
       /\ \/ Answer("set", 403, None)
          \/ request.action # "def" /\ Answer("set", 500, None)

Taken == reply # None /\ reply' = None /\ UNCHANGED <<configVars, playing>>

\* The program starts again, whatever was under way.
Restart ==
    /\ settings' = Loaded(document)
    /\ saving' = [s \in Savers |-> None] /\ mixed' = FALSE
    /\ playing' = None /\ reply' = None
    /\ UNCHANGED document

\* A page reads nothing that a store changes, so one that is asked for while a change
\* is on its way is asked for before it.
Next ==
    \/ /\ Settled /\ reply = None
       /\ \/ \E film \in Films, s \in Asked : Master(film, s)
          \/ \E s \in Asked : VideoPlaylist(s) \/ InitMp4(s)
          \/ \E s \in Asked, range \in Ranges : ServeSegment(s, range)
          \/ ServeSubtitle
          \/ NoTask
          \/ RemoveTask
    \/ reply = None /\ \E s \in Savers : ApplyConfig(s) \/ \E body \in Bodies : SetSettings(s, body)
    \/ Taken
    \/ Restart

Spec == Init /\ [][Next]_vars

-----------------------------------------------------------------------------
(* Properties. *)

TypeOK ==
    /\ DOMAIN settings = DOMAIN Zero
    /\ playing # None => playing.film \in Films /\ playing.config.SegmentSeconds > 0
    /\ reply # None => reply.status \in {200, 206, 400, 403, 404, 416, 500, 502, 504}
    /\ \A s \in Savers : saving[s] # None => DOMAIN saving[s].config = DOMAIN Zero

\* A media playlist as it is handed out, and the task behind it.
Listed == reply # None /\ reply.of = "media"

\* What a player finds in a playlist works: every segment listed is one the task
\* will serve, and the init link leads into the film no later than the first of them
\* (playlist.rs:239-276, service.rs:274-346).
LinksWork ==
    (Listed /\ DOMAIN reply.body.items # {})
      => LET back == StartIndex(playing, reply.body.init) IN
         /\ \A i \in DOMAIN reply.body.items : Valid(playing, i)
         /\ Valid(playing, back) /\ back <= reply.body.start
         /\ playing.cue = None => back = reply.body.start

\* The playlist tells the time of the film: the items follow each other to the end
\* without a gap, none is longer than the target, and the subtitles of a segment are
\* those of its time (playlist.rs:210-276, service.rs:302-317, cue.rs:289-353).  A
\* film of unknown duration has no known end.
TimesAgree ==
    Listed =>
      LET t == playing
          media == reply.body
      IN  \A i \in DOMAIN media.items :
            /\ media.items[i] > 0 /\ media.items[i] <= media.target * Second
            /\ StartOf(t, i) + media.items[i]
                 = IF i + 1 < Count(t) THEN StartOf(t, i + 1) ELSE Length(t)
            /\ t.film.duration > 0 =>
                 SubtitleRange(t, i) = <<StartOf(t, i), StartOf(t, i) + media.items[i]>>

\* A remuxed film is announced with a bandwidth that carries it (playlist.rs:146-170),
\* and a part of a segment is a part of it (gstreamer_api.rs:780-804).
SizesAgree ==
    /\ (reply # None /\ reply.of = "master" /\ reply.status = 200) =>
         LET rate == reply.body.bandwidth IN
         /\ rate[1] >= rate[2]
         /\ (~Transcoded(playing) /\ playing.film.duration > 0) =>
              rate[1] * playing.film.duration >= 8 * playing.film.size * Second
    /\ (reply # None /\ reply.of = "segment" /\ reply.status \in {200, 206}) =>
         0 <= reply.body[1] /\ reply.body[1] <= reply.body[2] /\ reply.body[2] < SegmentSize

\* What is in force is what a restart would bring back, whatever was asked, stored,
\* refused or cut off (config.rs:110-169, service.rs:634-639), once the last change is
\* in force.  It is not so where two changes met between the store and the update: each
\* may come last in one of the two.
SettingsKept ==
    (Settled /\ ~mixed) => settings = Loaded(document)

PagesRight == LinksWork /\ TimesAgree /\ SizesAgree /\ SettingsKept
=============================================================================
