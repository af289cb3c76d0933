-------------------------------- MODULE Probe --------------------------------
(***************************************************************************)
(* What is known of a file before it is played: the report of the          *)
(* discoverer program, read line by line, and its cache                    *)
(* (crates/rustorr-gstreamer/src/probe.rs, service.rs Service::probe).     *)
(*                                                                         *)
(* A line is [is, name, value]: what the patterns make of it.  Whether a   *)
(* text names a codec or a container is decided by the patterns and is     *)
(* part of the line here.                                                  *)
(***************************************************************************)
EXTENDS Integers, FiniteSets, SequencesExt, TLC

CONSTANTS
    Callers,    \* requests that may ask for the file's probe together
    Reports,    \* what the discoverer may print, as sequences of lines
    Configs,    \* [avi, vp8, sdr]: TranscodeAVI, TranscodeVP8, HDRToSDR
    Sizes,      \* the lengths the torrent may give the file, None among them
    None

VARIABLES
    config,     \* Service.config
    cached,     \* the file's entry of Service.probes, or None
    probing,    \* who holds probe_calls
    asker,      \* caller -> where its call is
    size        \* the file's length as the torrent says now

vars == <<config, cached, probing, asker, size>>

-----------------------------------------------------------------------------
(* from_discoverer. *)

Fields == {"width", "height", "channels", "rate", "language", "title", "transfer"}
NoFields == [f \in Fields |-> None]

\* track_line and video_metadata: the last value counts, but the first transfer; a
\* language's name counts where no code was given, a codec where the header had
\* none, and a subtitle's codec always.
TrackLine(track, line) ==
    CASE line.name = "language name" ->
           IF track.fields.language = None THEN [track EXCEPT !.fields.language = line.value]
           ELSE track
      [] line.name = "transfer" ->
           IF track.kind = "video" /\ track.fields.transfer = None
           THEN [track EXCEPT !.fields.transfer = line.value] ELSE track
      [] line.name = "codec" ->
           IF track.codec = None THEN [track EXCEPT !.codec = line.value] ELSE track
      [] line.name = "subtitle codec" -> [track EXCEPT !.codec = line.value]
      [] OTHER -> [track EXCEPT !.fields[line.name] = line.value]

\* The first container line names the container, a line of container caps always
\* does; both end the track, as the properties of the file do.
ReadLine(acc, line) ==
    CASE line.is = "container" ->
           [acc EXCEPT !.container = IF @ = None THEN line.value ELSE @, !.inTrack = FALSE]
      [] line.is = "caps" -> [acc EXCEPT !.container = line.value, !.inTrack = FALSE]
      [] line.is = "properties" -> [acc EXCEPT !.inTrack = FALSE]
      [] line.is = "stream" ->
           [acc EXCEPT !.tracks = Append(@, [kind |-> line.name, codec |-> line.value,
                                             fields |-> NoFields]),
                       !.inTrack = TRUE]
      [] line.is = "field" /\ acc.inTrack ->
           [acc EXCEPT !.tracks = [@ EXCEPT ![Len(@)] = TrackLine(@, line)]]
      [] OTHER -> acc

\* The tracks of a kind are numbered in the order of the report.
Numbered(tracks) ==
    [i \in DOMAIN tracks |->
       [index |-> Cardinality({j \in 1 .. i - 1 : tracks[j].kind = tracks[i].kind})] @@ tracks[i]]

FromDiscoverer(report) ==
    LET read == FoldLeft(ReadLine, [container |-> None, tracks |-> <<>>, inTrack |-> FALSE], report)
        durations == SelectSeq(report, LAMBDA line : line.is = "duration")
    IN  [duration |-> IF durations = <<>> THEN 0 ELSE Head(durations).value,
         container |-> read.container, tracks |-> Numbered(read.tracks), size |-> 0]

Kind(probe, kind) == SelectSeq(probe.tracks, LAMBDA t : t.kind = kind)

\* validate: what the pipeline accepts under the settings.
Accepted(c, probe) ==
    /\ Kind(probe, "video") # <<>>
    /\ LET video == Head(Kind(probe, "video"))
           avi == probe.container = "avi" /\ c.avi
       IN  /\ c.sdr => video.fields.transfer # "dolby"
           /\ probe.container = "matroska" \/ avi
           /\ \/ video.codec \in {"h264", "h265", "av1", "vp9"}
              \/ video.codec = "vp8" /\ c.vp8
              \/ avi

-----------------------------------------------------------------------------
(* Service::probe; a step ends where the call waits. *)

Idle == [at |-> "idle"]
Goes(c, at) == asker' = [asker EXCEPT ![c] = at]

Init ==
    /\ config \in Configs
    /\ cached = None
    /\ probing = None
    /\ asker = [c \in Callers |-> Idle]
    /\ size \in Sizes

Found(c) == Goes(c, [at |-> "found", probe |-> cached, report |-> None])

\* A cached probe is used, otherwise the caller queues for the discoverer.
Ask(c) ==
    /\ asker[c].at \in {"idle", "done"}
    /\ IF cached # None THEN Found(c) ELSE Goes(c, [at |-> "queued"])
    /\ UNCHANGED <<config, cached, probing, size>>

\* probe_calls is taken; the cache is looked at again.
Enter(c) ==
    /\ asker[c].at = "queued" /\ probing = None
    /\ IF cached # None
       THEN Found(c) /\ UNCHANGED probing
       ELSE Goes(c, [at |-> "discovering"]) /\ probing' = c
    /\ UNCHANGED <<config, cached, size>>

\* The discoverer ends: probe_output refuses a report without a track.  probe_calls is
\* given up here, before the probe is in the cache: the next in the queue may have to
\* discover the file again.
Discover(c, report) ==
    /\ asker[c].at = "discovering"
    /\ LET probe == FromDiscoverer(report) IN
       Goes(c, IF probe.tracks = <<>> THEN [at |-> "done", probe |-> None]
               ELSE [at |-> "found", probe |-> probe, report |-> report])
    /\ probing' = None
    /\ UNCHANGED <<config, cached, size>>

\* refresh_file_size, then validate, then the cache; an hour begins again.
Finish(c) ==
    /\ asker[c].at = "found"
    /\ LET probe == [asker[c].probe EXCEPT !.size = IF size = None THEN @ ELSE size] IN
       IF Accepted(config, probe)
       THEN cached' = probe /\ Goes(c, [at |-> "done", probe |-> probe])
       ELSE Goes(c, [at |-> "done", probe |-> None]) /\ UNCHANGED cached
    /\ UNCHANGED <<config, probing, size>>

\* The client leaves and its request is dropped where it waits: the discoverer it ran is
\* killed with it and probe_calls is free.
GiveUp(c) ==
    /\ asker[c].at \in {"queued", "discovering", "found"}
    /\ Goes(c, Idle)
    /\ probing' = IF probing = c THEN None ELSE probing
    /\ UNCHANGED <<config, cached, size>>

\* The entry's hour ends.
Expire ==
    /\ cached # None /\ cached' = None
    /\ UNCHANGED <<config, probing, asker, size>>

\* save_config.
Configure(c) ==
    /\ config' = c
    /\ UNCHANGED <<cached, probing, asker, size>>

\* The torrent's status changes.
Resize(s) ==
    /\ size' = s
    /\ UNCHANGED <<config, cached, probing, asker>>

Next ==
    \/ \E c \in Callers :
         \/ Ask(c) \/ Enter(c) \/ Finish(c) \/ GiveUp(c)
         \/ \E report \in Reports : Discover(c, report)
    \/ Expire
    \/ \E c \in Configs : Configure(c)
    \/ \E s \in Sizes : Resize(s)

Spec == Init /\ [][Next]_vars

-----------------------------------------------------------------------------
(* Properties. *)

TypeOK ==
    /\ probing \in Callers \cup {None}
    /\ cached # None => cached.duration >= 0
    /\ \A c \in Callers : asker[c].at \in {"idle", "queued", "discovering", "found", "done"}

\* The lines that speak of the stream whose header is line p.
Section(report, p) ==
    LET ends == {q \in p + 1 .. Len(report) :
                   report[q].is \in {"stream", "container", "caps", "properties"}}
        last == IF ends = {} THEN Len(report) ELSE (CHOOSE q \in ends : \A r \in ends : q <= r) - 1
    IN  SubSeq(report, p + 1, last)

Headers(report) ==
    SetToSortSeq({p \in DOMAIN report : report[p].is = "stream"}, <)

\* A track has what its own section of the report says of it and nothing of another's
\* (probe.rs:231-289); two tracks of a kind have different numbers, so that a link
\* names one of them (probe.rs:274-285, playlist.rs:58-79).
TracksAreTheirOwn ==
    \A c \in Callers : (asker[c].at = "found" /\ asker[c].report # None) =>
      LET report == asker[c].report
          tracks == asker[c].probe.tracks
          headers == Headers(report)
      IN  /\ Len(tracks) = Len(headers)
          /\ \A i \in DOMAIN tracks :
               LET said == Section(report, headers[i]) IN
               \A f \in {"width", "channels", "title"} :
                 LET values == SelectSeq(said, LAMBDA l : l.is = "field" /\ l.name = f) IN
                 tracks[i].fields[f] = IF values = <<>> THEN None ELSE Last(values).value
          /\ \A i, j \in DOMAIN tracks :
               (i # j /\ tracks[i].kind = tracks[j].kind) => tracks[i].index # tracks[j].index

\* One discoverer at a time: each is a process that reads the torrent for up to half a
\* minute (service.rs:831-845).  Whoever holds probe_calls runs it, so that a caller who
\* left keeps nobody waiting.
OneDiscoverer ==
    /\ \A c \in Callers : asker[c].at = "discovering" => probing = c
    /\ probing # None => asker[probing].at = "discovering"
=============================================================================
