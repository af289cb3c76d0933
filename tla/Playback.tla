------------------------------ MODULE Playback ------------------------------
(***************************************************************************)
(* What a player is answered when it asks for a file of a torrent, or for  *)
(* ranges of it, on the two routes that serve files (rustorr-http): "play", *)
(* which is /stream and /play (app.rs raw_playback), and "content", which  *)
(* is WebDAV and the linked directory (serve_content.rs serve).            *)
(*                                                                         *)
(* Conditional headers are kept as what they say of the file served: a tag *)
(* is the file's ("same"), its weak form, another's or "*"; a date lies    *)
(* before the file's, is its own or lies after it.  A byte is its offset.  *)
(* The reader behind a body is Coordinator's; here it may fail under way.  *)
(***************************************************************************)
EXTENDS Integers, Sequences

LOCAL Seqs == INSTANCE SequencesExt

CONSTANTS
    Lengths,    \* of the file: a set of numbers
    Requests,   \* [route, method, match, unmodified, noneMatch, modified, ifRange, range]
    MaxRanges,  \* 64 in the code
    MaxSize,    \* max_stream_size, in bytes, or NoValue
    Timecodes,  \* where a client may say it is
    NoValue

VARIABLES
    length,     \* of the file
    request,    \* the request being answered, or NoValue
    step,       \* where its handler is
    listed,     \* the timecode touch_viewed read
    viewed,     \* the file's row of the table viewed, or NoValue
    answer      \* [status, parts, sent, broken]: the ranges of the body, how
                \* many of them were sent, and whether a call for them failed,
                \* before the answer or under way

\* A range header that is read has a specification at least.
ASSUME PlaybackAssumption ==
    /\ NoValue \notin Int \cup Requests
    /\ NoValue \notin {"same", "weak", "other", "star", "before", "at", "after"}
    /\ Lengths \subseteq Nat /\ MaxRanges \in Nat /\ Timecodes \subseteq Int
    /\ MaxSize \in Nat \cup {NoValue}
    /\ \A r \in Requests :
         /\ r.route \in {"play", "content"}
         /\ \/ r.range = NoValue
            \/ /\ r.range \in Seq([from : Nat \cup {NoValue}, to : Nat \cup {NoValue}])
               /\ r.range # <<>>

playbackVars == <<length, request, step, listed, viewed, answer>>

-----------------------------------------------------------------------------
(* range.rs parse. *)

\* A specification is [from, to]; NoValue stands for what is left out.
FirstByte(spec) ==
    IF spec.from # NoValue THEN spec.from
    ELSE IF spec.to > length THEN 0 ELSE length - spec.to

\* Faulty variant: the last byte may be one past the end.
LastByte_PastTheEnd(spec) ==
    IF spec.from = NoValue \/ spec.to = NoValue \/ spec.to > length THEN length - 1 ELSE spec.to

LastByte(spec) ==
    IF spec.from = NoValue \/ spec.to = NoValue \/ spec.to >= length THEN length - 1 ELSE spec.to

\* Neither number, or no byte at all.
Refused(spec) ==
    IF spec.from = NoValue THEN spec.to \in {NoValue, 0}
    ELSE spec.from >= length \/ LastByte(spec) < spec.from

\* One bad specification, or one too many, and there are no ranges.  Both routes
\* answer both errors alike, but for an empty file.
ParseFails(specs) ==
    \/ length = 0
    \/ Len(specs) > MaxRanges
    \/ \E k \in DOMAIN specs : Refused(specs[k])

Parse(specs) ==
    [k \in DOMAIN specs |-> [first |-> FirstByte(specs[k]), last |-> LastByte(specs[k])]]

Bytes(ranges) ==
    Seqs!FoldLeft(LAMBDA sum, r : sum + r.last - r.first + 1, 0, ranges)

Whole == IF length = 0 THEN <<>> ELSE <<[first |-> 0, last |-> length - 1]>>

-----------------------------------------------------------------------------
(* The conditions, per route: 403, 412, 304 or 0 for going on. *)

\* Only "play" has a limit, and looks at it first.
Withheld(r) == r.route = "play" /\ MaxSize # NoValue /\ length > MaxSize

NotModified(r) ==
    \/ r.noneMatch \in {"same", "weak", "star"}
    \/ r.noneMatch = NoValue /\ r.modified \in {"at", "after"}

PlayCondition(r) ==
    IF Withheld(r) THEN 403
    ELSE IF r.match \in {"other", "weak"} \/ r.unmodified = "before" THEN 412
    ELSE IF NotModified(r) THEN 304 ELSE 0

\* If-Match takes the place of If-Unmodified-Since, as in Go.
ContentCondition(r) ==
    IF r.match \in {"other", "weak"} \/ (r.match = NoValue /\ r.unmodified = "before") THEN 412
    ELSE IF NotModified(r) THEN 304 ELSE 0

\* If-Range: the ranges still belong to the copy the client has.
Fresh(r) ==
    r.ifRange \in {NoValue, "same", "at"} \cup (IF r.route = "play" THEN {"after"} ELSE {})

Answer(status, parts) == [status |-> status, parts |-> parts, sent |-> 0, broken |-> FALSE]
NoAnswer == Answer(0, <<>>)
Failure(status) == [Answer(status, <<>>) EXCEPT !.broken = TRUE]

\* The answer once the conditions hold.  serve sends the whole file where the
\* ranges are more than that, or where an empty file has none of them.
Ranged(r) ==
    IF r.range = NoValue \/ ~ Fresh(r) THEN Answer(200, Whole)
    ELSE IF ParseFails(r.range)
         THEN IF r.route = "content" /\ length = 0 THEN Answer(200, Whole) ELSE Answer(416, <<>>)
    ELSE IF r.route = "content" /\ Bytes(Parse(r.range)) > length THEN Answer(200, Whole)
    ELSE Answer(206, Parse(r.range))

-----------------------------------------------------------------------------
HttpInit ==
    /\ length \in Lengths
    /\ request = NoValue /\ step = "idle"
    /\ listed = 0 /\ viewed = NoValue
    /\ answer = NoAnswer

Receive ==
    /\ step = "idle"
    /\ request' \in Requests /\ step' = "conditions"
    /\ UNCHANGED <<length, listed, viewed, answer>>

\* raw_playback touches the viewed file once the conditions hold.
Conditions ==
    /\ step = "conditions"
    /\ LET status == IF request.route = "play" THEN PlayCondition(request)
                     ELSE ContentCondition(request)
       IN  IF status # 0
           THEN answer' = Answer(status, <<>>) /\ step' = "done"
           ELSE /\ step' = IF request.route = "play" THEN "list" ELSE "ranges"
                /\ UNCHANGED answer
    /\ UNCHANGED <<length, request, listed, viewed>>

\* touch_viewed lists, then sets what it listed: two calls of the core.
ListViewed ==
    /\ step = "list"
    /\ listed' = IF viewed = NoValue THEN 0 ELSE viewed
    /\ step' = "touch"
    /\ UNCHANGED <<length, request, viewed, answer>>

TouchViewed ==
    /\ step = "touch"
    /\ viewed' = listed
    /\ step' = "ranges"
    /\ UNCHANGED <<length, request, listed, answer>>

\* The core fails to list or to set, and "play" answers its error.
ViewedFails ==
    /\ step \in {"list", "touch"}
    /\ answer' = Failure(400)
    /\ step' = "done"
    /\ UNCHANGED <<length, request, listed, viewed>>

Ranges ==
    /\ step = "ranges"
    /\ answer' = Ranged(request)
    /\ step' = IF answer'.parts = <<>> \/ request.method = "HEAD" THEN "done" ELSE "body"
    /\ UNCHANGED <<length, request, listed, viewed>>

\* serve reads the head of a file whose name does not tell its type before it
\* looks at the ranges, for any method, and cannot.
SniffFails ==
    /\ step = "ranges" /\ request.route = "content"
    /\ answer' = Failure(500)
    /\ step' = "done"
    /\ UNCHANGED <<length, request, listed, viewed>>

\* A body of one part has its reader opened before the headers go out, in
\* "play" for HEAD as well, and is an error where it cannot be opened: the
\* core's in "play"; in serve one of the range, if there is one.
OpenFails ==
    /\ step = "ranges"
    /\ LET a == Ranged(request)
       IN  /\ a.status \in {200, 206} /\ Len(a.parts) <= 1
           /\ request.method = "GET" \/ request.route = "play"
           /\ answer' = Failure(IF request.route = "play" THEN 400
                                ELSE IF a.status = 206 THEN 416 ELSE 500)
    /\ step' = "done"
    /\ UNCHANGED <<length, request, listed, viewed>>

\* The next range is sent.
Part ==
    /\ step = "body"
    /\ answer' = [answer EXCEPT !.sent = @ + 1]
    /\ step' = IF answer.sent + 1 = Len(answer.parts) THEN "done" ELSE "body"
    /\ UNCHANGED <<length, request, listed, viewed>>

\* A reader fails, or that of a later part cannot be opened.
Break ==
    /\ step = "body"
    /\ answer' = [answer EXCEPT !.broken = TRUE]
    /\ step' = "done"
    /\ UNCHANGED <<length, request, listed, viewed>>

\* Other requests of the API store and remove positions meanwhile.
SetViewed(timecode) ==
    /\ step # "idle" /\ viewed' = timecode
    /\ UNCHANGED <<length, request, step, listed, answer>>

RemoveViewed ==
    /\ step # "idle" /\ viewed' = NoValue
    /\ UNCHANGED <<length, request, step, listed, answer>>

HttpNext ==
    \/ Receive \/ Conditions \/ ListViewed \/ TouchViewed \/ ViewedFails
    \/ Ranges \/ SniffFails \/ OpenFails \/ Part \/ Break
    \/ \E timecode \in Timecodes : SetViewed(timecode)
    \/ RemoveViewed

HttpSpec == HttpInit /\ [][HttpNext]_playbackVars

-----------------------------------------------------------------------------
(* Properties. *)

HttpTypeOK ==
    /\ step \in {"idle", "conditions", "list", "touch", "ranges", "body", "done"}
    /\ request = NoValue <=> step = "idle"
    /\ viewed \in Timecodes \cup {0, NoValue}
    /\ answer.sent \in 0 .. Len(answer.parts)

\* The bytes a specification asks for, whatever the code makes of it.
Named(spec) ==
    {i \in 0 .. length - 1 :
       IF spec.from = NoValue THEN spec.to # NoValue /\ i >= length - spec.to
       ELSE i >= spec.from /\ (spec.to = NoValue \/ i <= spec.to)}

Plain(r) == \A h \in {"match", "unmodified", "noneMatch", "modified", "ifRange"} : r[h] = NoValue

\* A player that seeks gets the bytes it asked for: each part is what its
\* specification names, in the order asked, of the copy the player has; a
\* whole file is whole; 304 and 412 are only said when the player's copy is
\* current and when a precondition fails, and 416 when a range is empty or there
\* are too many, or, of one range on the content route, when its reader could
\* not be opened (serve_content.rs:407-409: "cannot seek"); and a request without
\* conditions for ranges that exist is served, unless the file is over the limit
\* or a call for it fails (range.rs:19-63, app.rs:1207-1378,
\* serve_content.rs:186-428).
AnswersRight ==
    LET r == request
        a == answer
        possible == \A k \in DOMAIN r.range : Named(r.range[k]) # {}
        short == Len(r.range) <= MaxRanges
    IN  /\ a.status = 206 =>
             /\ r.ifRange \notin {"other", "weak", "before"}
             /\ short /\ possible
             /\ Len(a.parts) = Len(r.range)
             /\ \A k \in DOMAIN a.parts :
                  a.parts[k].first .. a.parts[k].last = Named(r.range[k])
        /\ a.status = 200 =>
             UNION {a.parts[k].first .. a.parts[k].last : k \in DOMAIN a.parts} = 0 .. length - 1
        /\ a.status = 416 =>
             \/ ~ possible \/ ~ short
             \/ a.broken /\ r.route = "content" /\ Len(r.range) = 1
        /\ a.status = 304 =>
             r.noneMatch \in {"same", "weak", "star"} \/ r.modified \in {"at", "after"}
        /\ a.status = 412 => r.match \in {"other", "weak"} \/ r.unmodified = "before"
        /\ (step = "done" /\ Plain(r) /\ r.range # NoValue /\ short /\ possible) =>
             a.status \in {200, 206} \/ a.broken \/ Withheld(r)
=============================================================================
