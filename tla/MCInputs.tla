------------------------------ MODULE MCInputs ------------------------------
(* The inputs the components of MCServices and MCMedia are tried on. *)
EXTENDS Integers, Sequences, SequencesExt

CONSTANT None

\* Of Launch: each option in every combination of its places.
Bare ==
    [dir |-> [line |-> None, ours |-> None, theirs |-> None],
     readOnly |-> [line |-> FALSE, ours |-> None, theirs |-> None],
     listen |-> [line |-> <<>>, ours |-> None],
     port |-> [line |-> None, theirs |-> None],
     ip |-> [line |-> <<>>, theirs |-> None],
     size |-> None, addr |-> None, proxy |-> None, mode |-> None,
     command |-> None, logSize |-> None]

Address(ip, port) == [ip |-> ip, port |-> port]

Starts ==
    UNION {
      {[Bare EXCEPT !.dir = d, !.readOnly = r] :
         d \in [line : {None, "a"}, ours : {None, "b"}, theirs : {None, "empty", "c"}],
         r \in [line : BOOLEAN, ours : {None, "on", "off"}, theirs : {None, "0", "1"}]},
      {[Bare EXCEPT !.listen = l, !.port = p, !.ip = i, !.command = c] :
         l \in [line : {<<>>, <<Address("x", "1"), Address("y", "1")>>},
                ours : {None, <<Address("any", "2")>>}],
         p \in [line : {None, "3"}, theirs : {None, "4"}],
         i \in [line : {<<>>, <<"x">>, <<"y", "any">>}, theirs : {None, "y"}],
         c \in {None, "health"}},
      {[Bare EXCEPT !.size = s, !.addr = a, !.proxy = u, !.mode = m, !.logSize = g] :
         s \in {None} \cup [number : {0, 1, 7, 8, 63, 255, 256}, unit : {"b", "k", "kb"}],
         a \in {None, [host |-> "", port |-> "5"], [host |-> "x", port |-> None]},
         u \in {None, "empty", "socks5", "http"}, m \in {None, "peers", "other"},
         g \in {None, 1, 2}}}

\* Of Announcements: a host without a network, one with addresses and with
\* interfaces that are not announced on.
Loopback ==
    [name |-> "lo", loopback |-> TRUE, up |-> TRUE, multicast |-> TRUE,
     addresses |-> {[ip |-> "l", kind |-> "loopback", net |-> "n0"]}]

Alone == {Loopback}
HostNets ==
    {Alone,
     {Loopback,
      [name |-> "eth", loopback |-> FALSE, up |-> TRUE, multicast |-> TRUE,
       addresses |-> {[ip |-> "a", kind |-> "global", net |-> "n1"],
                      [ip |-> "b", kind |-> "link", net |-> "n2"]}]}}

\* Of Settings.
Document(c, d, r, j) == [cap |-> c, dlna |-> d, rutor |-> r, json |-> j]
SettingsDocuments == {Document(0, TRUE, TRUE, FALSE), Document(2, FALSE, TRUE, FALSE)}
SettingsDefaults == Document(1, FALSE, FALSE, TRUE)

\* Of HttpApi.
Addr(n) == [v |-> 4, n |-> n]
Line(a, b) == [kind |-> "rule", says |-> [first |-> Addr(a), last |-> Addr(b)]]
Text(kind) == [kind |-> kind, says |-> None]
NoLists == [white |-> <<>>, black |-> <<>>, referers |-> <<>>]
SomeLists ==
    [white |-> <<Text("comment"), Text("bad")>>, black |-> <<Line(1, 1)>>,
     referers |-> <<[kind |-> "rule", says |-> <<"a", "b">>]>>]

Of(op, h) ==
    [op |-> op, h |-> h, method |-> "POST", peer |-> Addr(1), referer |-> None, origin |-> None,
     user |-> "account", url |-> FALSE, title |-> "", category |-> "", save |-> FALSE, index |-> 1,
     time |-> 1, files |-> <<>>, wants |-> "play", preload |-> FALSE, lists |-> NoLists,
     forwarded |-> None, xProto |-> None, xHost |-> None, host |-> "own"]
Add == [Of("add", 1) EXCEPT !.category = "b", !.title = "t"]
Stream == [Of("stream", 1) EXCEPT !.method = "GET"]
Play == [Of("play", 1) EXCEPT !.method = "GET"]
Proxied ==
    [Of("playlist", 1) EXCEPT !.method = "GET", !.xHost = "proxy", !.xProto = "https",
                              !.forwarded = [proto |-> "ws", host |-> None]]

ApiRequests ==
    {Of("list", 0), Of("get", 1), Of("drop", 1), Of("rem", 1), Of("wipe", 0), Of("cache", 1),
     Of("nonsense", 0), Of("get", 0), [Of("list", 0) EXCEPT !.method = "OPTIONS", !.origin = <<"o">>],
     [Of("set", 1) EXCEPT !.category = "c", !.title = "u"],
     Add, [Add EXCEPT !.h = 2, !.save = TRUE], [Add EXCEPT !.url = TRUE],
     [Of("upload", 0) EXCEPT !.files = <<2, 0>>, !.save = TRUE],
     [Stream EXCEPT !.user = "stranger"], [Stream EXCEPT !.preload = TRUE, !.wants = "stat", !.h = 2],
     [Stream EXCEPT !.wants = "m3u"], Proxied, [Proxied EXCEPT !.peer = Addr(9)],
     [Play EXCEPT !.method = "HEAD", !.user = "stranger"], Play, [Play EXCEPT !.h = 0],
     [Of("viewedSet", 1) EXCEPT !.index = 0], Of("viewedSet", 1),
     [Of("viewedRem", 1) EXCEPT !.index = -1], [Of("viewedSet", 1) EXCEPT !.user = "stranger"],
     [Of("setWaf", 0) EXCEPT !.lists = SomeLists], [Of("getWaf", 0) EXCEPT !.method = "HEAD"],
     [Of("getWaf", 0) EXCEPT !.referer = <<"x", "a", "b">>]}
ApiOthers ==
    {[Stream EXCEPT !.h = 2], Of("drop", 1), Of("wipe", 0), Play,
     [Of("set", 1) EXCEPT !.category = "c"], [Add EXCEPT !.save = TRUE]}
ApiSetups ==
    {[auth |-> TRUE, frozen |-> FALSE, dlna |-> TRUE, track |-> TRUE],
     [auth |-> FALSE, frozen |-> TRUE, dlna |-> FALSE, track |-> TRUE]}
ApiSaved == [h \in 1 .. 2 |-> IF h = 1 THEN [title |-> "s", category |-> "a"] ELSE None]

\* Of HlsPages.
Json(is, v) == [is |-> is, holds |-> v]
SetTo(seconds) == <<"SegmentSeconds", Json("number", seconds)>>
Object(members) == Json("object", members)
GstBodies ==
    {Object(<<<<"config", Object(<<SetTo(1), <<"TranscodeH264", Json("bool", TRUE)>>>>)>>>>),
     Object(<<<<"action", Json("string", "set")>>, <<"config", Object(<<SetTo(3)>>)>>,
              <<"config", Object(<<<<"Source", Json("string", "files")>>,
                                   <<"Subtitles", Json("null", 0)>>>>)>>>>),
     Object(<<<<"config", Object(<<SetTo(-1), <<"VideoBitrate", Json("string", "x")>>>>)>>>>),
     Object(<<<<"config", Object(<<SetTo(2)>>)>>, <<"config", Json("null", 0)>>>>),
     Object(<<<<"action", Json("string", "def")>>>>), Json("null", 0), Json("number", 1)}
GstDocuments ==
    {None, <<SetTo(2), <<"Unknown", Json("bool", TRUE)>>>>,
     <<SetTo(0), <<"Source", Json("string", "play")>>>>,
     <<SetTo(1), <<"Subtitles", Json("number", 1)>>>>}
Film == [duration |-> 13, size |-> 5, matroska |-> TRUE, codec |-> "h264", subtitles |-> {0},
         prefix |-> <<>>, at |-> <<>>]
Entry(id, position) == [id |-> id, position |-> position]
Tracks(number) ==
    [id |-> "tracks",
     entries |-> <<[video |-> FALSE, number |-> 1], [video |-> TRUE, number |-> number]>>]
Point(time) == [time |-> time, torn |-> FALSE, tracks |-> {<<7, TRUE>>}]
Cued(times, broken) ==
    [Film EXCEPT
       !.prefix = <<[id |-> "seek", entries |-> <<Entry("cues", 3), Entry("info", 2)>>],
                    [id |-> "info", scale |-> 1], Tracks(0),
                    [id |-> "seek", entries |-> <<Entry("tracks", 1), Entry("cues", 9)>>]>>,
       !.at = <<Tracks(7), [id |-> "info", scale |-> 2],
                [id |-> "cues", broken |-> broken,
                 points |-> [i \in DOMAIN times |-> Point(times[i])]
                              \o <<[Point(4) EXCEPT !.torn = TRUE],
                                   [Point(2) EXCEPT !.tracks = {<<7, FALSE>>, <<1, TRUE>>}]>>]>>]
GstFilms ==
    {Film, [Film EXCEPT !.duration = 0], [Film EXCEPT !.duration = 12],
     Cued(<<5, 1, 3, 3, 9>>, FALSE), Cued(<<0, 0>>, FALSE), Cued(<<0, 5>>, TRUE),
     Cued(<<1, None, 7>>, FALSE),
     [Cued(<<0, 1, 5>>, FALSE) EXCEPT !.codec = "vp8"], [Cued(<<1, 6, 0>>, FALSE) EXCEPT !.codec = "av1"]}
Bytes(a, b) == [from |-> a, to |-> b]

\* Of Probe.
Says(is, name, value) == [is |-> is, name |-> name, value |-> value]
Container(name) == Says("container", None, name)
Header(kind, codec) == Says("stream", kind, codec)
Field(name, value) == Says("field", name, value)
Lasts(n) == Says("duration", None, n)
Reports ==
    {<<>>,
     <<Container("avi"), Header("video", "vp8"), Field("width", 3)>>,
     <<Field("title", "film"), Lasts(7), Container("matroska"),
       Header("video", "h264"), Field("width", 1), Field("transfer", "pq"), Field("transfer", "x"),
       Header("audio", None), Field("codec", "aac"), Field("codec", "ac3"),
       Field("language name", "English"), Field("language", "en"), Field("channels", 6),
       Header("audio", "opus"), Field("channels", 2), Field("channels", 3),
       Says("properties", None, None), Field("title", "film"), Field("channels", 9),
       Header("subtitle", "srt"), Field("subtitle codec", "ass"), Field("title", "sub"), Lasts(9)>>,
     <<Container("matroska"), Container("other"), Header("video", "vp9"),
       Field("transfer", "dolby"), Says("caps", None, "matroska"), Field("width", 2),
       Header("video", "h265"), Field("width", 4)>>}

\* What WebDAV clients and the kernel ask of the tree of torrents.
LetterA == <<97>>
LetterB == <<98>>
Sniffed == <<120>>
Everything == [allprop |-> TRUE, propname |-> FALSE, prop |-> {}, include |-> {}, bad |-> FALSE]
Named(p) == [Everything EXCEPT !.allprop = FALSE, !.prop = p]
Dav(m, p) == [method |-> m, path |-> p, to |-> <<>>, depth |-> "", overwrite |-> "", body |-> Everything]
Torrent(h, t, c, live, saved) ==
    [hash |-> h, title |-> t, category |-> c, live |-> live, saved |-> saved]
OddTitle == <<32, 97, 47, 98, 1>>
OddName == <<97, 95, 98>>
OtherName == <<111>>
TreeLists ==
    {<<Torrent(1, OddTitle, <<>>, TRUE, TRUE), Torrent(2, <<46, 46>>, LetterA, FALSE, TRUE)>>,
     <<Torrent(2, LetterB, LetterA, TRUE, FALSE), Torrent(1, LetterB, <<32>>, FALSE, TRUE)>>,
     <<Torrent(1, LetterB, LetterA, TRUE, TRUE), Torrent(2, LetterB, LetterA, TRUE, TRUE)>>}
OneTreeList == CHOOSE list \in TreeLists : TRUE
TreeFiles ==
    <<<<<<LetterA, LetterA, LetterB>>, <<LetterA, Sniffed>>, <<LetterA, LetterB, LetterA>>, <<LetterA, LetterB>>>>,
      <<<<LetterB>>, <<LetterB, Sniffed>>>>>>
TreeAsks ==
    LET a == LetterA  b == LetterB  x == Sniffed  o == OtherName  up == <<46, 46>>
    IN  {Dav("GET", <<o, OddName, a, b>>), Dav("GET", <<a, b, <<>>, x, b>>),
         Dav("OPTIONS", <<o, <<46>>, OddName, a>>), Dav("PUT", <<a>>), Dav("DELETE", <<a, up, o, b>>),
         Dav("PROPPATCH", <<o>>), [Dav("PROPPATCH", <<o>>) EXCEPT !.body = Named({"getetag", "x"})],
         [Dav("MKCOL", <<o>>) EXCEPT !.body.bad = TRUE],
         [Dav("COPY", <<a>>) EXCEPT !.to = <<o, b>>, !.overwrite = "F"],
         [Dav("COPY", <<a>>) EXCEPT !.to = <<o>>, !.depth = "1"],
         [Dav("MOVE", <<a>>) EXCEPT !.to = <<o>>], [Dav("MOVE", <<a>>) EXCEPT !.to = <<a>>],
         Dav("PROPFIND", <<>>), [Dav("PROPFIND", <<o>>) EXCEPT !.depth = "1"],
         [Dav("PROPFIND", <<a, b>>) EXCEPT !.body = Named({"getcontenttype", "x"})],
         [Dav("PROPFIND", <<o>>) EXCEPT !.depth = "2"],
         [Dav("PROPFIND", <<o, OddName, x, a>>) EXCEPT !.depth = "0", !.body.include = {"x", "getetag"}],
         [Dav("PROPFIND", <<o>>) EXCEPT !.body.propname = TRUE],
         Dav("lookup", <<o>>), Dav("lookup", <<a>>), Dav("lookup", <<a, b>>),
         Dav("readdir", <<>>), Dav("readdir", <<a>>), Dav("readdir", <<a, b>>), Dav("getattr", <<a>>)}

\* What renderers ask of the media server, in a list of torrents.  A slash in a
\* request is escaped: 1047; 5000 + h stands for the hash of torrent h.
Shown(h, t, c, live) == [hash |-> h, title |-> t, category |-> c, live |-> live]
ShelfLists ==
    {<<>>,
     <<Shown(1, LetterB, <<32, 65, 32>>, FALSE), Shown(2, LetterA, LetterA, TRUE), Shown(3, LetterB, <<>>, TRUE)>>,
     <<Shown(2, LetterA, <<97, 47, 98>>, FALSE)>>,
     <<Shown(2, LetterA, <<43>>, TRUE), Shown(1, LetterB, <<37, 54, 49>>, FALSE)>>}
ShelfFile(p, m) == [path |-> p, media |-> m]
ShelfFiles ==
    <<<<ShelfFile(<<97, 47, 98>>, FALSE), ShelfFile(LetterB, TRUE)>>,
      <<ShelfFile(<<97, 47, 32>>, TRUE), ShelfFile(LetterB, TRUE)>>, <<>>>>
Soap(header, args) == [header |-> header, envelope |-> TRUE, args |-> args]
Argument(name, value) == [name |-> name, value |-> value]
Directory(action) == <<"ContentDirectory", action>>
Browse(id, flag, more) ==
    Soap(Directory("Browse"), <<Argument("id", id), Argument("flag", flag)>> \o more)
Kids(id) == Browse(id, "BrowseDirectChildren", <<>>)
Paged(id) == Browse(id, "BrowseDirectChildren", <<Argument("count", <<1>>)>>)
Meta(id) == Browse(id, "BrowseMetadata", <<>>)
ShelfCalls ==
    LET p(name)  == <<1047>> \o name
        hash(h)  == p(<<5000 + h>>)
        top      == p(<<84, 82>>)
        load     == p(<<76, 68>>)
        root     == <<48>>
    IN  {Kids(root), Kids(top), Paged(top), Kids(top \o p(LetterA)), Paged(top \o p(LetterA)),
         Kids(top \o p(<<97, 1047, 98>>)), Kids(top \o p(<<1037, 54, 49>>)), Kids(hash(1)), Paged(hash(2)), Kids(hash(1) \o load),
         Browse(hash(2) \o load, "BrowseDirectChildren",
                <<Argument("start", <<5>>), Argument("count", <<>>)>>),
         Browse(root, "BrowseDirectChildren", <<Argument("start", None)>>),
         Kids(LetterA), Kids(<<37>>), Kids(hash(2) \o p(LetterA)), Kids(p(LetterA)),
         Kids(hash(1) \o hash(2)), Meta(root), Meta(hash(3)), Meta(hash(1) \o hash(2)), Meta(top),
         Meta(top \o p(LetterA)), Meta(hash(2) \o p(LetterA)),
         Soap(None, <<>>), [Soap(Directory("Nope"), <<>>) EXCEPT !.envelope = FALSE],
         Soap(Directory("Nope"), <<>>), Soap(<<"", "">>, <<>>), Soap(Directory("X_SetBookmark"), <<>>),
         Soap(<<"ConnectionManager", "GetProtocolInfo">>, <<>>), Soap(Directory("Browse"), <<>>)}
ShelfSubscribers ==
    {[renews |-> FALSE, callbacks |-> <<1, 2>>, timeout |-> 1],
     [renews |-> TRUE, callbacks |-> <<>>, timeout |-> 0]}

\* Of Torznab: the dates around which the calendar turns, in three zones.
Stamp(y, m, d, c, o) == [year |-> y, month |-> m, day |-> d, clock |-> c, offset |-> o]
StampOf ==
    {Stamp(y, m, d, c, o) :
       y \in {1970, 1999, 2000, 2023, 2024}, m \in {2, 3}, d \in {1, 28}, c \in {0, 86399},
       o \in {0, 10800}}
      \cup {Stamp(2000, 2, 29, 0, 3600), Stamp(2024, 2, 29, 86399, -5400),
            Stamp(2023, 12, 31, 86399, -5400), Stamp(2024, 1, 1, 0, 10800)}
StampText(s) == ToString(<<s.year, s.month, s.day, s.clock, s.offset>>)
Stamps ==
    [text \in {StampText(s) : s \in StampOf} |-> CHOOSE s \in StampOf : StampText(s) = text]

Numbers == [text \in {"9", "2048"} |-> IF text = "9" THEN 9 ELSE 2048]
Magnets ==
    [text \in {"magnet:1", "magnet:2"} |-> IF text = "magnet:1" THEN <<"h1">> ELSE <<None, "h2">>]

TextField(tag, text) == [tag |-> tag, text |-> text, attributes |-> <<>>, closed |-> FALSE]
Mark(tag, attributes, closed) ==
    [tag |-> tag, text |-> <<>>, attributes |-> attributes, closed |-> closed]
NameValue(name, value) == [name |-> <<name>>, value |-> value]

Items ==
    {<<>>,
     <<TextField("title", <<"a", "&", "b">>), TextField("size", <<"9">>), TextField("link", <<"magnet:2">>)>>,
     <<TextField("title", <<"a">>), TextField("title", <<"b">>), TextField("guid", <<"9">>)>>,
     <<TextField("size", <<"big">>)>>,
     <<TextField("size", <<"9">>), Mark("enclosure", [length |-> <<"2048">>, url |-> <<"u">>], TRUE),
       Mark("enclosure", [length |-> <<"big">>], FALSE), Mark("title", <<>>, TRUE)>>,
     <<Mark("enclosure", [length |-> <<"big">>], FALSE), TextField("size", <<"9">>)>>,
     <<Mark("attr", NameValue("magneturl", <<"magnet:1", "&">>), TRUE),
       Mark("attr", NameValue("seeders", <<"9">>), FALSE), TextField("jackettindexer", <<"j">>),
       Mark("attr", NameValue("peers", <<"big">>), TRUE), TextField("prowlarrindexer", <<"p">>)>>}
Dated == {<<TextField("pubDate", <<text>>)>> : text \in DOMAIN Stamps \cup {"yesterday"}}

Child(tag, fields) == [tag |-> tag, fields |-> fields]
Image == Child("image", <<TextField("title", <<"t">>), Mark("enclosure", <<>>, TRUE)>>)
Children == {Child("item", item) : item \in Items} \cup {Image}
Feeds ==
    {<<>>} \cup {<<a>> : a \in Children} \cup {<<a, b>> : a, b \in Children}
      \cup {<<Child("item", item)>> : item \in Dated}

\* The events an indexer's feed is read as.
Event(e, name, attributes, text) ==
    [e |-> e, name |-> name, attributes |-> attributes, text |-> text]
Begins(name) == <<Event("start", name, <<>>, <<>>)>>
Ends == <<Event("end", "", <<>>, <<>>)>>
Space == <<Event("text", "", <<>>, <<"space">>)>>
FieldEvents(f) ==
    IF f.closed THEN <<Event("empty", f.tag, f.attributes, <<>>)>> \o Space
    ELSE <<Event("start", f.tag, f.attributes, <<>>)>>
           \o [i \in DOMAIN f.text |-> Event("text", "", <<>>, <<f.text[i]>>)] \o Ends \o Space
ChildEvents(child) ==
    Begins(child.tag) \o Space
      \o FlattenSeq([i \in DOMAIN child.fields |-> FieldEvents(child.fields[i])]) \o Ends
Written(feed) ==
    Begins("rss") \o Begins("channel") \o Space
      \o FlattenSeq([i \in DOMAIN feed |-> ChildEvents(feed[i])]) \o Ends \o Ends

Reply(status, feed, damage, events) ==
    [status |-> status, document |-> feed, damage |-> damage, events |-> events]
Bad(events, n) == SubSeq(events, 1, n) \o <<Event("bad", "", <<>>, <<>>)>>
Replies ==
    [host \in {"a", "b"} |->
       LET whole == IF host = "a" THEN Feeds ELSE {<<>>, <<Image, Child("item", <<>>)>>}
           hurt  == IF host = "a" THEN {<<a, Image, a>> : a \in Children} ELSE {<<>>}
       IN  {Reply(503, <<>>, "none", <<>>)}
             \cup {Reply(200, feed, "none", Written(feed)) : feed \in whole}
             \cup UNION {{Reply(200, feed, "cut", SubSeq(Written(feed), 1, n)) :
                             n \in 0 .. Len(Written(feed)) - 1} : feed \in hurt}
             \cup UNION {{Reply(200, feed, "bad", Bad(Written(feed), n)) :
                             n \in 0 .. Len(Written(feed)) - 1} : feed \in hurt}]

Indexer(host, key) == [host |-> host, key |-> key]
Searches ==
    {[enabled |-> e, indexers |-> <<Indexer("a", "k"), Indexer("c", ""), Indexer("b", "k")>>,
      index |-> i] : e \in BOOLEAN, i \in {-1, 0, 1, 7}}

\* Of FileServer: a directory with files and directories of every name, one of
\* which has a page and a file of its own.
BareTree == [p \in {<<>>} |-> "dir"]
Kinds(names) == UNION {[some -> {"dir", "file"}] : some \in SUBSET names}
Trees ==
    {[p \in {<<>>} \cup {<<n>> : n \in DOMAIN top}
             \cup (IF "a" \in DOMAIN top /\ top["a"] = "dir"
                   THEN {<<"a", n>> : n \in DOMAIN sub} ELSE {}) |->
        IF p = <<>> THEN "dir" ELSE IF Len(p) = 1 THEN top[p[1]] ELSE sub[p[2]]] :
       top \in Kinds({"a", "x:y", "index.html"}) \cup Kinds({"a", "q?", "index.html"}),
       sub \in Kinds({"x:y", "index.html"})}
Addresses ==
    {<<"">>} \cup UNION {{p, Append(p, "")} :
      p \in {<<n>> : n \in {"a", "x:y", "q?", "index.html"}}
             \cup {<<"a", n>> : n \in {"a", "x:y", "index.html"}}
             \cup {<<"a", "index.html", "b">>}}
=============================================================================
