-------------------------- MODULE ContentDirectory --------------------------
(***************************************************************************)
(* The DLNA server's ContentDirectory (rustorr-http/src/dlna): SOAP calls   *)
(* (soap.rs), the shelves they browse (content.rs) and the subscriptions to *)
(* its events (mod.rs).                                                     *)
(*                                                                         *)
(* A text is the sequence of its character codes.  An escaped character is  *)
(* one code, Escaped + c; a number above Hex stands for the forty digits of *)
(* a torrent's hash.  An object is known by an id, which is its path with   *)
(* everything escaped, and a renderer comes back with the ids it was given  *)
(* long after: between two calls, and while one waits for a torrent's       *)
(* files, torrents come and go.                                             *)
(***************************************************************************)
EXTENDS Integers, Sequences, FiniteSets

LOCAL Seqs == INSTANCE SequencesExt

CONSTANTS
    Hashes,     \* numbers
    Name,       \* of each torrent, in its metadata
    Files,      \* of each torrent: a sequence of [path, media]
    Catalogs,   \* what other clients may make of the list: sequences of
                \* [hash, title, category, live]
    Calls,      \* what renderers ask; see Receive
    Subscribers,\* [renews, callbacks, timeout]: what they subscribe with
    MaxChanges, \* how often the list changes
    None

VARIABLES
    catalog,    \* what TorrentCommand::List answers, newest first
    call,       \* the call being answered, or None
    cursor,     \* a renderer that reads the children of one object in pages
    answer,     \* [says, to]: to the last call, or None
    events,     \* for each subscription: "none", or the answer and the callbacks
                \* that its first event has still to reach
    changes,    \* to the list so far
    steady      \* history: none since the call, and its torrent was loaded

shelfVars == <<catalog, call, cursor, answer, events, changes, steady>>

-----------------------------------------------------------------------------
(* Texts, paths and ids. *)

Escaped == 1000
Hex == 5000
Slash == 47
Space == 32
TR == <<84, 82>>
LD == <<76, 68>>
NT == <<78, 84>>
Zero == <<48>>
Uncategorized == <<117>>

HashText(h) == <<Hex + h>>

\* path_escape, but for the plus sign, which it leaves as it is.
Reserved == {Slash, Space, 37}
Escape(text) == [i \in DOMAIN text |-> IF text[i] \in Reserved THEN Escaped + text[i] ELSE text[i]]

\* percent_decode_str: what is not escaped stays.
Decode(text) ==
    [i \in DOMAIN text |-> IF text[i] \in Escaped .. Hex THEN text[i] - Escaped ELSE text[i]]

\* query_unescape, of a text without a bare percent sign: a plus is a space.
Unescape(text) == [i \in DOMAIN text |-> IF text[i] = 43 THEN Space ELSE Decode(text)[i]]

Split(text) ==
    Seqs!FoldLeft(LAMBDA done, c :
                    IF c = Slash THEN Append(done, <<>>)
                    ELSE [done EXCEPT ![Len(done)] = Append(@, c)],
                  << <<>> >>, text)

\* The text of a path.
Text(path) ==
    IF path = <<>> THEN <<Slash>>
    ELSE Seqs!FoldLeft(LAMBDA done, name : done \o <<Slash>> \o name, <<>>, path)

\* clean of a rooted text, as the names of the path.
Clean(text) ==
    Seqs!FoldLeft(LAMBDA done, name :
                    IF name \in {<<>>, <<46>>} THEN done
                    ELSE IF name = <<46, 46>> THEN SubSeq(done, 1, Len(done) - 1)
                    ELSE Append(done, name),
                  <<>>, Split(text))

\* object_path.
BadId(id) ==
    \/ \E i \in DOMAIN id : id[i] = 37
    \/ id # Zero /\ (id = <<>> \/ Head(Unescape(id)) # Slash)
PathOf(id) == IF Unescape(id) = Zero THEN <<>> ELSE Clean(Unescape(id))

\* The id of a path: its text escaped whole.
IdOf(path) == Escape(Text(path))

Base(path) == IF path = <<>> THEN <<Slash>> ELSE path[Len(path)]
DirOf(path) == SubSeq(path, 1, Len(path) - 1)
IsHashPath(path) == \E h \in Hashes : Base(path) = HashText(h)

\* Below /TR: what follows is one category, slashes included.
IsCategoryPath(path) == Len(path) > 1 /\ path[1] = TR
Trim(text) ==
    LET seen == {i \in DOMAIN text : text[i] # Space}
    IN  IF seen = {} THEN <<>>
        ELSE SubSeq(text, CHOOSE i \in seen : \A j \in seen : i <= j,
                          CHOOSE i \in seen : \A j \in seen : j <= i)
Normalize(category) ==
    LET t == Trim(category)
    IN  IF t = <<>> THEN Uncategorized
        ELSE [i \in DOMAIN t |-> IF t[i] \in 65 .. 90 THEN t[i] + 32 ELSE t[i]]

\* A percent sign that was escaped itself, and two digits: what they would escape.
Digit(c) == IF c \in 48 .. 57 THEN c - 48 ELSE IF c \in 97 .. 102 THEN c - 87 ELSE c - 55
IsDigit(c) == c \in 48 .. 57 \cup 65 .. 70 \cup 97 .. 102
Escapes(text) ==
    Seqs!FoldLeft(LAMBDA done, c :
                    LET n == Len(done)
                    IN  IF n > 1 /\ done[n - 1] = 37 /\ IsDigit(done[n]) /\ IsDigit(c)
                        THEN Append(SubSeq(done, 1, n - 2), Escaped + 16 * Digit(done[n]) + Digit(c))
                        ELSE Append(done, c),
                  <<>>, text)

\* The name below /TR is decoded again, though its id was.
CategoryOf(path) == Normalize(Decode(Escapes(Tail(Text(Tail(path))))))

-----------------------------------------------------------------------------
(* Objects. *)

Container(id, parent, title, count) ==
    [id |-> id, parent |-> parent, title |-> title, count |-> count, file |-> 0, hash |-> 0]

In(list, category) == SelectSeq(list, LAMBDA t : Normalize(t.category) = category)
Categories(list) == {Normalize(t.category) : t \in Seqs!ToSet(list)}

Less(a, b) ==
    \E n \in 0 .. Len(a) :
      /\ n < Len(b) /\ SubSeq(a, 1, n) = SubSeq(b, 1, n)
      /\ n = Len(a) \/ a[n + 1] < b[n + 1]

\* categories: the known ones come first, which only is an order; here by name.
CategoryShelf(list) ==
    LET order == Seqs!SetToSortSeq(Categories(list), Less)
    IN  IF list = <<>> THEN <<Container(IdOf(<<NT>>), IdOf(<<TR>>), NT, 0)>>
        ELSE [i \in DOMAIN order |->
                Container(Escape(<<Slash>> \o TR \o <<Slash>> \o order[i]), IdOf(<<TR>>), order[i],
                          Len(In(list, order[i])))]

TorrentShelf(list, category) ==
    LET parent == Escape(<<Slash>> \o TR \o <<Slash>> \o category)
        order  == Seqs!SetToSortSeq({<<In(list, category)[i].title, i>> : i \in DOMAIN In(list, category)},
                                    LAMBDA a, b : \/ Less(a[1], b[1])
                                                  \/ a[1] = b[1] /\ a[2] < b[2])
    IN  IF order = <<>> THEN <<Container(IdOf(<<NT>>), parent, NT, 0)>>
        ELSE [i \in DOMAIN order |->
                LET t == In(list, category)[order[i][2]]
                IN  Container(IdOf(<<HashText(t.hash)>>), parent, t.title, 1)]

\* The media files of a torrent.  A file is linked to by its place in the list.
FileShelf(h) ==
    LET media == SelectSeq([i \in DOMAIN Files[h] |-> <<i, Files[h][i]>>], LAMBDA f : f[2].media)
    IN  [i \in DOMAIN media |->
           [id |-> IdOf(<<HashText(h)>> \o Split(media[i][2].path)), parent |-> IdOf(<<HashText(h)>>),
            title |-> media[i][2].path, count |-> 0, file |-> media[i][1], hash |-> h]]

\* The first torrent of the list whose hash is somewhere in the path.
Mentioned(path) == {i \in DOMAIN catalog : HashText(catalog[i].hash) \in Seqs!ToSet(path)}
Meant(path) == catalog[CHOOSE i \in Mentioned(path) : \A j \in Mentioned(path) : i <= j]

\* What load answers, of children: a loaded torrent and the button of another.
Loads(path) ==
    /\ path # <<>> /\ ~IsCategoryPath(path)
    /\ IF IsHashPath(path) THEN Mentioned(path) # {} /\ Meant(path).live ELSE Base(path) = LD

\* Faulty variant: the button to load a torrent has the torrent's own id.
Children_LoadIsItself(path) ==
    IF path = <<>> THEN <<Container(IdOf(<<TR>>), Zero, TR, Len(catalog))>>
    ELSE IF path = <<TR>> THEN CategoryShelf(catalog)
    ELSE IF IsCategoryPath(path) THEN TorrentShelf(catalog, CategoryOf(path))
    ELSE IF IsHashPath(path) /\ Mentioned(path) # {}
    THEN LET id == IdOf(<<HashText(Meant(path).hash)>>) IN <<Container(id, id, LD, 1)>>
    ELSE <<>>

Children(path) ==
    IF path = <<>> THEN <<Container(IdOf(<<TR>>), Zero, TR, Len(catalog))>>
    ELSE IF path = <<TR>> THEN CategoryShelf(catalog)
    ELSE IF IsCategoryPath(path) THEN TorrentShelf(catalog, CategoryOf(path))
    ELSE IF IsHashPath(path) /\ Mentioned(path) # {}
    THEN LET id == IdOf(<<HashText(Meant(path).hash)>>) IN <<Container(id \o IdOf(<<LD>>), id, LD, 1)>>
    ELSE <<>>

\* load: the torrent is the one above, or the last name of a path of one.
LoadHash(path) ==
    LET name == IF Len(path) < 2 THEN Base(path) ELSE Base(DirOf(path))
    IN  IF \E h \in Hashes : name = HashText(h) THEN CHOOSE h \in Hashes : name = HashText(h)
        ELSE None

\* getTorrentMeta; None where a torrent is not in the list.
Metadata(path) ==
    IF path = <<>> THEN Container(Zero, <<45, 49>>, <<>>, 1)
    ELSE IF IsCategoryPath(path)
    THEN Container(IdOf(path), IdOf(<<TR>>), CategoryOf(path), Len(In(catalog, CategoryOf(path))))
    ELSE IF Base(path) = TR THEN Container(IdOf(<<TR>>), Zero, TR, Len(catalog))
    ELSE IF IsHashPath(path)
    THEN IF Mentioned(path) = {} THEN None
         ELSE Container(IdOf(<<HashText(Meant(path).hash)>>), IdOf(<<TR>>), Meant(path).title, 1)
    ELSE Container(IdOf(path), IdOf(DirOf(path)), Base(path), 1)

-----------------------------------------------------------------------------
(* Calls. *)

\* Arguments, in order, as [name, value]; the last of a name holds, and a number
\* is a sequence of one, or of none, or it is None and cannot be read.
Number(value) == IF value = <<>> THEN 0 ELSE Head(value)
Argument(args, name, default) ==
    LET at == {i \in DOMAIN args : args[i].name = name}
    IN  IF at = {} THEN default ELSE args[CHOOSE i \in at : \A j \in at : j <= i].value

ArgumentsFail(args) ==
    \E i \in DOMAIN args : args[i].name \in {"start", "count"} /\ args[i].value = None

Fault(code) == [is |-> "fault", code |-> code]
Refused(code) == [is |-> "refused", code |-> code]
Result(what) == [is |-> "result", what |-> what]

Page(entries, start, count) ==
    LET first == IF start < 0 THEN 0 ELSE IF start > Len(entries) THEN Len(entries) ELSE start
        rest  == SubSeq(entries, first + 1, Len(entries))
    IN  IF count > 0 /\ count < Len(rest) THEN SubSeq(rest, 1, count) ELSE rest

Shelf(args, entries) ==
    [is |-> "shelf", total |-> Len(entries),
     page |-> Page(entries, Number(Argument(args, "start", <<>>)), Number(Argument(args, "count", <<>>)))]

Simple(service, action) ==
    \/ service = "ContentDirectory"
         /\ action \in {"GetSystemUpdateID", "GetSortCapabilities", "GetSearchCapabilities",
                        "X_GetFeatureList", "X_SetBookmark"}
    \/ service = "ConnectionManager" /\ action \in {"GetCurrentConnectionIDs", "GetProtocolInfo"}
    \/ service = "X_MS_MediaReceiverRegistrar"
         /\ action \in {"IsAuthorized", "IsValidated", "RegisterDevice"}

NoCursor == [id |-> None, next |-> 0, got |-> <<>>]

Init ==
    /\ catalog \in Catalogs
    /\ call = None /\ answer = None /\ cursor = NoCursor
    /\ events = [s \in Subscribers |-> [is |-> "none"]]
    /\ changes = 0 /\ steady = TRUE

TypeOK ==
    /\ \A i, j \in DOMAIN catalog : catalog[i].hash = catalog[j].hash => i = j
    /\ \A i \in DOMAIN catalog :
         catalog[i].hash \in Hashes /\ catalog[i].live \in BOOLEAN
    /\ call # None => call.at \in {"browse", "known", "add"}
    /\ \A s \in Subscribers : events[s].is \in {"none", "refused", "due"}
    /\ changes \in 0 .. MaxChanges /\ steady \in BOOLEAN

Replies(c, a) == answer' = [says |-> a, to |-> c] /\ call' = None

\* What a call, [header, envelope, args], is answered at once.  A header that names
\* nothing asks for no service, as <<"", "">>; a bad one, None, and a bad envelope
\* get an HTTP error.
Flag(c) == Argument(c.args, "flag", "")
Reply(c) ==
    CASE c.header = None \/ ~c.envelope -> Refused(400)
      [] Simple(c.header[1], c.header[2]) -> Result(c.header[2])
      [] c.header # <<"ContentDirectory", "Browse">> -> Fault(401)
      [] ArgumentsFail(c.args) -> Fault(501)
      [] BadId(Argument(c.args, "id", <<>>)) -> Fault(701)
      [] Flag(c) \notin {"BrowseDirectChildren", "BrowseMetadata"} -> Fault(600)
      [] OTHER -> None

Browsing(c) ==
    [call |-> c, at |-> "browse", path |-> PathOf(Argument(c.args, "id", <<>>)), hash |-> None]

Receive(c) ==
    /\ call = None /\ answer = None /\ cursor = NoCursor
    /\ IF Reply(c) # None THEN Replies(c, Reply(c)) /\ UNCHANGED cursor
       ELSE /\ call' = Browsing(c)
            /\ cursor' = IF \/ Flag(c) = "BrowseMetadata"
                            \/ \E i \in DOMAIN c.args : c.args[i].name = "start"
                         THEN cursor ELSE [NoCursor EXCEPT !.id = c]
            /\ UNCHANGED answer
    /\ steady' = TRUE
    /\ UNCHANGED <<catalog, events, changes>>

\* The renderer asks for the next page.
ReadOn ==
    /\ call = None /\ answer = None /\ cursor.id # None /\ cursor.next > 0
    /\ call' = Browsing([cursor.id EXCEPT
                           !.args = Append(@, [name |-> "start", value |-> <<cursor.next>>])])
    /\ UNCHANGED <<catalog, cursor, answer, events, changes, steady>>

\* A page arrives; the renderer reads on until it has the total.
Reads(entries) ==
    LET s == Shelf(call.call.args, entries)
        n == cursor.next + Len(s.page)
    IN  cursor' = IF cursor.id = None THEN cursor
                  ELSE [cursor EXCEPT !.got = @ \o s.page,
                                      !.next = IF s.page = <<>> \/ n >= s.total THEN 0 ELSE n]

AnswersShelf(entries) == Replies(call.call, Shelf(call.call.args, entries)) /\ Reads(entries)

\* browse: the list is asked for; a torrent with files goes on to load.
Browse ==
    /\ call # None /\ call.at = "browse"
    /\ IF Argument(call.call.args, "flag", "") = "BrowseMetadata"
       THEN /\ Replies(call.call, IF Metadata(call.path) = None THEN Fault(501)
                                  ELSE [is |-> "object", object |-> Metadata(call.path)])
            /\ UNCHANGED cursor
       ELSE IF ~Loads(call.path) THEN AnswersShelf(Children(call.path))
       ELSE IF LoadHash(call.path) = None THEN AnswersShelf(<<>>)
       ELSE /\ call' = [call EXCEPT !.at = "known", !.hash = LoadHash(call.path)]
            /\ UNCHANGED <<cursor, answer>>
    /\ UNCHANGED <<catalog, events, changes, steady>>

InList(h) == \E i \in DOMAIN catalog : catalog[i].hash = h

Get ==
    /\ call # None /\ call.at = "known"
    /\ IF InList(call.hash) THEN call' = [call EXCEPT !.at = "add"] /\ UNCHANGED <<cursor, answer>>
       ELSE AnswersShelf(<<>>)
    /\ UNCHANGED <<catalog, events, changes, steady>>

\* The torrent is added by its hash: unloaded it is loaded, and one that is gone
\* since is back, under the name it has itself; without its files if not live.
Holding(h, live) ==
    IF InList(h)
    THEN [i \in DOMAIN catalog |->
            IF catalog[i].hash = h THEN [catalog[i] EXCEPT !.live = @ \/ live] ELSE catalog[i]]
    ELSE <<[hash |-> h, title |-> Name[h], category |-> <<>>, live |-> live]>> \o catalog

AddSucceeds ==
    /\ call # None /\ call.at = "add"
    /\ catalog' = Holding(call.hash, TRUE)
    /\ AnswersShelf(FileShelf(call.hash))
    /\ UNCHANGED <<events, changes, steady>>

\* For a minute it cannot be added, or its files do not come.
AddTimesOut ==
    /\ call # None /\ call.at = "add"
    /\ \A i \in DOMAIN catalog : catalog[i].hash = call.hash => ~catalog[i].live
    /\ AnswersShelf(<<>>)
    /\ catalog' \in {catalog, Holding(call.hash, FALSE)}
    /\ steady' = FALSE
    /\ UNCHANGED <<events, changes>>

Taken ==
    /\ answer # None
    /\ answer' = None
    /\ cursor' = IF cursor.next = 0 THEN NoCursor ELSE cursor
    /\ UNCHANGED <<catalog, call, events, changes, steady>>

\* The answer's timeout: a second less than asked for.
Lasts(timeout) == IF timeout >= 1 THEN timeout - 1 ELSE timeout

\* A subscription gets an id and a timeout and, a moment later, one event at each
\* of its callbacks; what does not answer is left out.  A renewal is refused.
Subscribe(s) ==
    /\ events[s].is = "none"
    /\ events' = [events EXCEPT ![s] =
                    IF s.renews THEN [is |-> "refused"]
                    ELSE [is |-> "due", lasts |-> Lasts(s.timeout), left |-> s.callbacks]]
    /\ UNCHANGED <<catalog, call, cursor, answer, changes, steady>>

InitialEvent(s) ==
    /\ events[s].is = "due" /\ events[s].left # <<>>
    /\ events' = [events EXCEPT ![s].left = Tail(@)]
    /\ UNCHANGED <<catalog, call, cursor, answer, changes, steady>>

Change ==
    /\ call # None \/ cursor.next > 0
    /\ changes < MaxChanges
    /\ catalog' \in Catalogs \ {catalog}
    /\ changes' = changes + 1 /\ steady' = FALSE
    /\ UNCHANGED <<call, cursor, answer, events>>

Next ==
    \/ \E c \in Calls : Receive(c)
    \/ ReadOn \/ Browse \/ Get \/ AddSucceeds \/ AddTimesOut \/ Taken \/ Change
    \/ \E s \in Subscribers : Subscribe(s) \/ InitialEvent(s)

Spec == Init /\ [][Next]_shelfVars
-----------------------------------------------------------------------------
(* Properties. *)

Answers(what) == answer # None /\ answer.says.is = what
Asked == PathOf(Argument(answer.to.args, "id", <<>>))

\* A category whose id leads back to it: no plus sign, which comes back as a
\* space, nothing that reads as escaped, and no name that clean takes out.
Plain(category) ==
    /\ \A i \in DOMAIN category : category[i] # 43
    /\ Escapes(category) = category
    /\ Clean(<<Slash>> \o category) = Split(category)

\* A renderer can walk down from what it is shown: while the list stays as it is
\* the id of each entry is the id of the object it leads to, and a category that
\* says how many torrents it has shows so many, which with those of the others
\* are all (content.rs:67-101, 207-330).
WalksDown ==
    (Answers("shelf") /\ steady) =>
      \A i \in DOMAIN answer.says.page :
        LET e    == answer.says.page[i]
            path == PathOf(e.id)
        IN  /\ (Asked = <<TR>> => Plain(e.title)) /\ e.file = 0 =>
                 /\ ~BadId(e.id)
                 /\ Metadata(path) # None /\ Metadata(path).id = e.id
                 /\ Asked = <<TR>> /\ e.count > 0 => e.count = Len(Children(path))
            /\ Asked = <<>> =>
                 e.count = Seqs!FoldSet(LAMBDA c, n : n + Len(In(catalog, c)), 0, Categories(catalog))

\* Read page by page a list that stays as it is comes out whole and in order
\* (content.rs:48-61).
Whole(path) ==
    IF ~Loads(path) THEN Children(path)
    ELSE IF LoadHash(path) = None \/ ~InList(LoadHash(path)) THEN <<>>
    ELSE FileShelf(LoadHash(path))

PagesJoin ==
    (Answers("shelf") /\ cursor.id # None /\ cursor.next = 0 /\ steady) => cursor.got = Whole(Asked)

\* Whatever happens to the list meanwhile, the files an answer lists are media
\* files of the torrent that was asked for, each linked to by its own place, and
\* their parent is that torrent; so is that of the button to load it
\* (content.rs:274-330, 333-399).
FilesAreItsOwn ==
    Answers("shelf") =>
      \A i \in DOMAIN answer.says.page :
        LET e == answer.says.page[i]
        IN  /\ e.file # 0 =>
                 /\ HashText(e.hash) \in Seqs!ToSet(Asked)
                 /\ e.parent = IdOf(<<HashText(e.hash)>>)
                 /\ Files[e.hash][e.file].media
                 /\ e.id = e.parent \o IdOf(Split(Files[e.hash][e.file].path))
            /\ e.title = LD =>
                 /\ Loads(PathOf(e.id)) /\ LoadHash(PathOf(e.id)) # None
                 /\ e.parent = IdOf(<<HashText(LoadHash(PathOf(e.id)))>>)

ShelfRight == WalksDown /\ PagesJoin /\ FilesAreItsOwn
=============================================================================
