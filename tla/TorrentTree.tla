----------------------------- MODULE TorrentTree -----------------------------
(***************************************************************************)
(* The tree of torrents (rustorr-vfs) as WebDAV (webdav/mod.rs, xml.rs) and *)
(* FUSE (rustorr-fuse) show it: categories, their torrents, and the files  *)
(* of each below their display paths.                                      *)
(*                                                                         *)
(* Nothing of the tree is kept: a path is opened one name at a time, each  *)
(* from the list of torrents as it is then, and between two of those reads *)
(* torrents come, go and change their names.  A name is the sequence of    *)
(* its character codes, a path the sequence of its names.  The locks a     *)
(* WebDAV request takes first are DavLocks'; here it has them.             *)
(***************************************************************************)
EXTENDS Integers, Sequences, FiniteSets, TLC

LOCAL Seqs == INSTANCE SequencesExt

CONSTANTS
    Hashes,     \* numbers; a torrent without a title is called by HashName
    HashName,
    Name,       \* of each torrent, in its metadata
    Files,      \* of each torrent: paths, in order
    Sniffed,    \* a last name whose extension tells no media type
    Catalogs,   \* initial lists: sequences of [hash, title, category, live, saved]
    Titles,     \* titles and categories a client may give
    Asks,       \* what clients and the kernel ask; see Ask
    Attempts,   \* how often metadata is asked for: twice the disconnect timeout
    Buffer,     \* directory entries that fit in one answer to the kernel
    MaxChanges, \* changes to the list while requests are answered
    None

VARIABLES
    catalog,    \* what TorrentCommand::List answers, newest first
    active,     \* show_fs_active_torr
    asked,      \* the request being answered, or None; see Opening
    numbered,   \* Inodes: the paths that have a number, which they keep
    stream,     \* what one reader of a directory has got of it
    answer,     \* [says, to]: to the last request, or None
    changes,    \* to the list so far
    steady      \* history: nothing changed while it was answered, and each
                \* torrent that was asked for could be loaded

treeVars == <<catalog, active, asked, numbered, stream, answer, changes, steady>>

-----------------------------------------------------------------------------
(* Names. *)

Slash == {47, 92}
Control == (0 .. 31) \cup {127}
Blank == <<>>
Dot == <<46>>
Up == <<46, 46>>

Trim(name) ==
    LET seen == {i \in DOMAIN name : name[i] # 32}
    IN  IF seen = {} THEN Blank
        ELSE SubSeq(name, CHOOSE i \in seen : \A j \in seen : i <= j,
                          CHOOSE i \in seen : \A j \in seen : j <= i)

SanitizeName(name) ==
    LET kept == SelectSeq([i \in DOMAIN name |-> IF name[i] \in Slash THEN 95 ELSE name[i]],
                          LAMBDA c : c \notin Control)
    IN  IF Trim(kept) \in {Dot, Up} THEN Blank ELSE Trim(kept)

Other == <<111>>        \* "other"

CategoryName(t) ==
    IF SanitizeName(t.category) = Blank THEN Other ELSE SanitizeName(t.category)

TorrentName(t) ==
    IF SanitizeName(t.title) = Blank THEN HashName[t.hash] ELSE SanitizeName(t.title)

\* Without the torrent's name, for a torrent of several files.
DisplayPath(h, file) == IF Len(file) > 1 /\ Head(file) = Name[h] THEN Tail(file) ELSE file

\* path.Clean of a rooted path.
Clean(path) ==
    Seqs!FoldLeft(LAMBDA done, name :
                    IF name \in {Blank, Dot} THEN done
                    ELSE IF name = Up THEN SubSeq(done, 1, Len(done) - 1)
                    ELSE Append(done, name),
                  <<>>, path)

Less(a, b) ==
    \E n \in 0 .. Len(a) :
      /\ n <= Len(b) /\ SubSeq(a, 1, n) = SubSeq(b, 1, n)
      /\ n < Len(b)
      /\ n = Len(a) \/ a[n + 1] < b[n + 1]

-----------------------------------------------------------------------------
(* Nodes and their children. *)

TreeRoot == [is |-> "root"]
Category(name) == [is |-> "category", name |-> name]
Dir(t, name, path) == [is |-> "dir", name |-> name, torrent |-> t, path |-> path]
File(t, name, file) == [is |-> "file", name |-> name, torrent |-> t, file |-> file]

IsDir(node) == node.is # "file"

\* The rest of each display path below a directory, with its file.
Below(t, path) ==
    {[rest |-> SubSeq(DisplayPath(t.hash, f), Len(path) + 1, Len(DisplayPath(t.hash, f))), file |-> f] :
       f \in {g \in Seqs!ToSet(Files[t.hash]) :
                /\ Len(DisplayPath(t.hash, g)) > Len(path)
                /\ Seqs!IsPrefix(path, DisplayPath(t.hash, g))}}

\* Faulty variant: a file does not take the place of a directory of its name.
DirChildren_Both(t, path) ==
    {File(t, Head(b.rest), b.file) : b \in {c \in Below(t, path) : Len(c.rest) = 1}}
      \cup {Dir(t, Head(b.rest), Append(path, Head(b.rest))) :
              b \in {c \in Below(t, path) : Len(c.rest) > 1}}

\* A file takes the place of a directory of its name, whichever comes first.
DirChildren(t, path) ==
    LET files == {File(t, Head(b.rest), b.file) : b \in {c \in Below(t, path) : Len(c.rest) = 1}}
    IN  files \cup {Dir(t, name, Append(path, name)) :
                      name \in {Head(b.rest) : b \in Below(t, path)} \ {f.name : f \in files}}

Sorted(nodes) == Seqs!SetToSortSeq(nodes, LAMBDA a, b : Less(a.name, b.name))

\* The torrents a category shows, in the order of the list, not of their names.
Shown(list, flag, name) ==
    SelectSeq(list, LAMBDA t : CategoryName(t) = name /\ (t.live \/ ~flag))

\* read_dir, of a directory whose torrent has its files.
ReadDir(node) ==
    CASE node.is = "root" -> Sorted({Category(CategoryName(t)) : t \in Seqs!ToSet(catalog)})
      [] node.is = "category" ->
           LET shown == Shown(catalog, active, node.name)
           IN  [i \in DOMAIN shown |-> Dir(shown[i], TorrentName(shown[i]), <<>>)]
      [] node.is = "dir" -> Sorted(DirChildren(node.torrent, node.path))
      [] OTHER -> <<>>

-----------------------------------------------------------------------------
(* What a PROPFIND asks for: [allprop, propname, prop, include, bad], with sets *)
(* of property names; "x" stands for one that is not in the DAV namespace.      *)

\* readPropfind.
BodyFails(b) ==
    \/ b.bad
    \/ ~b.allprop /\ b.include # {}
    \/ b.allprop /\ (b.prop # {} \/ b.propname)
    \/ b.prop # {} /\ b.propname
    \/ ~b.propname /\ ~b.allprop /\ b.prop = {}

\* live_names, which are also the names that live_value knows.
LiveNames(dir) ==
    {"resourcetype", "displayname", "getlastmodified", "supportedlock"}
      \cup IF dir THEN {} ELSE {"getcontentlength", "getcontenttype", "getetag"}

\* LIVE: what PROPPATCH may not change.
Live == LiveNames(FALSE) \cup {"creationdate", "getcontentlanguage", "lockdiscovery"}

\* propstats: the groups of names that are found and that are missing.
Propstats(b, dir, typed) ==
    LET wanted == IF b.allprop THEN LiveNames(dir) \cup b.include ELSE b.prop
        has    == LiveNames(dir) \ IF typed THEN {} ELSE {"getcontenttype"}
    IN  IF b.propname THEN [found |-> LiveNames(dir), missing |-> {}]
        ELSE [found |-> wanted \cap has, missing |-> wanted \ has]

-----------------------------------------------------------------------------
(* Answers. *)

Status(code) == [is |-> "status", code |-> code]
Allows(what) == [is |-> "allows", lets |-> what]
Found(path, dir) == [is |-> "entry", path |-> path, dir |-> dir]

NoStream == [path |-> None, offset |-> 0, got |-> <<>>]

\* A request on its way through the tree: the node reached, the names left, the
\* tries at the metadata of its torrent; for PROPFIND what the walk has still to
\* visit, the directory whose children it looks up, and what it has found.
Opening(request, at, path) ==
    [request |-> request, at |-> at, node |-> TreeRoot, rest |-> Clean(path), tries |-> 0,
     stack |-> <<>>, visit |-> None, todo |-> <<>>, out |-> <<>>]

Init ==
    /\ catalog \in Catalogs
    /\ active \in BOOLEAN
    /\ asked = None /\ answer = None
    /\ numbered = {}
    /\ stream = NoStream
    /\ changes = 0 /\ steady = TRUE

TypeOK ==
    /\ \A i \in DOMAIN catalog :
         catalog[i].hash \in Hashes /\ (catalog[i].live \/ catalog[i].saved)
    /\ \A i, j \in DOMAIN catalog : catalog[i].hash = catalog[j].hash => i = j
    /\ active \in BOOLEAN /\ changes \in 0 .. MaxChanges
    /\ asked # None =>
         /\ asked.at \in {"stat", "target", "pop", "self", "list", "type", "child"}
         /\ asked.tries \in 0 .. Attempts
    /\ <<>> \notin numbered

Replies(a) == answer' = [says |-> a, to |-> asked.request] /\ asked' = None

\* Codes that need no look at the tree.
Refuses(r) ==
    CASE r.method = "PUT" -> 404
      [] r.method = "MKCOL" -> IF r.body.bad THEN 415 ELSE 405
      [] r.method \in {"COPY", "MOVE"} /\ r.to = r.path -> 403
      [] r.method = "COPY" /\ r.depth \notin {"", "0", "infinity"} -> 400
      [] r.method = "MOVE" /\ r.depth \notin {"", "infinity"} -> 400
      [] OTHER -> 0

\* The kernel names a directory or a file by a number it was given, and what it
\* looks up by the number of the directory.
Knows(r) ==
    LET p == IF r.method = "lookup" THEN SubSeq(r.path, 1, Len(r.path) - 1) ELSE r.path
    IN  p = <<>> \/ p \in numbered

\* A request arrives: [method, path, to, depth, overwrite, body].  FUSE's methods
\* are "lookup", "getattr" and "readdir"; MOVE looks only at its destination.
Ask(r) ==
    /\ asked = None /\ answer = None
    /\ r.method \in {"lookup", "getattr", "readdir"} => Knows(r)
    /\ IF Refuses(r) # 0
       THEN answer' = [says |-> Status(Refuses(r)), to |-> r] /\ UNCHANGED asked
       ELSE /\ asked' = Opening(r, IF r.method = "MOVE" THEN "target" ELSE "stat",
                                   IF r.method = "MOVE" THEN r.to ELSE r.path)
            /\ UNCHANGED answer
    /\ stream' = IF r.method = "readdir" THEN [NoStream EXCEPT !.path = r.path] ELSE NoStream
    /\ steady' = TRUE
    /\ UNCHANGED <<catalog, active, numbered, changes>>

\* The kernel asks for the next entries until there are no more.
AskMore ==
    /\ asked = None /\ answer = None
    /\ stream.path # None /\ stream.offset > 0
    /\ asked' = Opening([method |-> "readdir", path |-> stream.path], "stat", stream.path)
    /\ UNCHANGED <<catalog, active, numbered, stream, answer, changes, steady>>

Number(paths) == numbered' = (numbered \cup paths) \ {<<>>}

-----------------------------------------------------------------------------
(* Opening a path. *)

Arrived == asked.rest = <<>> \/ asked.node.is = "file"

\* loaded has yet to get the torrent's file list.
Unready ==
    /\ asked # None
    /\ asked.node.is = "dir" /\ ~asked.node.torrent.live
    /\ asked.at \in {"stat", "target", "self", "child", "type"} => ~Arrived
    /\ asked.at # "pop"

\* Where a failure to open or to read leads: get, options, writes and FUSE answer
\* it; the walk leaves the directory, or the child, out.
Fails ==
    CASE asked.at = "stat" \/ (asked.at = "list" /\ asked.request.method = "readdir") ->
           /\ Replies(IF asked.request.method = "OPTIONS" THEN Allows("nothing") ELSE Status(404))
           /\ stream' = [stream EXCEPT !.offset = 0]
      [] asked.at = "target" -> Replies(Status(403)) /\ UNCHANGED stream
      [] asked.at \in {"self", "list"} ->
           asked' = [asked EXCEPT !.at = "pop"] /\ UNCHANGED <<answer, stream>>
      [] asked.at = "type" ->
           /\ asked' = [asked EXCEPT !.at = "pop", !.out = Append(@, [asked.visit EXCEPT !.typed = FALSE])]
           /\ UNCHANGED <<answer, stream>>
      [] asked.at = "child" ->
           /\ asked' = IF Len(asked.todo) = 1 THEN [asked EXCEPT !.at = "pop"]
                       ELSE [asked EXCEPT !.todo = Tail(@), !.node = TreeRoot, !.tries = 0,
                                          !.rest = Clean(Append(asked.visit.path, asked.todo[2]))]
           /\ UNCHANGED <<answer, stream>>

\* The list once torrent h was added by its hash: unloaded it is loaded, and gone
\* it is back, under the name it has itself.
Holding(h) ==
    IF \E i \in DOMAIN catalog : catalog[i].hash = h
    THEN [i \in DOMAIN catalog |->
            IF catalog[i].hash = h THEN [catalog[i] EXCEPT !.live = TRUE] ELSE catalog[i]]
    ELSE <<[hash |-> h, title |-> Name[h], category |-> Blank, live |-> TRUE, saved |-> FALSE]>>
           \o catalog

Load ==
    /\ Unready /\ asked.tries < Attempts
    /\ LET h == asked.node.torrent.hash
       IN  /\ catalog' = Holding(h)
           /\ asked' = [asked EXCEPT !.tries = 0, !.node.torrent =
                          catalog'[CHOOSE i \in DOMAIN catalog' : catalog'[i].hash = h]]
    /\ UNCHANGED <<active, numbered, stream, answer, changes, steady>>

\* A try fails and sleeps, unless the torrent is loaded; after the last the
\* directory is not found.
LoadFails ==
    /\ Unready
    /\ IF asked.tries = Attempts THEN Fails /\ steady' = FALSE
       ELSE /\ \A i \in DOMAIN catalog : catalog[i].hash = asked.node.torrent.hash => ~catalog[i].live
            /\ asked' = [asked EXCEPT !.tries = @ + 1]
            /\ UNCHANGED <<stream, answer, changes, steady>>
    /\ UNCHANGED <<catalog, active, numbered, changes>>

\* The next name, among the children of the node reached: the first of its name.
Descend ==
    /\ asked # None
    /\ asked.at \in {"stat", "target", "self", "child", "type"}
    /\ ~Arrived /\ ~Unready
    /\ LET named == SelectSeq(ReadDir(asked.node), LAMBDA n : n.name = Head(asked.rest))
       IN  IF named = <<>> THEN Fails
           ELSE /\ asked' = [asked EXCEPT !.node = Head(named), !.rest = Tail(@), !.tries = 0]
                /\ UNCHANGED <<stream, answer>>
    /\ UNCHANGED <<catalog, active, numbered, changes, steady>>

-----------------------------------------------------------------------------
(* What each request makes of the node. *)

Served(node) == [is |-> "file", hash |-> node.torrent.hash, file |-> node.file]

\* PROPPATCH changes nothing: live properties are refused, and the others need
\* a file that can be written.
Patched(b) ==
    IF b.bad THEN Status(400)
    ELSE IF b.prop \cap Live = {} THEN Status(500)
    ELSE [is |-> "patched", forbidden |-> b.prop \cap Live, failed |-> b.prop \ Live]

\* The depth and the body are looked at after the path.
DepthOf(text) ==
    CASE text = "0" -> 0 [] text = "1" -> 1 [] text \in {"", "infinity"} -> -1 [] OTHER -> None

Visit(path, dir, depth) == [path |-> path, dir |-> dir, depth |-> depth, typed |-> TRUE]

Stat ==
    /\ asked # None /\ asked.at = "stat" /\ Arrived
    /\ LET r == asked.request
           dir == IsDir(asked.node)
       IN  \/ /\ r.method = "OPTIONS"
              /\ Replies(Allows(IF dir THEN "directory" ELSE "file"))
              /\ UNCHANGED numbered
           \/ /\ r.method \in {"GET", "HEAD", "POST"}
              /\ Replies(IF dir THEN Status(405) ELSE Served(asked.node))
              /\ UNCHANGED numbered
           \/ /\ r.method = "DELETE"
              /\ Replies(Status(405))
              /\ UNCHANGED numbered
           \/ /\ r.method = "PROPPATCH"
              /\ Replies(Patched(r.body))
              /\ UNCHANGED numbered
           \/ /\ r.method = "COPY"
              /\ asked' = Opening(r, "target", r.to)
              /\ UNCHANGED <<numbered, answer>>
           \/ /\ r.method = "PROPFIND"
              /\ IF DepthOf(r.depth) = None \/ BodyFails(r.body) THEN Replies(Status(400))
                 ELSE /\ asked' = [asked EXCEPT !.at = "pop",
                                     !.stack = <<Visit(Clean(r.path), dir, DepthOf(r.depth))>>]
                      /\ UNCHANGED answer
              /\ UNCHANGED numbered
           \/ /\ r.method \in {"lookup", "getattr"}
              /\ Replies(Found(Clean(r.path), dir))
              /\ Number({Clean(r.path)})
           \/ /\ r.method = "readdir"
              /\ asked' = [asked EXCEPT !.at = "list"]
              /\ UNCHANGED <<numbered, answer>>
    /\ UNCHANGED <<catalog, active, stream, changes, steady>>

\* The destination of a COPY or a MOVE is there: it would be overwritten.
Target ==
    /\ asked # None /\ asked.at = "target" /\ Arrived
    /\ LET r == asked.request
       IN  Replies(Status(IF r.method = "COPY" THEN IF r.overwrite = "F" THEN 412 ELSE 403
                          ELSE IF r.overwrite = "T" THEN 403 ELSE 412))
    /\ UNCHANGED <<catalog, active, numbered, stream, changes, steady>>

\* walk: the next resource of the stack is written down, and its children follow
\* if it is a directory and the depth allows.  Without an extension the type of a
\* file is read from its first bytes, for which it is opened once more.
AsksType(v) ==
    /\ ~v.dir
    /\ asked.request.body.allprop \/ "getcontenttype" \in asked.request.body.prop
    /\ v.path[Len(v.path)] = Sniffed

Pop ==
    /\ asked # None /\ asked.at = "pop"
    /\ IF asked.stack = <<>>
       THEN Replies([is |-> "multistatus", out |-> asked.out])
       ELSE LET v    == asked.stack[Len(asked.stack)]
                rest == SubSeq(asked.stack, 1, Len(asked.stack) - 1)
                open == [Opening(asked.request, "self", v.path)
                           EXCEPT !.stack = rest, !.visit = v, !.out = asked.out]
            IN  /\ asked' = IF AsksType(v) THEN [open EXCEPT !.at = "type"]
                            ELSE IF v.dir /\ v.depth # 0 THEN [open EXCEPT !.out = Append(@, v)]
                            ELSE [open EXCEPT !.at = "pop", !.rest = <<>>, !.visit = None,
                                              !.out = Append(@, v)]
                /\ UNCHANGED answer
    /\ UNCHANGED <<catalog, active, numbered, stream, changes, steady>>

\* The file whose type is read is still one.
Type ==
    /\ asked # None /\ asked.at = "type" /\ Arrived
    /\ asked' = [asked EXCEPT !.at = "pop",
                   !.out = Append(@, [asked.visit EXCEPT !.typed = ~IsDir(asked.node)])]
    /\ UNCHANGED <<catalog, active, numbered, stream, answer, changes, steady>>

Self ==
    /\ asked # None /\ asked.at = "self" /\ Arrived
    /\ asked' = [asked EXCEPT !.at = "list"]
    /\ UNCHANGED <<catalog, active, numbered, stream, answer, changes, steady>>

\* The directory is read, and its children are looked up by their paths, the
\* last first, so that the first is on top of the stack.
ListForWalk ==
    /\ asked # None /\ asked.at = "list" /\ asked.request.method = "PROPFIND"
    /\ ~Unready
    /\ LET children == ReadDir(asked.node)
           names    == Seqs!Reverse([i \in DOMAIN children |-> children[i].name])
       IN  asked' = IF names = <<>> THEN [asked EXCEPT !.at = "pop"]
                    ELSE [asked EXCEPT !.at = "child", !.todo = names, !.node = TreeRoot,
                            !.rest = Clean(Append(asked.visit.path, Head(names))), !.tries = 0]
    /\ UNCHANGED <<catalog, active, numbered, stream, answer, changes, steady>>

Child ==
    /\ asked # None /\ asked.at = "child" /\ Arrived
    /\ LET v    == Visit(Clean(Append(asked.visit.path, Head(asked.todo))), IsDir(asked.node),
                         IF asked.visit.depth = 1 THEN 0 ELSE asked.visit.depth)
           next == [asked EXCEPT !.stack = Append(@, v), !.todo = Tail(@)]
       IN  asked' = IF next.todo = <<>> THEN [next EXCEPT !.at = "pop"]
                    ELSE [next EXCEPT !.node = TreeRoot, !.tries = 0,
                            !.rest = Clean(Append(asked.visit.path, Head(next.todo)))]
    /\ UNCHANGED <<catalog, active, numbered, stream, answer, changes, steady>>

\* How many of the entries that are left fit; the offset may lie past the end.
Few(left) == IF left < 0 THEN 0 ELSE IF left > Buffer THEN Buffer ELSE left

\* FUSE's readdir: the entries from the offset on that fit, each with its number.
ListForKernel ==
    /\ asked # None /\ asked.at = "list" /\ asked.request.method = "readdir"
    /\ ~Unready
    /\ IF asked.node.is = "file" THEN Replies(Status(22)) /\ UNCHANGED <<numbered, stream>>
       ELSE LET children == ReadDir(asked.node)
                from == stream.offset
                fit  == [i \in 1 .. Few(Len(children) - from) |-> children[from + i]]
                some == [i \in 1 .. Len(fit) |-> fit[i].name]
            IN  /\ Number({Append(stream.path, name) : name \in Seqs!ToSet(some)})
                /\ stream' = [stream EXCEPT !.got = @ \o some,
                                !.offset = IF fit = <<>> THEN 0 ELSE @ + Len(fit)]
                /\ Replies([is |-> "entries", count |-> Len(fit)])
    /\ UNCHANGED <<catalog, active, changes, steady>>

Taken ==
    /\ answer # None
    /\ answer' = None
    /\ stream' = IF stream.offset = 0 THEN NoStream ELSE stream
    /\ UNCHANGED <<catalog, active, asked, numbered, changes, steady>>

-----------------------------------------------------------------------------
(* What other clients do to the list meanwhile. *)

Changed(list, flag) ==
    /\ asked # None /\ changes < MaxChanges
    /\ catalog' = list /\ active' = flag
    /\ changes' = changes + 1 /\ steady' = FALSE
    /\ UNCHANGED <<asked, numbered, stream, answer>>

Without(i) == SubSeq(catalog, 1, i - 1) \o SubSeq(catalog, i + 1, Len(catalog))

Change ==
    \/ \E i \in DOMAIN catalog :
         \/ Changed(Without(i), active)
         \/ /\ catalog[i].live
            /\ Changed(IF catalog[i].saved THEN [catalog EXCEPT ![i].live = FALSE] ELSE Without(i),
                       active)
         \/ \E title \in Titles : Changed([catalog EXCEPT ![i].title = title], active)
         \/ \E category \in Titles : Changed([catalog EXCEPT ![i].category = category], active)
         \/ ~catalog[i].live /\ Changed([catalog EXCEPT ![i].live = TRUE], active)
    \/ Changed(catalog, ~active)

Next ==
    \/ \E r \in Asks : Ask(r)
    \/ AskMore \/ Load \/ LoadFails \/ Descend \/ Stat \/ Target \/ Pop \/ Type \/ Self
    \/ ListForWalk \/ Child \/ ListForKernel \/ Taken \/ Change

Spec == Init /\ [][Next]_treeVars
-----------------------------------------------------------------------------
(* Properties. *)

\* The tree as it should be: of the torrents that are shown, those with a name of
\* their own in their category, and in them the files and the directories above
\* them, but for what lies at or below another file.
Owners ==
    {i \in DOMAIN catalog :
       /\ catalog[i].live \/ ~active
       /\ \A j \in 1 .. i - 1 :
            catalog[j].live \/ ~active =>
              <<CategoryName(catalog[j]), TorrentName(catalog[j])>>
                # <<CategoryName(catalog[i]), TorrentName(catalog[i])>>}

DisplayPaths(h) == {DisplayPath(h, f) : f \in Seqs!ToSet(Files[h])}

Inside(h) ==
    LET paths == DisplayPaths(h)
        free(p) == \A f \in paths : Seqs!IsPrefix(f, p) => f = p
    IN  {Found(p, FALSE) : p \in {q \in paths : free(q)}}
          \cup {Found(d, TRUE) : d \in {e \in UNION {{SubSeq(p, 1, k) : k \in 1 .. Len(p) - 1} : p \in paths} :
                                         e \notin paths /\ free(e)}}

Tree ==
    {Found(<<>>, TRUE)} \cup {Found(<<CategoryName(t)>>, TRUE) : t \in Seqs!ToSet(catalog)}
      \cup UNION {LET top == <<CategoryName(catalog[i]), TorrentName(catalog[i])>>
                  IN  {Found(top, TRUE)}
                        \cup {Found(top \o e.path, e.dir) : e \in Inside(catalog[i].hash)} :
                  i \in Owners}

\* A path leads to its entry, or to the file above it.
LeadsTo(path) == {e \in Tree : e.path = path \/ (~e.dir /\ Seqs!IsPrefix(e.path, path))}

\* If nothing changes while a request is answered, it is answered from this tree:
\* what is in it is found and nothing else, a file that is served is the one of
\* that path, a PROPFIND lists everything below its path to its depth and only
\* that, and once each where no two torrents have one name, and a directory that
\* the kernel reads in pieces has each of its entries once
\* (vfs/src/lib.rs:205-350, webdav/mod.rs:552-591, fuse/src/lib.rs:249-286).
AnsweredFromTree ==
    answer # None /\ steady =>
      LET r     == answer.to
          a     == answer.says
          there == LeadsTo(Clean(r.path))
          below == {e \in Tree : /\ Seqs!IsPrefix(Clean(r.path), e.path)
                                 /\ DepthOf(r.depth) # -1 =>
                                      Len(e.path) - Len(Clean(r.path)) <= DepthOf(r.depth)}
      IN  /\ r.method \in {"GET", "DELETE", "PROPPATCH", "PROPFIND", "lookup", "getattr", "readdir"} =>
               (a = Status(404) <=> there = {})
          /\ a.is = "allows" => a.lets = IF there = {} THEN "nothing"
                                         ELSE IF \E e \in there : e.dir THEN "directory" ELSE "file"
          /\ r.method = "GET" => (a.is = "file" <=> \E e \in there : ~e.dir)
          /\ a.is = "entry" => \E e \in there : e.dir = a.dir
          /\ a.is = "multistatus" =>
               IF \E e \in there : ~e.dir THEN Len(a.out) = 1 /\ ~a.out[1].dir
               ELSE /\ {Found(v.path, v.dir) : v \in Seqs!ToSet(a.out)} = below
                    /\ (Owners = {i \in DOMAIN catalog : catalog[i].live \/ ~active}) =>
                         Len(a.out) = Cardinality(below)
          /\ (a.is = "entries" /\ a.count = 0) =>
               LET names == {e.path[Len(e.path)] :
                               e \in {f \in Tree : /\ Len(f.path) = Len(stream.path) + 1
                                                   /\ Seqs!IsPrefix(stream.path, f.path)}}
               IN  /\ Seqs!ToSet(stream.got) = names
                   /\ (Owners = {i \in DOMAIN catalog : catalog[i].live \/ ~active}) =>
                        Len(stream.got) = Cardinality(names)

\* Whatever changes meanwhile: a file that is served is a file whose display path
\* is the path asked for, or lies above it; and a PROPFIND lists a resource only
\* after the directory it is in (webdav/mod.rs:289-322, 562-589).
AnswersHoldTogether ==
    answer # None =>
      LET a == answer.says
      IN  /\ a.is = "file" =>
               LET path == Clean(answer.to.path)
               IN  Seqs!IsPrefix(DisplayPath(a.hash, a.file), SubSeq(path, 3, Len(path)))
          /\ a.is = "multistatus" =>
               \A i \in 2 .. Len(a.out) :
                 \E j \in 1 .. i - 1 :
                   a.out[j].dir /\ a.out[i].path = Append(a.out[j].path, a.out[i].path[Len(a.out[i].path)])

\* Every property a PROPFIND asks for is answered once, found or missing, and one
\* that asks for all of them misses only what it names besides, or the type of a
\* file that is gone (webdav/mod.rs:593-683).
PropertiesAnswered ==
    answer # None /\ answer.says.is = "multistatus" =>
      LET b == answer.to.body
      IN  \A v \in Seqs!ToSet(answer.says.out) :
            LET p == Propstats(b, v.dir, v.typed)
            IN  /\ p.found \cap p.missing = {}
                /\ b.prop \cup b.include \subseteq p.found \cup p.missing
                /\ (b.allprop /\ steady) => LiveNames(v.dir) \subseteq p.found

TreeRight == AnsweredFromTree /\ AnswersHoldTogether /\ PropertiesAnswered
=============================================================================
