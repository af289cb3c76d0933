----------------------------- MODULE FileServer -----------------------------
(***************************************************************************)
(* A local directory on the web (crates/rustorr-http/src/file_server.rs):  *)
(* redirects to the one address of a file or directory, listings, index    *)
(* pages.  The directory changes beside the server; a browser follows the  *)
(* redirects it is given.                                                  *)
(*                                                                         *)
(* An address is the sequence of what stands between its slashes, so that  *)
(* one that ends with a slash ends with "".  A path is a sequence of names. *)
(***************************************************************************)
EXTENDS Integers, Sequences

LOCAL Seqs == INSTANCE SequencesExt

CONSTANTS
    Trees,      \* the contents the directory may have: paths to "dir" or "file"
    Asked,      \* the addresses a browser begins with
    Colons,     \* names with a colon
    Reserved,   \* names with a character that means something in an address
    MaxTrees,   \* how often the directory may change
    None

VARIABLES
    tree,       \* the directory
    first,      \* the address the browser began with
    url,        \* the address of the request
    at,         \* what the server is about to look at, or "redirected" or "done"
    page,       \* the answer
    hops,       \* redirects followed
    trees       \* changes of the directory

filesVars == <<tree, first, url, at, page, hops, trees>>

-----------------------------------------------------------------------------
(* Addresses. *)

\* clean
Clean(parts) ==
    LET step(path, part) ==
          CASE part \in {"", "."} -> path
            [] part = ".." -> IF path = <<>> THEN path ELSE Seqs!Front(path)
            [] OTHER -> Append(path, part)
    IN  Seqs!FoldLeft(step, <<>>, parts)

EndsWithSlash(parts) == parts[Len(parts)] = ""

\* base: the last name, whatever slashes follow; "" for none.
Base(parts) ==
    LET named == {i \in DOMAIN parts : parts[i] # ""}
    IN  IF named = {} THEN "" ELSE parts[CHOOSE i \in named : \A j \in named : j <= i]

\* What a browser makes of a relative address: dots go, also at the end.
Resolved(parts, reference) ==
    LET step(path, part) ==
          CASE part = "." -> path
            [] part = ".." -> IF path = <<>> THEN path ELSE Seqs!Front(path)
            [] OTHER -> Append(path, part)
        path == Seqs!FoldLeft(step, <<>>, Seqs!Front(parts) \o reference)
    IN  IF Seqs!Last(reference) \in {".", ".."} THEN Append(path, "") ELSE path

Is(path, kind) == path \in DOMAIN tree /\ tree[path] = kind
There(path) == path \in DOMAIN tree

\* href, with the slash list adds to a directory's name.
Href(name, kind) ==
    [dot |-> name \in Colons, coded |-> name \in Reserved,
     parts |-> IF kind = "dir" THEN <<name, "">> ELSE <<name>>]

\* A browser reads a name with a colon as a scheme, and a reserved character
\* that is not coded as the end of the path.
Followed(parts, href) ==
    LET name == href.parts[1]
    IN  IF (name \in Colons /\ ~ href.dot) \/ (name \in Reserved /\ ~ href.coded) THEN None
        ELSE Resolved(parts, (IF href.dot THEN <<".">> ELSE <<>>) \o href.parts)

-----------------------------------------------------------------------------
NoPage == [kind |-> "none", path |-> <<>>, entries |-> {}]
Page(kind, path) == [kind |-> kind, path |-> path, entries |-> {}]

Init ==
    /\ tree \in Trees /\ first \in Asked /\ url = first
    /\ at = "open" /\ page = NoPage /\ hops = 0 /\ trees = 0

Answer(answer) == page' = answer /\ at' = "done" /\ UNCHANGED <<url, hops>>

\* redirect: the name goes out as it stands, so that one with a colon first or a
\* reserved character is lost.
Redirect(reference) ==
    IF reference[1] \in Colons \/ \E i \in DOMAIN reference : reference[i] \in Reserved
    THEN Answer(Page("lost", Clean(url)))
    ELSE /\ url' = Resolved(url, reference)
         /\ at' = "open" /\ hops' = hops + 1
         /\ UNCHANGED page

LookAt(what) == at' = what /\ UNCHANGED <<url, page, hops>>

\* serve, the first look: gin's bare 404, then the index page's own address.
Open ==
    /\ at = "open"
    /\ IF ~ There(Clean(url)) THEN Answer(Page("missing", Clean(url)))
       ELSE IF url[Len(url)] = "index.html" THEN Redirect(<<".", "">>)
       ELSE LookAt("stat")
    /\ UNCHANGED <<tree, first, trees>>

\* The second look: a directory's address ends with a slash, a file's does not.
Stat ==
    /\ at = "stat"
    /\ LET path == Clean(url)
       IN  IF ~ There(path) THEN Answer(Page("missing", path))
           ELSE IF Is(path, "dir") /\ ~ EndsWithSlash(url) THEN Redirect(<<Base(url), "">>)
           ELSE IF Is(path, "file") /\ EndsWithSlash(url) THEN Redirect(<<"..", Base(url)>>)
           ELSE LookAt(IF Is(path, "dir") THEN "index" ELSE "file")
    /\ UNCHANGED <<tree, first, trees>>

\* A directory with an index page is answered with it.
Index ==
    /\ at = "index"
    /\ LookAt(IF Is(Clean(url) \o <<"index.html">>, "file") THEN "page" ELSE "list")
    /\ UNCHANGED <<tree, first, trees>>

\* The file is opened; it may be gone.
Content ==
    /\ at \in {"file", "page"}
    /\ LET path == IF at = "page" THEN Clean(url) \o <<"index.html">> ELSE Clean(url)
       IN  Answer(IF Is(path, "file") THEN Page("content", path) ELSE Page("error", path))
    /\ UNCHANGED <<tree, first, trees>>

Under(path) ==
    {Seqs!Last(p) : p \in {q \in DOMAIN tree : q # <<>> /\ Seqs!Front(q) = path}}

\* list
List ==
    /\ at = "list"
    /\ LET path == Clean(url)
       IN  Answer(IF Is(path, "dir")
                  THEN [kind |-> "list", path |-> path,
                        entries |-> {[name |-> n, href |-> Href(n, tree[path \o <<n>>])] :
                                       n \in Under(path)}]
                  ELSE Page("error", path))
    /\ UNCHANGED <<tree, first, trees>>

Change(new) ==
    /\ at # "done" /\ trees < MaxTrees
    /\ tree' = new /\ tree' # tree
    /\ trees' = trees + 1
    /\ UNCHANGED <<first, url, at, page, hops>>

Next ==
    \/ Open
    \/ Stat
    \/ Index
    \/ Content
    \/ List
    \/ \E new \in Trees : Change(new)

TypeOK ==
    /\ tree \in Trees /\ first \in Asked
    /\ at \in {"open", "stat", "index", "file", "page", "list", "done"}
    /\ page.kind \in {"none", "missing", "error", "lost", "content", "list"}
    /\ trees \in 0 .. MaxTrees

-----------------------------------------------------------------------------
(* Properties. *)

\* What an address means: of an index page, when it is not asked for as a
\* directory, the directory it is the page of.
Meant(parts) ==
    LET path == Clean(parts)
        isDir == Is(path, "dir") /\ EndsWithSlash(parts)
    IN  IF path # <<>> /\ Seqs!Last(path) = "index.html" /\ ~ isDir THEN Seqs!Front(path) ELSE path

\* What a browser gets at the end of the redirects is what the address it began
\* with means: the file, the directory's page or its list, or 404; but for the
\* names a redirect loses (file_server.rs:27-71, 105-117).
Arrives ==
    (at = "done" /\ trees = 0 /\ Base(first) \notin Colons \cup Reserved) =>
      LET path == Meant(first)
          front == path \o <<"index.html">>
      IN  IF ~ There(Clean(first)) THEN page = Page("missing", Clean(first))
          ELSE IF Is(path, "file") THEN page = Page("content", path)
          ELSE IF Is(front, "file") THEN page = Page("content", front)
          ELSE page.kind = "list" /\ page.path = path

\* The redirects end: two when the directory stays as it is, and as many more
\* as it changes at the worst moments (file_server.rs:36-55, 103-113).
RedirectsEnd == hops <= 2 + trees

\* A listing's links lead, without a redirect, to what was listed
\* (file_server.rs:134-196, 199-214).
LinksLead ==
    \A entry \in page.entries :
      LET there == Followed(url, entry.href)
          path == page.path \o <<entry.name>>
      IN  /\ there # None
          /\ Clean(there) = path
          /\ trees = 0 => (Is(path, "dir") <=> EndsWithSlash(there))

FilesRight == Arrives /\ RedirectsEnd /\ LinksLead
=============================================================================
