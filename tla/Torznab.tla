------------------------------ MODULE Torznab ------------------------------
(***************************************************************************)
(* A search at the indexers of the settings (crates/rustorr-search/src/    *)
(* torznab.rs; service.rs torznab; search_api.rs torznab): one indexer     *)
(* after another is asked, its answer is read event by event, and what     *)
(* does not answer or does not read is left out.                           *)
(*                                                                         *)
(* A text is the sequence of its pieces, as they come between references   *)
(* and CDATA sections.                                                     *)
(***************************************************************************)
EXTENDS Integers, Sequences

LOCAL Seqs == INSTANCE SequencesExt

CONSTANTS
    Requests,   \* [enabled, indexers, index]: what a search finds in the settings
    Replies,    \* per host: what it may answer
    Numbers,    \* what the texts that are numbers say
    Stamps,     \* the fields of the texts that are dates
    Magnets,    \* the topics (xt) of the texts that begin a magnet link
    None

VARIABLES
    search,     \* the request in progress
    left,       \* the indexers still to be asked
    found,      \* what has been found so far
    replies     \* history: the answers, in order

torznabVars == <<search, left, found, replies>>

-----------------------------------------------------------------------------
(* Dates. *)

\* days: days since 1 January 1970; civil, its inverse.
Days(year, month, day) ==
    LET y   == IF month <= 2 THEN year - 1 ELSE year
        era == y \div 400
        yoe == y - era * 400
        doy == (153 * ((month + 9) % 12) + 2) \div 5 + day - 1
    IN  era * 146097 + yoe * 365 + yoe \div 4 - yoe \div 100 + doy - 719468

Civil(days) ==
    LET z   == days + 719468
        era == z \div 146097
        doe == z - era * 146097
        yoe == (doe - doe \div 1460 + doe \div 36524 - doe \div 146096) \div 365
        doy == doe - (365 * yoe + yoe \div 4 - yoe \div 100)
        m   == (5 * doy + 2) \div 153
        month == IF m < 10 THEN m + 3 ELSE m - 9
    IN  [year  |-> yoe + era * 400 + (IF month <= 2 THEN 1 ELSE 0),
         month |-> month,
         day   |-> doy - (153 * m + 2) \div 5 + 1]

\* parse_rfc1123 and format_rfc3339: to seconds in UTC, and back to the wall
\* clock of the zone; the zones with a name count as UTC.
Seconds(stamp) ==
    Days(stamp.year, stamp.month, stamp.day) * 86400 + stamp.clock - stamp.offset

Printed(utc, offset) ==
    [date |-> Civil((utc + offset) \div 86400), clock |-> (utc + offset) % 86400,
     offset |-> offset]

\* go_date: a date that does not parse is now.
GoDate(text) ==
    IF Len(text) = 1 /\ text[1] \in DOMAIN Stamps
    THEN Printed(Seconds(Stamps[text[1]]), Stamps[text[1]].offset)
    ELSE None

-----------------------------------------------------------------------------
(* Items. *)

\* go_int: an empty text is 0.
GoInt(text) ==
    IF text = <<>> THEN 0
    ELSE IF Len(text) = 1 /\ text[1] \in DOMAIN Numbers THEN Numbers[text[1]] ELSE None

IsMagnet(text) == text # <<>> /\ text[1] \in DOMAIN Magnets

\* extract_hash: of the first topic, when it is a BitTorrent v1 one.
ExtractHash(text) ==
    IF ~ IsMagnet(text) \/ Magnets[text[1]] = <<>> THEN None ELSE Magnets[text[1]][1]

Attr(attributes, name) == IF name \in DOMAIN attributes THEN attributes[name] ELSE <<>>

\* format_size: the power of 1024 a size is shown in.
Unit(bytes) ==
    LET shown[n \in Nat] == IF n < 1024 THEN 0 ELSE 1 + shown[n \div 1024]
    IN  shown[bytes]

BlankItem ==
    [title |-> <<>>, link |-> <<>>, pubDate |-> <<>>, size |-> <<>>, jackettindexer |-> <<>>,
     prowlarrindexer |-> <<>>, enclosure |-> <<>>, attr |-> <<>>]

Texts == {"title", "link", "pubDate", "size", "jackettindexer", "prowlarrindexer"}

\* details: the first enclosure's link and size count before the item's, the
\* last magneturl before a link that is one.  None: a number did not parse.
Details(item) ==
    LET boxed == item.enclosure # <<>>
        size == GoInt(IF boxed THEN Attr(item.enclosure[1], "length") ELSE item.size)
        link == IF boxed THEN Attr(item.enclosure[1], "url") ELSE item.link
        named(name) == SelectSeq(item.attr, LAMBDA a : Attr(a, "name") = <<name>>)
        last(name) == IF named(name) = <<>> THEN <<>> ELSE Attr(Seqs!Last(named(name)), "value")
        count(name) == IF GoInt(last(name)) = None THEN 0 ELSE GoInt(last(name))
        magnet == IF last("magneturl") = <<>> /\ IsMagnet(link) THEN link ELSE last("magneturl")
    IN  IF GoInt(item.size) = None \/ size = None THEN None
        ELSE [title |-> item.title, link |-> link, size |-> <<size, Unit(size)>>,
              tracker |-> IF item.jackettindexer = <<>> THEN item.prowlarrindexer
                          ELSE item.jackettindexer,
              created |-> GoDate(item.pubDate), magnet |-> magnet,
              hash |-> ExtractHash(magnet), seed |-> count("seeders"), peer |-> count("peers")]

-----------------------------------------------------------------------------
(* The reader: events are [e, name, attributes, text]. *)

Reader == [ok |-> TRUE, path |-> <<>>, item |-> None, text |-> <<>>, items |-> <<>>]

\* record_empty
Noted(r, name, attributes) ==
    IF Len(r.path) = 3 /\ r.item # None /\ name \in {"enclosure", "attr"}
    THEN [r EXCEPT !.item[name] = Append(@, attributes)] ELSE r

Opened(r, event) ==
    LET begins == Len(r.path) = 2 /\ r.path[2] = "channel" /\ event.name = "item"
        noted == IF begins THEN [r EXCEPT !.item = BlankItem]
                 ELSE Noted(r, event.name, event.attributes)
    IN  [noted EXCEPT !.path = Append(@, event.name), !.text = <<>>]

\* An item whose numbers do not parse rejects the whole answer, and so does an
\* item that is a grandchild of the root outside a channel.
Closed(r) ==
    LET name == r.path[Len(r.path)]
        path == SubSeq(r.path, 1, Len(r.path) - 1)
        up == [r EXCEPT !.path = path, !.text = <<>>]
    IN  CASE Len(path) = 3 /\ r.item # None ->
               IF name \in Texts THEN [up EXCEPT !.item[name] = r.text] ELSE up
          [] Len(path) = 2 /\ name = "item" ->
               IF r.item = None \/ Details(r.item) = None THEN [up EXCEPT !.ok = FALSE]
               ELSE [up EXCEPT !.items = Append(@, Details(r.item)), !.item = None]
          [] OTHER -> up

\* parse_items, an event: what is not well-formed rejects the answer.
Take(r, event) ==
    IF ~ r.ok THEN r
    ELSE CASE event.e = "start" -> Opened(r, event)
           [] event.e = "empty" -> Noted(r, event.name, event.attributes)
           [] event.e = "text"  -> [r EXCEPT !.text = @ \o event.text]
           [] event.e = "end"   -> Closed(r)
           [] event.e = "bad"   -> [r EXCEPT !.ok = FALSE]

\* parse_items: the end of the answer ends the reading wherever it comes.
ParseItems(events) ==
    LET r == Seqs!FoldLeft(Take, Reader, events)
    IN  IF r.ok THEN r.items ELSE None

\* search_one: nothing for an indexer that does not answer, or with an error.
SearchOne(reply) ==
    IF reply.status # 200 \/ ParseItems(reply.events) = None THEN <<>>
    ELSE ParseItems(reply.events)

-----------------------------------------------------------------------------
Usable(indexer) == indexer.host # "" /\ indexer.key # ""

\* torznab: the indexer that index names, or else each one in turn.
Asked(request) ==
    IF ~ request.enabled THEN <<>>
    ELSE IF request.index + 1 \in DOMAIN request.indexers
    THEN SelectSeq(<<request.indexers[request.index + 1]>>, Usable)
    ELSE SelectSeq(request.indexers, Usable)

Init == search = None /\ left = <<>> /\ found = <<>> /\ replies = <<>>

Begin(request) ==
    /\ search = None
    /\ search' = request /\ left' = Asked(request)
    /\ found' = <<>> /\ replies' = <<>>

Ask(reply) ==
    /\ search # None /\ left # <<>>
    /\ left' = Tail(left)
    /\ found' = found \o SearchOne(reply)
    /\ replies' = Append(replies, reply)
    /\ UNCHANGED search

\* The answer is sent.
Answer ==
    /\ search # None /\ left = <<>>
    /\ search' = None
    /\ found' = <<>> /\ replies' = <<>>
    /\ UNCHANGED left

Next ==
    \/ \E request \in Requests : Begin(request)
    \/ left # <<>> /\ \E reply \in Replies[left[1].host] : Ask(reply)
    \/ Answer

TypeOK ==
    /\ search \in Requests \cup {None}
    /\ Len(left) + Len(replies) <= 2

-----------------------------------------------------------------------------
(* Properties. *)

\* What a document says: per item of the channel the last text of each element,
\* and its enclosures and attributes in order.
Said(item) ==
    LET last(tag) == LET those == SelectSeq(item, LAMBDA f : f.tag = tag /\ ~ f.closed)
                     IN  IF those = <<>> THEN <<>> ELSE Seqs!Last(those).text
        all(tag) == LET those == SelectSeq(item, LAMBDA f : f.tag = tag)
                    IN  [i \in DOMAIN those |-> those[i].attributes]
    IN  [tag \in DOMAIN BlankItem |-> IF tag \in Texts THEN last(tag) ELSE all(tag)]

Expected(document) ==
    LET items == SelectSeq(document, LAMBDA child : child.tag = "item")
    IN  [i \in DOMAIN items |-> Details(Said(items[i].fields))]

\* A whole document is read as what it says, whatever stands beside its items
\* and however its elements are written; one that is cut short gives its first
\* items.  A number that is none, or a document that is not well-formed, takes
\* the whole answer (torznab.rs:178-241).
ReadAsSaid ==
    \A i \in DOMAIN replies :
      LET reply == replies[i]
          says  == Expected(reply.document)
          read  == SearchOne(reply)
      IN  CASE reply.status # 200 \/ reply.damage = "bad" -> read = <<>>
            [] reply.damage = "cut" -> Seqs!IsPrefix(read, says)
            [] OTHER -> read = IF \E k \in DOMAIN says : says[k] = None THEN <<>> ELSE says

\* A date is printed with the wall clock and the zone it came with, over the
\* ends of months, leap days and midnight in UTC (torznab.rs:345-441).
DatesKept ==
    \A i \in DOMAIN replies :
      \A k \in DOMAIN replies[i].document :
        \A f \in DOMAIN replies[i].document[k].fields :
          LET text == replies[i].document[k].fields[f].text
              s    == Stamps[text[1]]
          IN  Len(text) = 1 /\ text[1] \in DOMAIN Stamps =>
                GoDate(text) = [date |-> [year |-> s.year, month |-> s.month, day |-> s.day],
                                clock |-> s.clock, offset |-> s.offset]

\* One indexer that is down or answers badly takes nothing from the others, and
\* each one that can be asked is asked once, in order (service.rs:83-112).
AllAnswer ==
    search # None =>
      /\ found = Seqs!FlattenSeq([i \in DOMAIN replies |-> SearchOne(replies[i])])
      /\ Len(replies) + Len(left) = Len(Asked(search))

TorznabRight == ReadAsSaid /\ DatesKept /\ AllAnswer
=============================================================================
