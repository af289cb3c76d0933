------------------------------ MODULE Extents ------------------------------
(***************************************************************************)
(* The arithmetic a piece store is built on: the set of stored bytes as    *)
(* disjoint spans (crates/rustorr-cache/src/extents.rs), the bounds of a   *)
(* file and the pieces of a torrent (layout.rs).                           *)
(*                                                                         *)
(* A span is <<start, end>>, half-open; a BTreeMap from start to end is a  *)
(* set of spans in which no two have the same start.                       *)
(***************************************************************************)
EXTENDS Integers, FiniteSets, FiniteSetsExt

Span == {s \in Nat \X Nat : s[1] < s[2]}

Bytes(a, b) == a .. (b - 1)

\* The bytes a set of spans stands for.
Covered(spans) == UNION {Bytes(s[1], s[2]) : s \in spans}

\* Disjoint and not touching: one way to write each set of bytes.
Canonical(spans) ==
    /\ spans \subseteq Span
    /\ \A s, u \in spans : s # u => s[2] < u[1] \/ u[2] < s[1]

\* BTreeMap::range(..= a).next_back(): the span that starts last, up to a.
LastUpTo(spans, a) ==
    {s \in spans : s[1] <= a /\ \A u \in spans : u[1] <= a => u[1] <= s[1]}

\* The spans that a range a .. b reaches or touches.
Absorbed(spans, a, b) ==
    {s \in LastUpTo(spans, a) : s[2] >= a} \cup {s \in spans : a < s[1] /\ s[1] <= b}

MergedStart(spans, a, b) ==
    IF \E s \in Absorbed(spans, a, b) : s[1] < a
    THEN (CHOOSE s \in Absorbed(spans, a, b) : s[1] < a)[1]
    ELSE a

MergedEnd(spans, a, b) ==
    IF \E s \in Absorbed(spans, a, b) : s[2] > b
    THEN (CHOOSE s \in Absorbed(spans, a, b) : s[2] > b)[2]
    ELSE b

\* Extents::insert.
Insert(spans, a, b) ==
    IF a = b THEN spans
    ELSE (spans \ Absorbed(spans, a, b)) \cup {<<MergedStart(spans, a, b), MergedEnd(spans, a, b)>>}

Size(spans) == MapThenSumSet(LAMBDA s : s[2] - s[1], spans)

\* What Extents::insert returns.
Added(spans, a, b) ==
    IF a = b THEN 0
    ELSE (MergedEnd(spans, a, b) - MergedStart(spans, a, b)) - Size(Absorbed(spans, a, b))

\* Extents::covers.
Covers(spans, a, b) ==
    a = b \/ \E s \in LastUpTo(spans, a) : s[2] >= b

\* The span that starts last.
LastSpan(spans) == CHOOSE s \in spans : \A u \in spans : u[1] <= s[1]

\* Extents::from_spans: the spans in the order of their starts, as a manifest
\* lists them, refused (ok is FALSE) when one is no range or does not add all its
\* bytes.
FromSpans(spans) ==
    MapThenFoldSet(
      LAMBDA s, acc :
        [ok    |-> acc.ok /\ s[1] <= s[2] /\ Added(acc.spans, s[1], s[2]) = s[2] - s[1],
         spans |-> Insert(acc.spans, s[1], s[2])],
      [ok |-> TRUE, spans |-> {}], LAMBDA s : s, LastSpan, spans)

-----------------------------------------------------------------------------
(* TorrentLayout. *)

\* div_ceil
PieceCount(total, pieceLength) == (total + pieceLength - 1) \div pieceLength

\* The bytes of a piece; the last one may be short.
PieceBytes(p, pieceLength, total) ==
    {i \in Bytes(p * pieceLength, (p + 1) * pieceLength) : i < total}

\* check_range: a range inside the file.
InFile(a, b, length) == a <= b /\ b <= length
=============================================================================
