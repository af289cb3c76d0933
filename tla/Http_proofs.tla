----------------------------- MODULE Http_proofs -----------------------------
(* Theorems about Playback, for a file of any length and any requests for it; *)
(* and about HttpApi, for any number of clients, torrents and requests.       *)
EXTENDS Playback, HttpApi, FiniteInduction, SequenceTheorems, TLAPS

-----------------------------------------------------------------------------
(* Playback: a specification of a range names some bytes and is refused where  *)
(* it names none; what was answered stays answered while it is sent.           *)

Specs == [from : Nat \cup {NoValue}, to : Nat \cup {NoValue}]

\* A specification that is not refused gets the bytes it names, and one that is
\* refused names none.
LEMMA SpecsNameBytes ==
    ASSUME length \in Nat \ {0}, NEW s \in Specs
    PROVE  /\ ~ Refused(s) => /\ FirstByte(s) .. LastByte(s) = Named(s)
                              /\ Named(s) # {}
           /\ Refused(s) => Named(s) = {}
<1>0. NoValue \notin Int BY PlaybackAssumption
<1>1. CASE s.from = NoValue
  <2>1. CASE s.to \in {NoValue, 0} BY <1>0, <1>1, <2>1 DEF Refused, Named
  <2>2. CASE s.to \notin {NoValue, 0}
    <3>1. s.to \in Nat \ {0} /\ ~ Refused(s) BY <1>1, <2>2 DEF Specs, Refused
    <3>2. LastByte(s) = length - 1 BY <1>1 DEF LastByte
    <3>3. FirstByte(s) = IF s.to > length THEN 0 ELSE length - s.to BY <1>1 DEF FirstByte
    <3>4. Named(s) = {i \in 0 .. length - 1 : i >= length - s.to} BY <1>1, <2>2 DEF Named
    <3>5. length - 1 \in Named(s) BY <3>1, <3>4
    <3>6. FirstByte(s) .. LastByte(s) = Named(s) BY <3>1, <3>2, <3>3, <3>4
    <3> QED BY <3>1, <3>5, <3>6
  <2> QED BY <2>1, <2>2
<1>2. CASE s.from # NoValue
  <2>1. s.from \in Nat /\ FirstByte(s) = s.from BY <1>2 DEF Specs, FirstByte
  <2>2. s.to \in Nat \cup {NoValue} BY DEF Specs
  <2>3. LastByte(s) \in Int BY <2>2 DEF LastByte
  <2>4. Named(s) = {i \in 0 .. length - 1 : i >= s.from /\ i <= LastByte(s)}
    BY <1>0, <1>2, <2>1, <2>2 DEF Named, LastByte
  <2>5. LastByte(s) <= length - 1 BY <1>0, <2>2 DEF LastByte
  <2>6. CASE Refused(s) BY <1>2, <2>1, <2>3, <2>4, <2>6 DEF Refused
  <2>7. CASE ~ Refused(s)
    <3>1. s.from < length /\ s.from <= LastByte(s) BY <1>2, <2>1, <2>3, <2>7 DEF Refused
    <3>2. s.from \in Named(s) BY <2>1, <2>4, <3>1
    <3>3. s.from .. LastByte(s) = Named(s) BY <2>1, <2>3, <2>4, <2>5
    <3> QED BY <2>1, <2>7, <3>2, <3>3
  <2> QED BY <2>6, <2>7
<1> QED BY <1>1, <1>2

\* Of an empty file a specification names nothing.
LEMMA NothingOfNothing ==
    ASSUME length = 0, NEW s
    PROVE  Named(s) = {}
BY DEF Named

-----------------------------------------------------------------------------
(* What may be answered. *)

Short(r) == Len(r.range) <= MaxRanges
Possible(r) == \A k \in DOMAIN r.range : Named(r.range[k]) # {}

\* Of a request, the answer with this status and these parts.
Right(r, status, parts, broken) ==
    /\ status = 206 =>
         /\ r.ifRange \notin {"other", "weak", "before"}
         /\ Short(r) /\ Possible(r)
         /\ Len(parts) = Len(r.range)
         /\ \A k \in DOMAIN parts : parts[k].first .. parts[k].last = Named(r.range[k])
    /\ status = 200 =>
         UNION {parts[k].first .. parts[k].last : k \in DOMAIN parts} = 0 .. length - 1
    /\ status = 416 =>
         \/ ~ Possible(r) \/ ~ Short(r)
         \/ broken /\ r.route = "content" /\ Len(r.range) = 1
    /\ status = 304 =>
         r.noneMatch \in {"same", "weak", "star"} \/ r.modified \in {"at", "after"}
    /\ status = 412 => r.match \in {"other", "weak"} \/ r.unmodified = "before"
    /\ (Plain(r) /\ r.range # NoValue /\ Short(r) /\ Possible(r)) =>
         status \in {200, 206} \/ broken \/ Withheld(r)

PlayInv ==
    /\ length \in Nat
    /\ step \in {"idle", "conditions", "list", "touch", "ranges", "body", "done"}
    /\ step # "idle" => request \in Requests
    /\ step \notin {"body", "done"} => answer = NoAnswer
    /\ answer \in [status : Int, parts : Seq([first : Int, last : Int]), sent : Int, broken : BOOLEAN]
    /\ step \in {"body", "done"} =>
         Right(request, answer.status, answer.parts, answer.broken)

LEMMA WholeIsWhole ==
    ASSUME length \in Nat
    PROVE  /\ Whole \in Seq([first : Int, last : Int])
           /\ UNION {Whole[k].first .. Whole[k].last : k \in DOMAIN Whole} = 0 .. length - 1
<1>1. CASE length = 0
  <2>1. Whole = <<>> BY <1>1 DEF Whole
  <2>2. 0 .. length - 1 = {} BY <1>1
  <2>3. DOMAIN Whole = {} BY <2>1
  <2> QED BY <2>1, <2>2, <2>3
<1>2. CASE length # 0
  <2> DEFINE p == [first |-> 0, last |-> length - 1]
  <2>1. Whole = <<p>> BY <1>2 DEF Whole
  <2>2. p \in [first : Int, last : Int] /\ p.first = 0 /\ p.last = length - 1 OBVIOUS
  <2> HIDE DEF p
  <2>3. DOMAIN Whole = {1} /\ Whole[1] = p BY <2>1
  <2>4. Whole \in Seq([first : Int, last : Int]) BY <2>1, <2>2
  <2>5. {Whole[k].first .. Whole[k].last : k \in DOMAIN Whole} = {0 .. length - 1} BY <2>2, <2>3
  <2> QED BY <2>4, <2>5
<1> QED BY <1>1, <1>2

\* Ranges that are not refused are answered with the bytes they name.
LEMMA ParsedRight ==
    ASSUME length \in Nat, NEW specs \in Seq(Specs), specs # <<>>
    PROVE  /\ ~ ParseFails(specs) =>
                /\ Parse(specs) \in Seq([first : Int, last : Int])
                /\ Len(Parse(specs)) = Len(specs) /\ Len(specs) <= MaxRanges
                /\ \A k \in DOMAIN specs :
                     /\ Parse(specs)[k].first .. Parse(specs)[k].last = Named(specs[k])
                     /\ Named(specs[k]) # {}
           /\ ParseFails(specs) =>
                \/ Len(specs) > MaxRanges
                \/ \E k \in DOMAIN specs : Named(specs[k]) = {}
<1>0. NoValue \notin Int BY PlaybackAssumption
<1>1. DOMAIN specs = 1 .. Len(specs) /\ Len(specs) \in Nat /\ 1 \in DOMAIN specs OBVIOUS
<1>2. \A k \in DOMAIN specs : specs[k] \in Specs BY <1>1
<1>3. ASSUME ~ ParseFails(specs)
      PROVE  /\ Parse(specs) \in Seq([first : Int, last : Int])
             /\ Len(Parse(specs)) = Len(specs) /\ Len(specs) <= MaxRanges
             /\ \A k \in DOMAIN specs :
                  /\ Parse(specs)[k].first .. Parse(specs)[k].last = Named(specs[k])
                  /\ Named(specs[k]) # {}
  <2>1. length \in Nat \ {0} /\ Len(specs) <= MaxRanges BY <1>1, <1>3, PlaybackAssumption DEF ParseFails
  <2>2. \A k \in DOMAIN specs : ~ Refused(specs[k]) BY <1>3 DEF ParseFails
  <2>3. \A k \in DOMAIN specs : FirstByte(specs[k]) \in Int /\ LastByte(specs[k]) \in Int
    BY <1>0, <1>2, <2>1, <2>2 DEF FirstByte, LastByte, Specs, Refused
  <2> DEFINE p == Parse(specs)
  <2>4. /\ DOMAIN p = 1 .. Len(specs)
        /\ p = [k \in 1 .. Len(specs) |-> [first |-> FirstByte(specs[k]), last |-> LastByte(specs[k])]]
    BY <1>1 DEF Parse
  <2>5. \A k \in 1 .. Len(specs) : p[k] = [first |-> FirstByte(specs[k]), last |-> LastByte(specs[k])]
    BY <2>4
  <2> HIDE DEF p
  <2>5a. ASSUME NEW k \in 1 .. Len(specs)
         PROVE  /\ p[k] \in [first : Int, last : Int]
                /\ p[k].first = FirstByte(specs[k]) /\ p[k].last = LastByte(specs[k])
    <3> DEFINE f == FirstByte(specs[k])
               l == LastByte(specs[k])
    <3>1. f \in Int /\ l \in Int BY <1>1, <2>3
    <3>2. p[k] = [first |-> f, last |-> l] BY <2>5
    <3> HIDE DEF f, l
    <3>3. p[k] \in [first : Int, last : Int] /\ p[k].first = f /\ p[k].last = l BY <3>1, <3>2
    <3> QED BY <3>3 DEF f, l
  <2>6. \A k \in 1 .. Len(specs) : p[k] \in [first : Int, last : Int] BY <2>5a
  <2>7. p \in [1 .. Len(specs) -> [first : Int, last : Int]] BY <2>4, <2>6
  <2>8. p \in Seq([first : Int, last : Int]) /\ Len(p) = Len(specs)
    <3> DEFINE S == [first : Int, last : Int]
               ln == Len(specs)
    <3>0. ln \in Nat /\ p \in [1 .. ln -> S] BY <1>1, <2>7
    <3> HIDE DEF S, ln, p
    <3>1a. p \in UNION {[1 .. n -> S] : n \in Nat} BY <3>0
    <3>1b. p \in Seq(S) BY <3>1a, SeqDef, Zenon
    <3>1. p \in Seq([first : Int, last : Int]) BY <3>1b DEF S
    <3>2. DOMAIN p = 1 .. Len(p) /\ Len(p) \in Nat BY <3>1, LenProperties
    <3> DEFINE m == Len(p)
               n == Len(specs)
    <3>3. 1 .. m = 1 .. n /\ m \in Nat /\ n \in Nat BY <1>1, <2>4, <3>2 DEF p
    <3> HIDE DEF m, n
    <3>4. m = n BY <3>3
    <3> QED BY <3>1, <3>4 DEF m, n
  <2>9. ASSUME NEW k \in DOMAIN specs
        PROVE  p[k].first .. p[k].last = Named(specs[k]) /\ Named(specs[k]) # {}
    <3>1. p[k].first = FirstByte(specs[k]) /\ p[k].last = LastByte(specs[k]) BY <1>1, <2>5a
    <3> QED BY <1>2, <2>1, <2>2, <3>1, SpecsNameBytes
  <2> QED BY <2>1, <2>8, <2>9 DEF p
<1>4. ASSUME ParseFails(specs)
      PROVE  Len(specs) > MaxRanges \/ \E k \in DOMAIN specs : Named(specs[k]) = {}
  <2>1. CASE length = 0 BY <1>1, <2>1, NothingOfNothing
  <2>2. CASE length # 0 BY <1>2, <1>4, <2>2, SpecsNameBytes DEF ParseFails
  <2> QED BY <2>1, <2>2
<1> QED BY <1>3, <1>4

LEMMA NoValueIsNoWord ==
    NoValue \notin {"other", "weak", "star", "same", "before", "at", "after"}
BY PlaybackAssumption

\* What Ranged makes of a request is right.
LEMMA RangedRight ==
    ASSUME length \in Nat, NEW r \in Requests
    PROVE  /\ Ranged(r).parts \in Seq([first : Int, last : Int])
           /\ Ranged(r).sent = 0 /\ Ranged(r).broken = FALSE
           /\ Ranged(r).status \in {200, 206, 416}
           /\ Ranged(r).status = 206 => Fresh(r) /\ Len(Ranged(r).parts) = Len(r.range)
           /\ Right(r, Ranged(r).status, Ranged(r).parts, FALSE)
<1> DEFINE a == Ranged(r)
           P == Parse(r.range)
<1>1. r.range = NoValue \/ (r.range \in Seq(Specs) /\ r.range # <<>>) BY PlaybackAssumption DEF Specs
<1>2. \A parts : Answer(200, parts) = [status |-> 200, parts |-> parts, sent |-> 0, broken |-> FALSE]
  BY DEF Answer
<1>3. CASE a = Answer(200, Whole)
  <2>1. a.status = 200 /\ a.parts = Whole /\ a.sent = 0 /\ a.broken = FALSE BY <1>2, <1>3
  <2> QED BY <2>1, WholeIsWhole DEF Right
<1>4. CASE a = Answer(416, <<>>) /\ r.range # NoValue /\ ParseFails(r.range)
  <2>1. a.status = 416 /\ a.parts = <<>> /\ a.sent = 0 /\ a.broken = FALSE BY <1>4 DEF Answer
  <2>2. ~ Possible(r) \/ ~ Short(r)
    <3>1. Len(r.range) \in Nat BY <1>1, <1>4
    <3>2. MaxRanges \in Nat BY PlaybackAssumption
    <3> DEFINE specs == r.range
    <3>3. specs \in Seq(Specs) /\ specs # <<>> /\ ParseFails(specs) BY <1>1, <1>4
    <3> HIDE DEF specs
    <3>4. Len(specs) > MaxRanges \/ \E k \in DOMAIN specs : Named(specs[k]) = {} BY <3>3, ParsedRight
    <3> QED BY <3>1, <3>2, <3>4 DEF Possible, Short, specs
  <2> QED BY <2>1, <2>2 DEF Right
<1>5. CASE a = Answer(206, P) /\ r.range # NoValue /\ ~ ParseFails(r.range) /\ Fresh(r)
  <2>1. a.status = 206 /\ a.parts = P /\ a.sent = 0 /\ a.broken = FALSE BY <1>5 DEF Answer
  <2>2. /\ P \in Seq([first : Int, last : Int])
        /\ Len(P) = Len(r.range) /\ Len(r.range) <= MaxRanges
        /\ \A k \in DOMAIN r.range :
             /\ P[k].first .. P[k].last = Named(r.range[k])
             /\ Named(r.range[k]) # {}
    BY <1>1, <1>5, ParsedRight
  <2> HIDE DEF P
  <2>3. DOMAIN P = DOMAIN r.range BY <1>1, <1>5, <2>2
  <2>4. r.ifRange \notin {"other", "weak", "before"} BY <1>5, NoValueIsNoWord DEF Fresh
  <2>5. Right(r, 206, P, FALSE) BY <2>2, <2>3, <2>4 DEF Right, Short, Possible
  <2> HIDE DEF a
  <2>6. /\ a.parts \in Seq([first : Int, last : Int]) /\ a.sent = 0 /\ a.broken = FALSE
        /\ a.status \in {200, 206, 416} /\ Right(r, a.status, a.parts, FALSE)
        /\ Len(a.parts) = Len(r.range)
    BY <2>1, <2>2, <2>5
  <2> QED BY <1>5, <2>6 DEF a
<1>6. \/ a = Answer(200, Whole)
      \/ a = Answer(416, <<>>) /\ r.range # NoValue /\ ParseFails(r.range)
      \/ a = Answer(206, P) /\ r.range # NoValue /\ ~ ParseFails(r.range) /\ Fresh(r)
  BY DEF Ranged
<1> QED BY <1>3, <1>4, <1>5, <1>6

LEMMA PlayStart == HttpInit => PlayInv
<1>1. <<>> \in Seq([first : Int, last : Int]) OBVIOUS
<1> QED BY <1>1, PlaybackAssumption DEF HttpInit, PlayInv, NoAnswer, Answer

LEMMA PlayStep == PlayInv /\ [HttpNext]_playbackVars => PlayInv'
<1> SUFFICES ASSUME PlayInv, [HttpNext]_playbackVars PROVE PlayInv' OBVIOUS
<1>1. \A r, s, p, b : Right(r, s, p, b)' = Right(r, s, p, b) \/ length' # length
  BY DEF Right, Short, Possible, Named, Plain, Withheld
<1>2. ASSUME Receive PROVE PlayInv' BY <1>2 DEF Receive, PlayInv
<1>3. ASSUME Conditions PROVE PlayInv'
  <2> DEFINE status == IF request.route = "play" THEN PlayCondition(request)
                       ELSE ContentCondition(request)
  <2>1. CASE status # 0
    <3>1. answer' = [status |-> status, parts |-> <<>>, sent |-> 0, broken |-> FALSE] /\ step' = "done"
      BY <1>3, <2>1 DEF Conditions, Answer
    <3>2. /\ status \in {412, 304, 403}
          /\ status = 403 => Withheld(request)
          /\ status = 304 => NotModified(request)
          /\ status = 412 => request.match \in {"other", "weak"} \/ request.unmodified = "before"
      BY <2>1 DEF PlayCondition, ContentCondition
    <3>3. Plain(request) => Withheld(request)
      <4> SUFFICES ASSUME Plain(request), status # 403 PROVE FALSE BY <3>2
      <4>1. /\ request["match"] = NoValue /\ request["unmodified"] = NoValue
            /\ request["noneMatch"] = NoValue /\ request["modified"] = NoValue BY DEF Plain
      <4>2. /\ request.match = NoValue /\ request.unmodified = NoValue
            /\ request.noneMatch = NoValue /\ request.modified = NoValue BY <4>1
      <4> QED BY <3>2, <4>2, NoValueIsNoWord DEF NotModified
    <3>4. Right(request, status, <<>>, FALSE) BY <3>2, <3>3 DEF Right, NotModified
    <3>5. length' = length /\ request' = request BY <1>3 DEF Conditions
    <3> HIDE DEF status
    <3>6. answer'.status = status /\ answer'.parts = <<>> /\ answer'.broken = FALSE BY <3>1
    <3>7. answer' \in [status : Int, parts : Seq([first : Int, last : Int]), sent : Int, broken : BOOLEAN]
      BY <3>1, <3>2
    <3>8. Right(request, answer'.status, answer'.parts, answer'.broken) BY <3>4, <3>6
    <3>9. step' = "done" /\ request \in Requests /\ length \in Nat BY <1>3, <3>1 DEF PlayInv, Conditions
    <3> QED BY <3>5, <3>7, <3>8, <3>9, <1>1 DEF PlayInv
  <2>2. CASE status = 0 BY <1>3, <2>2 DEF Conditions, PlayInv
  <2> QED BY <2>1, <2>2
<1>4. ASSUME ListViewed PROVE PlayInv' BY <1>4 DEF ListViewed, PlayInv
<1>5. ASSUME TouchViewed PROVE PlayInv' BY <1>5 DEF TouchViewed, PlayInv
<1>6. ASSUME Ranges PROVE PlayInv'
  <2>1. /\ length' = length /\ request' = request /\ step' \in {"body", "done"}
        /\ request \in Requests /\ answer' = Ranged(request)
    BY <1>6 DEF Ranges, PlayInv
  <2>2. length \in Nat BY DEF PlayInv
  <2> DEFINE a == Ranged(request)
  <2>3. /\ a.parts \in Seq([first : Int, last : Int])
        /\ a.sent = 0 /\ a.broken = FALSE /\ a.status \in {200, 206, 416}
        /\ Right(request, a.status, a.parts, FALSE)
    BY <2>1, <2>2, RangedRight
  <2>4. a \in [status : Int, parts : Seq([first : Int, last : Int]), sent : Int, broken : BOOLEAN]
    <3>1. \E s, p : a = Answer(s, p) BY DEF Ranged
    <3>2. \E s, p : a = [status |-> s, parts |-> p, sent |-> 0, broken |-> FALSE] BY <3>1 DEF Answer
    <3> HIDE DEF a
    <3> QED BY <2>3, <3>2
  <2>5. answer' = a BY <2>1
  <2> HIDE DEF a
  <2>6. Right(request, answer'.status, answer'.parts, answer'.broken) BY <2>3, <2>5
  <2> QED BY <1>1, <2>1, <2>2, <2>4, <2>5, <2>6 DEF PlayInv
<1>10. ASSUME NEW status \in {400, 416, 500},
              /\ length' = length /\ request' = request /\ step' = "done"
              /\ request \in Requests /\ answer' = Failure(status),
              status = 416 => request.route = "content" /\ Len(request.range) = 1
       PROVE PlayInv'
  <2>1. answer' = [status |-> status, parts |-> <<>>, sent |-> 0, broken |-> TRUE]
    BY <1>10 DEF Failure, Answer
  <2>2. answer'.status = status /\ answer'.parts = <<>> /\ answer'.broken = TRUE BY <2>1
  <2>3. answer' \in [status : Int, parts : Seq([first : Int, last : Int]), sent : Int, broken : BOOLEAN]
    BY <2>1
  <2>4. Right(request, status, <<>>, TRUE) BY <1>10 DEF Right
  <2>5. length \in Nat BY DEF PlayInv
  <2>6. Right(request, answer'.status, answer'.parts, answer'.broken) BY <2>2, <2>4
  <2>7. length' = length /\ request' = request /\ step' = "done" /\ request \in Requests BY <1>10
  <2> QED BY <1>1, <2>3, <2>5, <2>6, <2>7 DEF PlayInv
<1>11. ASSUME ViewedFails \/ SniffFails PROVE PlayInv'
  <2>1. /\ length' = length /\ request' = request /\ step' = "done" /\ request \in Requests
        /\ answer' = Failure(400) \/ answer' = Failure(500)
    BY <1>11 DEF ViewedFails, SniffFails, PlayInv
  <2> QED BY <1>10, <2>1
<1>12. ASSUME OpenFails PROVE PlayInv'
  <2> DEFINE a == Ranged(request)
  <2>1. /\ length' = length /\ request' = request /\ step' = "done" /\ request \in Requests
        /\ a.status \in {200, 206} /\ Len(a.parts) <= 1
        /\ \/ answer' = Failure(400) \/ answer' = Failure(500)
           \/ answer' = Failure(416) /\ request.route = "content" /\ a.status = 206
    <3>1. request \in Requests BY <1>12 DEF OpenFails, PlayInv
    <3>2. request.route \in {"play", "content"} BY <3>1, PlaybackAssumption
    <3> QED BY <1>12, <3>1, <3>2 DEF OpenFails
  <2>2. a.status = 206 => Len(request.range) = 1
    <3> SUFFICES ASSUME a.status = 206 PROVE Len(request.range) = 1 OBVIOUS
    <3>1. length \in Nat BY DEF PlayInv
    <3>2. Len(a.parts) = Len(request.range) BY <2>1, <3>1, RangedRight
    <3>3. request.range \in Seq(Specs) /\ request.range # <<>>
      <4>1. request.range # NoValue
        <5>1. SUFFICES ASSUME request.range = NoValue PROVE FALSE OBVIOUS
        <5>2. a = Answer(200, Whole) BY <5>1 DEF Ranged
        <5>3. a.status = 200 BY <5>2 DEF Answer
        <5> QED BY <5>3
      <4> QED BY <2>1, <4>1, PlaybackAssumption DEF Specs
    <3> DEFINE specs == request.range
    <3>4. specs \in Seq(Specs) /\ specs # <<>> /\ Len(specs) <= 1 BY <2>1, <3>2, <3>3
    <3> HIDE DEF specs
    <3>5. Len(specs) \in Nat /\ Len(specs) # 0 BY <3>4, EmptySeq, LenProperties
    <3> DEFINE n == Len(specs)
    <3>6. n \in Nat /\ n # 0 /\ n <= 1 BY <3>4, <3>5
    <3> HIDE DEF n
    <3>7. n = 1 BY <3>6
    <3> QED BY <3>7 DEF n, specs
  <2> HIDE DEF a
  <2> QED BY <1>10, <2>1, <2>2
<1>7. ASSUME Part \/ Break PROVE PlayInv'
  <2>1. /\ length' = length /\ request' = request /\ step = "body" /\ step' \in {"body", "done"}
        /\ answer' = [answer EXCEPT !.sent = @ + 1] \/ answer' = [answer EXCEPT !.broken = TRUE]
    BY <1>7 DEF Part, Break
  <2>2. answer \in [status : Int, parts : Seq([first : Int, last : Int]), sent : Int, broken : BOOLEAN]
    BY DEF PlayInv
  <2>3. /\ answer' \in [status : Int, parts : Seq([first : Int, last : Int]), sent : Int, broken : BOOLEAN]
        /\ answer'.status = answer.status /\ answer'.parts = answer.parts
        /\ answer.broken => answer'.broken
    <3>1. CASE answer' = [answer EXCEPT !.sent = @ + 1]
      <4> DEFINE n == answer.sent + 1
      <4>1. n \in Int /\ answer' = [answer EXCEPT !.sent = n] BY <2>2, <3>1
      <4> HIDE DEF n
      <4> QED BY <2>2, <4>1
    <3>2. CASE answer' = [answer EXCEPT !.broken = TRUE] BY <2>2, <3>2
    <3> QED BY <2>1, <3>1, <3>2
  <2>4. Right(request, answer'.status, answer'.parts, answer'.broken)
    <3>1. Right(request, answer.status, answer.parts, answer.broken) BY <2>1 DEF PlayInv
    <3> QED BY <2>3, <3>1 DEF Right
  <2> QED BY <1>1, <2>1, <2>3, <2>4 DEF PlayInv
<1>8. ASSUME (\E timecode \in Timecodes : SetViewed(timecode)) \/ RemoveViewed PROVE PlayInv'
  <2>1. length' = length /\ request' = request /\ step' = step /\ answer' = answer
    BY <1>8 DEF SetViewed, RemoveViewed
  <2> QED BY <1>1, <2>1 DEF PlayInv
<1>9. ASSUME UNCHANGED playbackVars PROVE PlayInv'
  <2>1. length' = length /\ request' = request /\ step' = step /\ answer' = answer
    BY <1>9 DEF playbackVars
  <2> QED BY <1>1, <2>1 DEF PlayInv
<1> QED BY <1>2, <1>3, <1>4, <1>5, <1>6, <1>7, <1>8, <1>9, <1>11, <1>12 DEF HttpNext

\* A player that seeks gets the bytes it asked for, whatever the file, the ranges and
\* the conditions of its request; it is refused ranges that exist only by the limit
\* or when a call fails, which the content route says with a 416 when it is the
\* reader of one range that cannot be opened (range.rs parse, app.rs raw_playback,
\* serve_content.rs serve).
THEOREM PlayersAreAnswered == HttpSpec => []AnswersRight
<1>1. PlayInv => AnswersRight
  <2> SUFFICES ASSUME PlayInv PROVE AnswersRight OBVIOUS
  <2>1. CASE step \in {"body", "done"}
    <3>1. Right(request, answer.status, answer.parts, answer.broken) BY <2>1 DEF PlayInv
    <3> QED BY <3>1 DEF Right, AnswersRight, Short, Possible
  <2>2. CASE step \notin {"body", "done"}
    <3>1. answer.status = 0 /\ step # "done" BY <2>2 DEF PlayInv, NoAnswer, Answer
    <3> QED BY <3>1 DEF AnswersRight
  <2> QED BY <2>1, <2>2
<1> QED BY <1>1, PlayStart, PlayStep, PTL DEF HttpSpec

-----------------------------------------------------------------------------
(* HttpApi: what a request may still change is known from the step it is at.   *)

ApiTypes ==
    /\ setup \in Setups
    /\ catalog \in [InfoHashes -> Entry \cup {Absent}]
    /\ live \in [InfoHashes -> Entry \cup {Absent}]
    /\ position \in [InfoHashes -> Int \cup {Absent}]
    /\ call \in [Clients -> Call \cup {Absent}]
    /\ players \subseteq InfoHashes /\ untold \in BOOLEAN
    /\ orphans \subseteq players /\ missed \subseteq orphans

Streams == {"share", "add", "preload", "stat", "nothing", "m3u", "touch", "play", "write", "open", "body"}

\* What holds of a request at its step, whether the database is frozen and whatever
\* is loaded.
Path(q, frozen, loaded) ==
    /\ q.at = "do" /\ q.ask.op = "setWaf" => ~ frozen
    /\ q.at = "do" /\ q.ask.op \in {"rem", "drop"} => q.ask.h \in InfoHashes
    /\ q.at \in {"list", "collect", "wipe"} => q.ask.op = "wipe"
    /\ q.at = "upload" => q.ask.op = "upload"
    /\ q.at = "view" => q.ask.op = "cache"
    /\ q.at \in Streams => q.ask.h \in InfoHashes
    /\ q.at \in {"share", "add"} => q.ask.op \in {"stream", "play", "playlist"}
    /\ q.at \in {"preload", "stat", "nothing", "play"} => q.ask.op = "stream"
    /\ q.at \in {"touch", "write", "open", "body"} => q.ask.op \in {"stream", "play"}
    /\ q.changed => \/ q.ask.op \in {"upload", "wipe", "stream", "play"}
                    \/ q.at \in {"tasks", "told", "m3u"}
                    \/ q.at = "done" /\ q.status \notin Refusals
    /\ q.ask.op = "play" /\ q.at \in {"touch", "write", "open"} => loaded[q.ask.h] # Absent \/ q.raced
    /\ q.ask.op = "play" /\ q.ask.index = 1 /\ q.at = "done" /\ q.status = 400 => q.raced
    /\ q.base \in {Absent, PublicBase(q.ask)}

\* A request that will remove the HLS task of h, and one that will tell DLNA.
Minds(q, h) == q # Absent /\ q.at \in {"wipe", "tasks"} /\ h \in q.doomed
Tells(q) == q # Absent /\ (q.at \in {"wipe", "told"} \/ (q.at = "tasks" /\ q.ask.op # "drop"))

ApiInv ==
    /\ ApiTypes
    /\ \A c \in Clients : call[c] # Absent => Path(call[c], setup.frozen, live)
    /\ \A h \in orphans \ missed : \E c \in Clients : Minds(call[c], h)
    /\ untold => \E c \in Clients : Tells(call[c])
    /\ ReadOnlyKeeps
    /\ CategoryKept

\* The request of client k stays as it is, but that its torrent may be gone.
Stays(k) ==
    \/ call'[k] = call[k]
    \/ call[k] # Absent /\ call'[k] = [call[k] EXCEPT !.raced = TRUE]

\* Client c's call becomes q.
Turn(c, q) ==
    /\ q \in Call
    /\ call' \in [Clients -> Call \cup {Absent}]
    /\ call'[c] = q
    /\ \A k \in Clients \ {c} : Stays(k)

LEMMA CallsAreTyped ==
    /\ Absent \notin Call
    /\ \A q \in Call :
         /\ q.ask \in Asked /\ q.at \in Steps /\ q.doomed \subseteq InfoHashes /\ q.left \subseteq InfoHashes
         /\ q.listed \in Int /\ q.changed \in BOOLEAN /\ q.raced \in BOOLEAN /\ q.status \in Int
BY ApiAssumption DEF Call

\* A call that moves: by one field, two or three.
LEMMA CallMoves ==
    ASSUME ApiTypes, NEW c \in Clients, call[c] # Absent, NEW q \in Call,
           call' = [call EXCEPT ![c] = q]
    PROVE  Turn(c, q)
BY DEF ApiTypes, Turn, Stays

\* The others stay as they were but for being raced.
LEMMA OthersStay ==
    ASSUME ApiInv, NEW k \in Clients, Stays(k), setup' = setup,
           (call[k] # Absent /\ call[k].ask.h \in InfoHashes /\ live[call[k].ask.h] # Absent) =>
             live'[call[k].ask.h] # Absent \/ call'[k].raced
    PROVE  /\ call'[k] # Absent => Path(call'[k], setup'.frozen, live')
           /\ \A h : Minds(call[k], h) => Minds(call'[k], h)
           /\ Tells(call[k]) => Tells(call'[k])
<1> DEFINE p == call[k]
           n == call'[k]
<1>0. p \in Call \cup {Absent} BY DEF ApiInv, ApiTypes
<1>1. CASE n = p /\ p = Absent BY <1>1 DEF Minds, Tells
<1>2. CASE p # Absent
  <2>1. p \in Call BY <1>0, <1>2
  <2>2. n = p \/ n = [p EXCEPT !.raced = TRUE] BY <1>2 DEF Stays
  <2>3. /\ n.ask = p.ask /\ n.at = p.at /\ n.doomed = p.doomed /\ n.changed = p.changed
        /\ n.status = p.status /\ n.base = p.base
        /\ p.raced => n.raced
    BY <2>1, <2>2 DEF Call
  <2>4. n # Absent
    <3>1. n \in Call BY <2>1, <2>2 DEF Call
    <3> QED BY <3>1, CallsAreTyped
  <2>5. Path(p, setup.frozen, live) BY <1>2 DEF ApiInv
  <2>6. p.ask.h \in InfoHashes /\ live[p.ask.h] # Absent => live'[p.ask.h] # Absent \/ n.raced BY <1>2
  <2> HIDE DEF p, n
  <2>7. Path(n, setup'.frozen, live') BY <2>3, <2>5, <2>6 DEF Path, Streams
  <2>8. \A h : Minds(p, h) => Minds(n, h) BY <2>3, <2>4 DEF Minds
  <2>9. Tells(p) => Tells(n) BY <2>3, <2>4 DEF Tells
  <2> QED BY <2>7, <2>8, <2>9 DEF p, n
<1>3. n = p \/ p # Absent BY DEF Stays
<1> QED BY <1>1, <1>2, <1>3

\* What a step of client c must see to.
LEMMA StepKeeps ==
    ASSUME ApiInv, NEW c \in Clients, NEW q, Turn(c, q), setup' = setup,
           catalog' \in [InfoHashes -> Entry \cup {Absent}],
           live' \in [InfoHashes -> Entry \cup {Absent}],
           position' \in [InfoHashes -> Int \cup {Absent}],
           players' \subseteq InfoHashes, untold' \in BOOLEAN,
           orphans' \subseteq players', missed' \subseteq orphans',
           Path(q, setup.frozen, live'),
           \A k \in Clients \ {c} :
             (call[k] # Absent /\ call[k].ask.h \in InfoHashes /\ live[call[k].ask.h] # Absent) =>
               live'[call[k].ask.h] # Absent \/ call'[k].raced,
           \A h \in orphans' \ missed' :
             \/ Minds(q, h)
             \/ h \in orphans \ missed /\ ~ Minds(call[c], h),
           untold' => Tells(q) \/ (untold /\ ~ Tells(call[c])),
           ReadOnlyKeeps', CategoryKept'
    PROVE  ApiInv'
<1>1. ApiTypes' BY DEF ApiInv, ApiTypes, Turn
<1>2. call'[c] = q /\ q # Absent BY CallsAreTyped DEF Turn
<1>3. ASSUME NEW k \in Clients, call'[k] # Absent PROVE Path(call'[k], setup'.frozen, live')
  <2>1. CASE k = c BY <1>2, <2>1
  <2>2. CASE k # c BY <1>3, <2>2, OthersStay DEF Turn
  <2> QED BY <2>1, <2>2
<1>4. ASSUME NEW h \in orphans' \ missed' PROVE \E k \in Clients : Minds(call'[k], h)
  <2>1. CASE Minds(q, h) BY <1>2, <2>1
  <2>2. CASE h \in orphans \ missed /\ ~ Minds(call[c], h)
    <3>1. PICK k \in Clients : Minds(call[k], h) BY <2>2 DEF ApiInv
    <3>2. k # c BY <2>2, <3>1
    <3> QED BY <3>1, <3>2, OthersStay DEF Turn
  <2> QED BY <2>1, <2>2
<1>5. ASSUME untold' PROVE \E k \in Clients : Tells(call'[k])
  <2>1. CASE Tells(q) BY <1>2, <2>1
  <2>2. CASE untold /\ ~ Tells(call[c])
    <3>1. PICK k \in Clients : Tells(call[k]) BY <2>2 DEF ApiInv
    <3>2. k # c BY <2>2, <3>1
    <3> QED BY <3>1, <3>2, OthersStay DEF Turn
  <2> QED BY <1>5, <2>1, <2>2
<1>6. (\A k \in Clients : call[k] # Absent => Path(call[k], setup.frozen, live))' BY <1>3
<1>7. (\A h \in orphans \ missed : \E k \in Clients : Minds(call[k], h))' BY <1>4 DEF Minds
<1>8. (untold => \E k \in Clients : Tells(call[k]))' BY <1>5 DEF Tells
<1> QED BY <1>1, <1>6, <1>7, <1>8 DEF ApiInv

\* A step that only says something to the client.
LEMMA TalkKeeps ==
    ASSUME ApiInv, NEW c \in Clients, NEW q, Turn(c, q), UNCHANGED <<setup, Stores, Ghosts>>,
           Path(q, setup.frozen, live),
           \A h : Minds(call[c], h) => Minds(q, h),
           Tells(call[c]) => Tells(q)
    PROVE  ApiInv'
<1>1. ApiTypes /\ ReadOnlyKeeps /\ CategoryKept BY DEF ApiInv
<1>2. /\ setup' = setup /\ catalog' = catalog /\ live' = live /\ position' = position /\ lists' = lists
      /\ players' = players /\ orphans' = orphans /\ missed' = missed /\ untold' = untold
  BY DEF Stores, Ghosts
<1>3. ReadOnlyKeeps' BY <1>1, <1>2 DEF ReadOnlyKeeps
<1>4. CategoryKept' BY <1>1, <1>2 DEF CategoryKept
<1>5. \A h \in orphans' \ missed' : Minds(q, h) \/ (h \in orphans \ missed /\ ~ Minds(call[c], h))
  BY <1>2
<1> QED BY <1>1, <1>2, <1>3, <1>4, <1>5, StepKeeps DEF ApiTypes

-----------------------------------------------------------------------------
(* How the call of client c changes. *)

Keeps(q, p) ==
    /\ q.ask = p.ask /\ q.doomed = p.doomed /\ q.left = p.left /\ q.listed = p.listed
    /\ q.raced = p.raced /\ q.base = p.base

LEMMA OnProceeds ==
    ASSUME ApiTypes, NEW c \in Clients, call[c] # Absent, NEW at \in Steps, Proceeds(c, at)
    PROVE  \E q \in Call : /\ Turn(c, q) /\ Keeps(q, call[c]) /\ q.at = at
                          /\ q.changed = call[c].changed /\ q.status = call[c].status
<1> DEFINE q == [call[c] EXCEPT !.at = at]
<1>1. call[c] \in Call BY DEF ApiTypes
<1>2. q \in Call /\ Keeps(q, call[c]) /\ q.at = at /\ q.changed = call[c].changed /\ q.status = call[c].status
  BY <1>1 DEF Call, Keeps
<1>3. call' = [call EXCEPT ![c] = q] BY DEF Proceeds
<1> HIDE DEF q
<1> QED BY <1>2, <1>3, CallMoves

LEMMA OnAnswers ==
    ASSUME ApiTypes, NEW c \in Clients, call[c] # Absent, NEW status \in Int, Answers(c, status)
    PROVE  \E q \in Call : /\ Turn(c, q) /\ Keeps(q, call[c]) /\ q.at = "done"
                          /\ q.changed = call[c].changed /\ q.status = status
<1> DEFINE q == [call[c] EXCEPT !.at = "done", !.status = status]
<1>1. call[c] \in Call BY DEF ApiTypes
<1>2. q \in Call /\ Keeps(q, call[c]) /\ q.at = "done" /\ q.changed = call[c].changed /\ q.status = status
  BY <1>1 DEF Call, Keeps, Steps
<1>3. call' = [call EXCEPT ![c] = q] BY DEF Answers
<1> HIDE DEF q
<1> QED BY <1>2, <1>3, CallMoves

LEMMA OnChanges ==
    ASSUME ApiTypes, NEW c \in Clients, call[c] # Absent, NEW at \in Steps, Changes(c, at)
    PROVE  \E q \in Call : /\ Turn(c, q) /\ Keeps(q, call[c]) /\ q.at = at
                          /\ q.changed = TRUE /\ q.status = call[c].status
<1> DEFINE q == [call[c] EXCEPT !.at = at, !.changed = TRUE]
<1>1. call[c] \in Call BY DEF ApiTypes
<1>2. q \in Call /\ Keeps(q, call[c]) /\ q.at = at /\ q.changed = TRUE /\ q.status = call[c].status
  BY <1>1 DEF Call, Keeps
<1>3. call' = [call EXCEPT ![c] = q] BY DEF Changes
<1> HIDE DEF q
<1> QED BY <1>2, <1>3, CallMoves

LEMMA OnEndsChanged ==
    ASSUME ApiTypes, NEW c \in Clients, call[c] # Absent, EndsChanged(c, 200)
    PROVE  \E q \in Call : /\ Turn(c, q) /\ Keeps(q, call[c]) /\ q.at = "done"
                          /\ q.changed = TRUE /\ q.status = 200
<1> DEFINE status == 200
           q == [call[c] EXCEPT !.at = "done", !.status = status, !.changed = TRUE]
<1>1. call[c] \in Call /\ status \in Int BY DEF ApiTypes
<1>2. call' = [call EXCEPT ![c] = q] BY DEF EndsChanged
<1> HIDE DEF status
<1>3. q \in Call /\ Keeps(q, call[c]) /\ q.at = "done" /\ q.changed = TRUE /\ q.status = status
  BY <1>1 DEF Call, Keeps, Steps
<1> HIDE DEF q
<1>4. Turn(c, q) BY <1>2, <1>3, CallMoves
<1> QED BY <1>3, <1>4 DEF status

\* Steps that only answer, or only go on.
LEMMA AnswersKeeps ==
    ASSUME ApiInv, NEW c \in Clients, call[c] # Absent, NEW status \in Int, Answers(c, status),
           UNCHANGED <<setup, Stores, Ghosts>>, call[c].at \notin {"wipe", "tasks", "told"},
           call[c].changed /\ call[c].ask.op \notin {"upload", "wipe", "stream", "play"} => status \notin Refusals,
           call[c].ask.op = "play" /\ call[c].ask.index = 1 /\ status = 400 => call[c].raced
    PROVE  ApiInv'
<1>1. PICK q \in Call : /\ Turn(c, q) /\ Keeps(q, call[c]) /\ q.at = "done"
                        /\ q.changed = call[c].changed /\ q.status = status
  BY OnAnswers DEF ApiInv
<1>2. Path(call[c], setup.frozen, live) BY DEF ApiInv
<1>3. Path(q, setup.frozen, live) BY <1>1, <1>2 DEF Path, Keeps, Streams
<1>4. (\A h : ~ Minds(call[c], h)) /\ ~ Tells(call[c]) BY DEF Minds, Tells
<1> QED BY <1>1, <1>3, <1>4, TalkKeeps

LEMMA ProceedsKeeps ==
    ASSUME ApiInv, NEW c \in Clients, call[c] # Absent, NEW at \in Steps, Proceeds(c, at),
           UNCHANGED <<setup, Stores, Ghosts>>, call[c].at \notin {"wipe", "tasks", "told"},
           \A q \in Call : /\ Keeps(q, call[c]) /\ q.at = at
                          /\ q.changed = call[c].changed /\ q.status = call[c].status
                          => Path(q, setup.frozen, live)
    PROVE  ApiInv'
<1>1. PICK q \in Call : /\ Turn(c, q) /\ Keeps(q, call[c]) /\ q.at = at
                        /\ q.changed = call[c].changed /\ q.status = call[c].status
  BY OnProceeds DEF ApiInv
<1>3. Path(q, setup.frozen, live) BY <1>1
<1>4. (\A h : ~ Minds(call[c], h)) /\ ~ Tells(call[c]) BY DEF Minds, Tells
<1> QED BY <1>1, <1>3, <1>4, TalkKeeps

-----------------------------------------------------------------------------
(* Steps that change nothing but the call. *)

LEMMA ReceivesKeeps ==
    ASSUME ApiInv, NEW c \in Clients, NEW r \in Asks[c], Receives(c, r)
    PROVE  ApiInv'
<1> DEFINE q == Request(r)
<1>1. r \in Asked BY DEF Asked
<1>2. /\ q \in Call /\ q.at = "gate" /\ q.changed = FALSE /\ q.base = Absent /\ q.ask = r
  BY <1>1 DEF Request, Call, Steps, Bases
<1>3. call' = [call EXCEPT ![c] = q] /\ call[c] = Absent BY DEF Receives
<1> HIDE DEF q
<1>4. Turn(c, q) BY <1>2, <1>3 DEF Turn, Stays, ApiInv, ApiTypes
<1>5. Path(q, setup.frozen, live) BY <1>2 DEF Path, Streams
<1>6. (\A h : ~ Minds(call[c], h)) /\ ~ Tells(call[c]) BY <1>3 DEF Minds, Tells
<1>7. UNCHANGED <<setup, Stores, Ghosts>> BY DEF Receives
<1> QED BY <1>4, <1>5, <1>6, <1>7, TalkKeeps

LEMMA AdmitKeeps ==
    ASSUME ApiInv, NEW c \in Clients, Admit(c)
    PROVE  ApiInv'
<1> DEFINE p == call[c]
           r == p.ask
           status == Gate(r)
           at == FirstStep(r)
<1>1. p # Absent /\ p.at = "gate" /\ UNCHANGED <<setup, Stores, Ghosts>> BY DEF Admit, AtStep
<1>2. p \in Call /\ Path(p, setup.frozen, live) BY <1>1 DEF ApiInv, ApiTypes
<1>3. p.changed => r.op \in {"upload", "wipe", "stream", "play"} BY <1>1, <1>2 DEF Path
<1>4. status \in {0, 403, 204, 404, 401, 400, 500} BY DEF Gate
<1>5. r.op = "play" => status # 400
  BY DEF Gate, Malformed
<1>6. CASE Answers(c, 500) BY <1>1, <1>6, AnswersKeeps DEF Refusals
<1>7. CASE status # 0 /\ Answers(c, status)
  <2> HIDE DEF status
  <2> QED BY <1>1, <1>3, <1>4, <1>5, <1>7, AnswersKeeps
<1>8. CASE status = 0 /\ Proceeds(c, at)
  <2>1. /\ ~ Malformed(r) /\ ~ (r.op = "setWaf" /\ setup.frozen) /\ ~ (r.op = "play" /\ r.h = 0)
    BY <1>8 DEF Gate
  <2>2. r \in Asked BY <1>2 DEF Call
  <2>3. r.h \in InfoHashes \cup {0} BY <2>2, ApiAssumption
  <2>4. at \in {"list", "upload", "share", "add", "do"} BY DEF FirstStep
  <2>5. /\ at = "list" => r.op = "wipe"
        /\ at = "upload" => r.op = "upload"
        /\ at \in {"share", "add"} => r.op \in {"stream", "play", "playlist"}
    BY DEF FirstStep
  <2>5a. r.op \in {"rem", "drop"} => r.h \in InfoHashes BY <2>1, <2>3 DEF Malformed
  <2>6. at \in {"share", "add"} => r.h \in InfoHashes BY <2>1, <2>3, <2>5 DEF Malformed
  <2>7. at \in Steps BY <2>4 DEF Steps
  <2> HIDE DEF at
  <2>8. ASSUME NEW q \in Call, Keeps(q, p), q.at = at, q.changed = p.changed, q.status = p.status
        PROVE  Path(q, setup.frozen, live)
    BY <1>2, <1>3, <2>1, <2>4, <2>5, <2>5a, <2>6, <2>8 DEF Path, Keeps, Streams
  <2> QED BY <1>1, <1>8, <2>7, <2>8, ProceedsKeeps
<1> QED BY <1>6, <1>7, <1>8 DEF Admit

LEMMA ReadKeeps ==
    ASSUME ApiInv, NEW c \in Clients, Read(c)
    PROVE  ApiInv'
<1> DEFINE p == call[c]
           r == p.ask
<1>1. p # Absent /\ p.at = "do" /\ UNCHANGED <<setup, Stores, Ghosts>> BY DEF Read, AtStep
<1>2. p \in Call /\ Path(p, setup.frozen, live) BY <1>1 DEF ApiInv, ApiTypes
<1>3. p.changed => r.op \in {"upload", "wipe", "stream", "play"} BY <1>1, <1>2 DEF Path
<1>4. CASE Answers(c, 200) BY <1>1, <1>4, AnswersKeeps DEF Refusals
<1>5. CASE r.op \in {"get", "cache"} /\ Answers(c, 404) BY <1>1, <1>3, <1>5, AnswersKeeps
<1>6. CASE r.op = "cache" /\ Proceeds(c, "view")
  <2>1. ASSUME NEW q \in Call, Keeps(q, p), q.at = "view", q.changed = p.changed, q.status = p.status
        PROVE  Path(q, setup.frozen, live)
    BY <1>2, <1>3, <1>6, <2>1 DEF Path, Keeps, Streams
  <2>2. "view" \in Steps BY DEF Steps
  <2> QED BY <1>1, <1>6, <2>1, <2>2, ProceedsKeeps
<1> QED BY <1>4, <1>5, <1>6 DEF Read

LEMMA CacheViewKeeps ==
    ASSUME ApiInv, NEW c \in Clients, CacheView(c)
    PROVE  ApiInv'
<1> DEFINE p == call[c]
<1>1. p # Absent /\ p.at = "view" /\ UNCHANGED <<setup, Stores, Ghosts>> BY DEF CacheView, AtStep
<1>2. p \in Call /\ Path(p, setup.frozen, live) BY <1>1 DEF ApiInv, ApiTypes
<1>3. p.ask.op = "cache" /\ ~ p.changed BY <1>1, <1>2, CallsAreTyped DEF Path
<1>4. Answers(c, 200) \/ Answers(c, 404) BY DEF CacheView
<1> QED BY <1>1, <1>3, <1>4, AnswersKeeps

LEMMA ShareKeeps ==
    ASSUME ApiInv, NEW c \in Clients, Share(c)
    PROVE  ApiInv'
<1> DEFINE p == call[c]
           r == p.ask
<1>1. p # Absent /\ p.at = "share" /\ UNCHANGED <<setup, Stores, Ghosts>> BY DEF Share, AtStep
<1>2. p \in Call /\ Path(p, setup.frozen, live) BY <1>1 DEF ApiInv, ApiTypes
<1>3. p.changed => r.op \in {"upload", "wipe", "stream", "play"} BY <1>1, <1>2 DEF Path
<1>4. CASE Answers(c, 401) \/ Answers(c, 500) BY <1>1, <1>3, <1>4, AnswersKeeps
<1>5. CASE Proceeds(c, "add")
  <2>1. ASSUME NEW q \in Call, Keeps(q, p), q.at = "add", q.changed = p.changed, q.status = p.status
        PROVE  Path(q, setup.frozen, live)
    BY <1>1, <1>2, <1>3, <2>1 DEF Path, Keeps, Streams
  <2>2. "add" \in Steps BY DEF Steps
  <2> QED BY <1>1, <1>5, <2>1, <2>2, ProceedsKeeps
<1>6. Answers(c, 401) \/ Answers(c, 500) \/ Proceeds(c, "add") BY DEF Share
<1> QED BY <1>4, <1>5, <1>6

LEMMA PreloadKeeps ==
    ASSUME ApiInv, NEW c \in Clients, Preload(c)
    PROVE  ApiInv'
<1> DEFINE p == call[c]
           r == p.ask
           at == r.wants
<1>1. p # Absent /\ p.at = "preload" /\ UNCHANGED <<setup, Stores, Ghosts>> BY DEF Preload, AtStep
<1>2. p \in Call /\ Path(p, setup.frozen, live) BY <1>1 DEF ApiInv, ApiTypes
<1>3. r.op = "stream" /\ r.h \in InfoHashes BY <1>1, <1>2 DEF Path, Streams
<1>4. CASE Answers(c, 400) BY <1>1, <1>3, <1>4, AnswersKeeps
<1>5. CASE Proceeds(c, at)
  <2>1. r \in Asked BY <1>2, CallsAreTyped
  <2>2. at \in {"play", "m3u", "stat", "nothing"} BY <2>1, ApiAssumption
  <2>3. at \in Steps BY <2>2 DEF Steps
  <2> HIDE DEF at
  <2>4. ASSUME NEW q \in Call, Keeps(q, p), q.at = at, q.changed = p.changed, q.status = p.status
        PROVE  Path(q, setup.frozen, live)
    BY <1>1, <1>2, <1>3, <2>2, <2>4 DEF Path, Keeps, Streams
  <2> QED BY <1>1, <1>5, <2>3, <2>4, ProceedsKeeps
<1> QED BY <1>4, <1>5 DEF Preload

LEMMA FinishKeeps ==
    ASSUME ApiInv, NEW c \in Clients, Finish(c) \/ EndBody(c)
    PROVE  ApiInv'
<1>1. /\ call[c] # Absent /\ call[c].at \in {"stat", "nothing", "body"} /\ Answers(c, 200)
      /\ UNCHANGED <<setup, Stores, Ghosts>>
  BY DEF Finish, EndBody, AtStep
<1> QED BY <1>1, AnswersKeeps DEF Refusals

LEMMA PlaylistKeeps ==
    ASSUME ApiInv, NEW c \in Clients, Playlist(c)
    PROVE  ApiInv'
<1> DEFINE p == call[c]
           b == PublicBase(p.ask)
           q == [p EXCEPT !.at = "done", !.status = 200, !.base = b]
<1>1. p # Absent /\ p.at = "m3u" /\ UNCHANGED <<setup, Stores, Ghosts>> BY DEF Playlist, AtStep
<1>2. p \in Call /\ Path(p, setup.frozen, live) BY <1>1 DEF ApiInv, ApiTypes
<1>3. call' = [call EXCEPT ![c] = q] BY DEF Playlist
<1>4. b \in Bases BY <1>2, CallsAreTyped DEF Bases
<1>5. q \in Call /\ q.at = "done" /\ q.status = 200 /\ q.base = b /\ q.ask = p.ask /\ q.changed = p.changed
  <2> DEFINE status == 200
  <2>0. "done" \in Steps BY DEF Steps
  <2>1. q = [p EXCEPT !.at = "done", !.status = status, !.base = b] /\ status \in Int OBVIOUS
  <2>2. p \in Call BY <1>2
  <2> HIDE DEF p, b, q, status
  <2>3. /\ q \in Call /\ q.at = "done" /\ q.status = status /\ q.base = b
        /\ q.ask = p.ask /\ q.changed = p.changed
    BY <1>4, <2>0, <2>1, <2>2 DEF Call
  <2> QED BY <2>3 DEF status
<1> HIDE DEF b
<1> HIDE DEF q
<1>6. Turn(c, q) BY <1>1, <1>3, <1>5, CallMoves DEF ApiInv
<1>7. Path(q, setup.frozen, live) BY <1>5 DEF Path, Streams, Refusals, b
<1>8. (\A h : ~ Minds(p, h)) /\ ~ Tells(p) BY <1>1 DEF Minds, Tells
<1> QED BY <1>1, <1>6, <1>7, <1>8, TalkKeeps

LEMMA TouchKeeps ==
    ASSUME ApiInv, NEW c \in Clients, Touch(c)
    PROVE  ApiInv'
<1> DEFINE p == call[c]
           r == p.ask
           l == IF position[r.h] = Absent THEN 0 ELSE position[r.h]
           q == [p EXCEPT !.at = "write", !.listed = l]
<1>1. p # Absent /\ p.at \in {"touch", "play"} /\ UNCHANGED <<setup, Stores, Ghosts>> BY DEF Touch
<1>2. p \in Call /\ Path(p, setup.frozen, live) BY <1>1 DEF ApiInv, ApiTypes
<1>3. r.op \in {"stream", "play"} /\ r.h \in InfoHashes BY <1>1, <1>2 DEF Path, Streams
<1>4. CASE r.index # 1 /\ Answers(c, 400) BY <1>1, <1>3, <1>4, AnswersKeeps
<1>5. CASE call' = [call EXCEPT ![c] = q]
  <2>1. l \in Int BY <1>3 DEF ApiInv, ApiTypes
  <2> HIDE DEF l
  <2>2. /\ q \in Call /\ q.at = "write" /\ q.ask = p.ask /\ q.raced = p.raced
        /\ q.base = p.base /\ q.status = p.status
    BY <1>2, <2>1 DEF Call, Steps
  <2> HIDE DEF q
  <2>3. Turn(c, q) BY <1>1, <1>5, <2>2, CallMoves DEF ApiInv
  <2>4. r.op = "play" => live[r.h] # Absent \/ p.raced BY <1>1, <1>2 DEF Path
  <2>5. Path(q, setup.frozen, live) BY <1>2, <1>3, <2>2, <2>4 DEF Path, Streams
  <2>6. (\A h : ~ Minds(p, h)) /\ ~ Tells(p) BY <1>1 DEF Minds, Tells
  <2> QED BY <1>1, <2>3, <2>5, <2>6, TalkKeeps
<1> QED BY <1>4, <1>5 DEF Touch

LEMMA OpenBodyKeeps ==
    ASSUME ApiInv, NEW c \in Clients, OpenBody(c)
    PROVE  ApiInv'
<1> DEFINE p == call[c]
           r == p.ask
<1>1. p # Absent /\ p.at = "open" /\ UNCHANGED <<setup, Stores, Ghosts>> BY DEF OpenBody, AtStep
<1>2. p \in Call /\ Path(p, setup.frozen, live) BY <1>1 DEF ApiInv, ApiTypes
<1>3. r.op \in {"stream", "play"} /\ r.h \in InfoHashes BY <1>1, <1>2 DEF Path, Streams
<1>4. CASE live[r.h] = Absent /\ Answers(c, 400)
  <2>1. r.op = "play" => p.raced BY <1>1, <1>2, <1>4 DEF Path
  <2> QED BY <1>1, <1>3, <1>4, <2>1, AnswersKeeps
<1>5. CASE Proceeds(c, "body")
  <2>1. ASSUME NEW q \in Call, Keeps(q, p), q.at = "body", q.changed = p.changed, q.status = p.status
        PROVE  Path(q, setup.frozen, live)
    BY <1>2, <1>3, <2>1 DEF Path, Keeps, Streams
  <2>2. "body" \in Steps BY DEF Steps
  <2> QED BY <1>1, <1>5, <2>1, <2>2, ProceedsKeeps
<1> QED BY <1>4, <1>5 DEF OpenBody

\* A wipe's lists, and its end.
LEMMA ListsKeep ==
    ASSUME ApiInv, NEW c \in Clients, ListTasks(c) \/ Collect(c)
    PROVE  ApiInv'
<1> DEFINE p == call[c]
           q == IF p.at = "list" THEN [p EXCEPT !.at = "collect", !.doomed = AllKnown]
                ELSE [p EXCEPT !.at = "wipe", !.left = AllKnown]
<1>1. p # Absent /\ p.at \in {"list", "collect"} /\ UNCHANGED <<setup, Stores, Ghosts>>
  BY DEF ListTasks, Collect, AtStep
<1>2. p \in Call /\ Path(p, setup.frozen, live) BY <1>1 DEF ApiInv, ApiTypes
<1>3. call' = [call EXCEPT ![c] = q] BY DEF ListTasks, Collect, AtStep
<1>4. AllKnown \subseteq InfoHashes BY DEF AllKnown
<1>5. /\ q \in Call /\ q.at \in {"collect", "wipe"} /\ q.ask = p.ask /\ q.changed = p.changed
      /\ q.raced = p.raced /\ q.status = p.status /\ q.base = p.base
  <2>1. "collect" \in Steps /\ "wipe" \in Steps BY DEF Steps
  <2> DEFINE a == AllKnown
  <2>2. a \in SUBSET InfoHashes BY <1>4
  <2> HIDE DEF a
  <2>3. CASE q = [p EXCEPT !.at = "collect", !.doomed = a]
    <3> HIDE DEF q
    <3> QED BY <1>2, <2>1, <2>2, <2>3 DEF Call
  <2>4. CASE q = [p EXCEPT !.at = "wipe", !.left = a]
    <3> HIDE DEF q
    <3> QED BY <1>2, <2>1, <2>2, <2>4 DEF Call
  <2> QED BY <2>3, <2>4 DEF a
<1> HIDE DEF q
<1>6. Turn(c, q) BY <1>1, <1>3, <1>5, CallMoves DEF ApiInv
<1>7. p.ask.op = "wipe" BY <1>1, <1>2 DEF Path
<1>8. Path(q, setup.frozen, live) BY <1>2, <1>5, <1>7 DEF Path, Streams
<1>9. (\A h : ~ Minds(p, h)) /\ ~ Tells(p) BY <1>1 DEF Minds, Tells
<1> QED BY <1>1, <1>6, <1>8, <1>9, TalkKeeps

LEMMA WipedKeeps ==
    ASSUME ApiInv, NEW c \in Clients, Wiped(c)
    PROVE  ApiInv'
<1> DEFINE p == call[c]
<1>1. p # Absent /\ p.at = "wipe" /\ UNCHANGED <<setup, Stores, Ghosts>> /\ Proceeds(c, "tasks")
  BY DEF Wiped, AtStep
<1>2. p \in Call /\ Path(p, setup.frozen, live) BY <1>1 DEF ApiInv, ApiTypes
<1>3. "tasks" \in Steps BY DEF Steps
<1>4. PICK q \in Call : /\ Turn(c, q) /\ Keeps(q, p) /\ q.at = "tasks"
                        /\ q.changed = p.changed /\ q.status = p.status
  BY <1>1, <1>3, OnProceeds DEF ApiInv
<1>5. p.ask.op = "wipe" BY <1>1, <1>2 DEF Path
<1>6. Path(q, setup.frozen, live) BY <1>2, <1>4, <1>5 DEF Path, Streams, Keeps
<1>7. q # Absent BY <1>4, CallsAreTyped
<1>8. (\A h : Minds(p, h) => Minds(q, h)) /\ (Tells(p) => Tells(q)) BY <1>4, <1>5, <1>7 DEF Minds, Tells, Keeps
<1> QED BY <1>1, <1>4, <1>6, <1>8, TalkKeeps

LEMMA TellKeeps ==
    ASSUME ApiInv, NEW c \in Clients, Tell(c)
    PROVE  ApiInv'
<1> DEFINE p == call[c]
<1>1. /\ p # Absent /\ p.at = "told" /\ UNCHANGED <<setup, Stores, orphans, missed>>
      /\ Answers(c, 200) /\ untold' = FALSE
  BY DEF Tell, AtStep
<1>2. p \in Call /\ Path(p, setup.frozen, live) BY <1>1 DEF ApiInv, ApiTypes
<1>3. PICK q \in Call : /\ Turn(c, q) /\ Keeps(q, p) /\ q.at = "done" /\ q.changed = p.changed /\ q.status = 200
  BY <1>1, OnAnswers DEF ApiInv
<1>4. /\ setup' = setup /\ catalog' = catalog /\ live' = live /\ position' = position /\ lists' = lists
      /\ players' = players /\ orphans' = orphans /\ missed' = missed
  BY <1>1 DEF Stores
<1>5. Path(q, setup.frozen, live) BY <1>2, <1>3 DEF Path, Streams, Keeps, Refusals
<1>6. \A h : ~ Minds(p, h) BY <1>1 DEF Minds
<1>7. ReadOnlyKeeps' /\ CategoryKept' BY <1>4 DEF ApiInv, ReadOnlyKeeps, CategoryKept
<1>8. ApiTypes BY DEF ApiInv
<1> QED BY <1>1, <1>3, <1>4, <1>5, <1>6, <1>7, <1>8, StepKeeps DEF ApiTypes

-----------------------------------------------------------------------------
(* Steps that change what the database or the coordinator holds. *)

\* Adding a torrent loads it, saves nothing in a frozen database, and leaves the
\* categories in step.
LEMMA AddRight ==
    ASSUME ApiTypes, CategoryKept, setup' = setup, NEW r \in Asked, NEW url \in BOOLEAN, NEW h, Add(h, r, url)
    PROVE  /\ live' \in [InfoHashes -> Entry \cup {Absent}]
           /\ catalog' \in [InfoHashes -> Entry \cup {Absent}]
           /\ \A k \in InfoHashes : live[k] # Absent => live'[k] # Absent
           /\ h \in InfoHashes => live'[h] # Absent
           /\ setup.frozen => catalog' = catalog
           /\ CategoryKept'
<1> DEFINE again == live[h] # Absent /\ ~ url
           entry == IF again THEN live[h] ELSE Merged(h, r)
           saves == r.save /\ ~ setup.frozen /\ ~ (again /\ catalog[h] # Absent)
<1>1. /\ live' = [live EXCEPT ![h] = entry]
      /\ catalog' = IF saves THEN [catalog EXCEPT ![h] = entry] ELSE catalog
  BY DEF Add
<1>2. live \in [InfoHashes -> Entry \cup {Absent}] /\ catalog \in [InfoHashes -> Entry \cup {Absent}]
  BY DEF ApiTypes
<1>3. Absent \notin Entry BY ApiAssumption
<1>4. CASE h \notin InfoHashes
  <2>1. live' = live /\ (catalog' = catalog) BY <1>1, <1>2, <1>4
  <2> QED BY <1>2, <1>4, <2>1 DEF CategoryKept
<1>5. CASE h \in InfoHashes
  <2> DEFINE e == IF catalog[h] = Absent THEN [title |-> Blank, category |-> Blank] ELSE catalog[h]
             t == IF r.title # Blank THEN r.title ELSE IF e.title # Blank THEN e.title ELSE "name"
             g == IF e.category # Blank THEN e.category ELSE r.category
  <2>1. r.title \in Texts /\ r.category \in Texts /\ Blank \in Texts /\ "name" \in Texts BY DEF Texts
  <2>2. e.title \in Texts /\ e.category \in Texts
    <3>1. CASE catalog[h] = Absent BY <2>1, <3>1
    <3>2. CASE catalog[h] # Absent
      <4>1. catalog[h] \in Entry BY <1>2, <1>5, <3>2
      <4> QED BY <3>2, <4>1 DEF Entry
    <3> QED BY <3>1, <3>2
  <2>3. Merged(h, r) = [title |-> t, category |-> g] BY DEF Merged
  <2>4. Merged(h, r) \in Entry
    <3> HIDE DEF e
    <3> QED BY <2>1, <2>2, <2>3 DEF Entry
  <2>5. entry \in Entry BY <1>2, <1>5, <2>4
  <2>6. ~ saves /\ catalog[h] # Absent /\ ~ setup.frozen /\ live[h] # Absent /\ again => entry = live[h]
    OBVIOUS
  <2>7. ~ again /\ catalog[h] # Absent => catalog[h].category \in {Blank, entry.category}
    <3> SUFFICES ASSUME ~ again, catalog[h] # Absent PROVE catalog[h].category \in {Blank, entry.category}
      OBVIOUS
    <3>1. e = catalog[h] OBVIOUS
    <3>3. entry = Merged(h, r) OBVIOUS
    <3>4. entry.category = g
      <4> HIDE DEF entry, t, g
      <4> QED BY <2>3, <3>3
    <3> HIDE DEF entry, e
    <3> QED BY <3>1, <3>4
  <2> HIDE DEF entry
  <2>8. live'[h] = entry /\ (\A k \in InfoHashes \ {h} : live'[k] = live[k]) BY <1>1, <1>2, <1>5
  <2>9. /\ catalog'[h] = IF saves THEN entry ELSE catalog[h]
        /\ \A k \in InfoHashes \ {h} : catalog'[k] = catalog[k]
    BY <1>1, <1>2, <1>5
  <2>10. live' \in [InfoHashes -> Entry \cup {Absent}] /\ catalog' \in [InfoHashes -> Entry \cup {Absent}]
    BY <1>1, <1>2, <2>5
  <2>11. setup.frozen => catalog' = catalog BY <1>1
  <2>12. ASSUME NEW k \in InfoHashes, live'[k] # Absent, catalog'[k] # Absent, ~ setup.frozen
         PROVE  catalog'[k].category \in {Blank, live'[k].category}
    <3>1. CASE k # h BY <2>8, <2>9, <2>12, <3>1 DEF CategoryKept
    <3>2. CASE k = h /\ saves BY <2>8, <2>9, <3>2
    <3>3. CASE k = h /\ ~ saves /\ ~ again BY <2>7, <2>8, <2>9, <2>12, <3>3
    <3>4. CASE k = h /\ ~ saves /\ again
      <4>1. entry = live[h] BY <3>4 DEF entry
      <4> QED BY <1>5, <2>8, <2>9, <2>12, <3>4, <4>1 DEF CategoryKept
    <3> QED BY <3>1, <3>2, <3>3, <3>4
  <2>13. CategoryKept' BY <2>12 DEF CategoryKept
  <2> QED BY <1>3, <1>5, <2>5, <2>8, <2>10, <2>11, <2>13
<1> QED BY <1>4, <1>5

\* Updating one changes what is loaded and what is saved alike.
LEMMA UpdateRight ==
    ASSUME ApiTypes, CategoryKept, setup' = setup, NEW r \in Asked, NEW h, Update(h, r)
    PROVE  /\ live' \in [InfoHashes -> Entry \cup {Absent}]
           /\ catalog' \in [InfoHashes -> Entry \cup {Absent}]
           /\ \A k \in InfoHashes : live[k] # Absent => live'[k] # Absent
           /\ setup.frozen => catalog' = catalog
           /\ CategoryKept'
<1> DEFINE t == IF r.title = Blank THEN "name" ELSE r.title
           entry == [title |-> t, category |-> r.category]
<1>1. /\ live' = IF live[h] = Absent THEN live ELSE [live EXCEPT ![h] = entry]
      /\ catalog' = IF catalog[h] = Absent \/ setup.frozen THEN catalog ELSE [catalog EXCEPT ![h] = entry]
  BY DEF Update
<1>2. live \in [InfoHashes -> Entry \cup {Absent}] /\ catalog \in [InfoHashes -> Entry \cup {Absent}]
  BY DEF ApiTypes
<1>3. entry \in Entry
  <2>1. r.title \in Texts /\ r.category \in Texts /\ "name" \in Texts BY DEF Texts
  <2>2. t \in Texts BY <2>1
  <2> HIDE DEF t
  <2> QED BY <2>1, <2>2 DEF Entry
<1>4. Absent \notin Entry BY ApiAssumption
<1> HIDE DEF entry
<1>5. /\ live' \in [InfoHashes -> Entry \cup {Absent}]
      /\ catalog' \in [InfoHashes -> Entry \cup {Absent}]
  BY <1>1, <1>2, <1>3
<1>6. ASSUME NEW k \in InfoHashes, live[k] # Absent PROVE live'[k] # Absent
  BY <1>1, <1>2, <1>3, <1>4, <1>6
<1>7. setup.frozen => catalog' = catalog BY <1>1
<1>8. ASSUME NEW k \in InfoHashes, live'[k] # Absent, catalog'[k] # Absent, ~ setup.frozen
      PROVE  catalog'[k].category \in {Blank, live'[k].category}
  <2>1. CASE k # h
    <3>1. live'[k] = live[k] /\ catalog'[k] = catalog[k] BY <1>1, <1>2, <2>1
    <3> QED BY <1>8, <3>1 DEF CategoryKept
  <2>2. CASE k = h
    <3>1. live'[k] = entry /\ catalog'[k] = entry BY <1>1, <1>2, <1>8, <2>2
    <3> QED BY <3>1
  <2> QED BY <2>1, <2>2
<1>9. CategoryKept' BY <1>8 DEF CategoryKept
<1> QED BY <1>5, <1>6, <1>7, <1>9

\* A step that unloads nothing, and leaves the tasks of players alone.
LEMMA StoreKeeps ==
    ASSUME ApiInv, NEW c \in Clients, NEW q, Turn(c, q),
           UNCHANGED <<setup, players, orphans, missed>>, call[c].at \notin {"wipe", "tasks", "told"},
           catalog' \in [InfoHashes -> Entry \cup {Absent}],
           live' \in [InfoHashes -> Entry \cup {Absent}],
           position' \in [InfoHashes -> Int \cup {Absent}],
           \A h \in InfoHashes : live[h] # Absent => live'[h] # Absent,
           untold' \in BOOLEAN, untold' => untold \/ Tells(q),
           Path(q, setup.frozen, live'),
           setup.frozen => catalog' = catalog /\ lists' = lists /\ position' = position,
           CategoryKept'
    PROVE  ApiInv'
<1>1. ApiTypes BY DEF ApiInv
<1>2. players' \subseteq InfoHashes /\ orphans' \subseteq players' /\ missed' \subseteq orphans'
  BY <1>1 DEF ApiTypes
<1>3. (\A h : ~ Minds(call[c], h)) /\ ~ Tells(call[c]) BY DEF Minds, Tells
<1>4. ReadOnlyKeeps' BY DEF ReadOnlyKeeps, ApiInv
<1> QED BY <1>2, <1>3, <1>4, StepKeeps

LEMMA AddTorrentKeeps ==
    ASSUME ApiInv, NEW c \in Clients, AddTorrent(c)
    PROVE  ApiInv'
<1> DEFINE p == call[c]
           r == p.ask
<1>1. /\ p # Absent /\ p.at = "do" /\ r.op = "add"
      /\ UNCHANGED <<setup, position, lists, players, orphans, missed>>
  BY DEF AddTorrent, AtStep
<1>2. p \in Call /\ Path(p, setup.frozen, live) BY <1>1 DEF ApiInv, ApiTypes
<1>3. ~ p.changed BY <1>1, <1>2, CallsAreTyped DEF Path
<1>4. CASE Answers(c, 400) /\ UNCHANGED <<catalog, live, untold>>
  <2>1. UNCHANGED <<setup, Stores, Ghosts>> BY <1>1, <1>4 DEF Stores, Ghosts
  <2> QED BY <1>1, <1>3, <1>4, <2>1, AnswersKeeps
<1>5. CASE Add(r.h, r, r.url) /\ untold' = setup.dlna /\ Changes(c, "told")
  <2>1. r \in Asked BY <1>2, CallsAreTyped
  <2>2. r.url \in BOOLEAN BY <2>1, ApiAssumption
  <2>3. ApiTypes /\ CategoryKept /\ setup \in Setups BY DEF ApiInv, ApiTypes
  <2>4. /\ live' \in [InfoHashes -> Entry \cup {Absent}]
        /\ catalog' \in [InfoHashes -> Entry \cup {Absent}]
        /\ \A k \in InfoHashes : live[k] # Absent => live'[k] # Absent
        /\ setup.frozen => catalog' = catalog
        /\ CategoryKept'
    BY <1>1, <1>5, <2>1, <2>2, <2>3, AddRight
  <2>5. setup.dlna \in BOOLEAN BY <2>3, ApiAssumption
  <2>6. "told" \in Steps BY DEF Steps
  <2>7. PICK q \in Call : Turn(c, q) /\ Keeps(q, p) /\ q.at = "told" /\ q.changed = TRUE
    BY <1>1, <1>5, <2>3, <2>6, OnChanges
  <2>8. Path(q, setup.frozen, live') BY <1>1, <1>2, <2>7 DEF Path, Streams, Keeps
  <2>9. Tells(q) BY <2>7, CallsAreTyped DEF Tells
  <2>10. position' \in [InfoHashes -> Int \cup {Absent}] BY <1>1, <2>3 DEF ApiTypes
  <2> QED BY <1>1, <1>5, <2>4, <2>5, <2>7, <2>8, <2>9, <2>10, StoreKeeps
<1> QED BY <1>4, <1>5 DEF AddTorrent

LEMMA SetTorrentKeeps ==
    ASSUME ApiInv, NEW c \in Clients, SetTorrent(c)
    PROVE  ApiInv'
<1> DEFINE p == call[c]
           r == p.ask
<1>1. /\ p # Absent /\ p.at = "do" /\ r.op = "set" /\ Update(r.h, r) /\ EndsChanged(c, 200)
      /\ UNCHANGED <<setup, position, lists, players, Ghosts>>
  BY DEF SetTorrent, AtStep
<1>2. p \in Call /\ Path(p, setup.frozen, live) BY <1>1 DEF ApiInv, ApiTypes
<1>3. r \in Asked BY <1>2, CallsAreTyped
<1>4. ApiTypes /\ CategoryKept BY DEF ApiInv
<1>5. /\ live' \in [InfoHashes -> Entry \cup {Absent}]
      /\ catalog' \in [InfoHashes -> Entry \cup {Absent}]
      /\ \A k \in InfoHashes : live[k] # Absent => live'[k] # Absent
      /\ setup.frozen => catalog' = catalog
      /\ CategoryKept'
  BY <1>1, <1>3, <1>4, UpdateRight
<1>6. PICK q \in Call : Turn(c, q) /\ Keeps(q, p) /\ q.at = "done" /\ q.changed = TRUE /\ q.status = 200
  BY <1>1, <1>4, OnEndsChanged
<1>7. Path(q, setup.frozen, live') BY <1>1, <1>2, <1>6 DEF Path, Streams, Keeps, Refusals
<1>8. position' \in [InfoHashes -> Int \cup {Absent}] /\ untold' = untold /\ untold \in BOOLEAN
      /\ orphans' = orphans /\ missed' = missed
  BY <1>1, <1>4 DEF ApiTypes, Ghosts
<1> QED BY <1>1, <1>5, <1>6, <1>7, <1>8, StoreKeeps

LEMMA UploadKeeps ==
    ASSUME ApiInv, NEW c \in Clients, Upload(c)
    PROVE  ApiInv'
<1> DEFINE p == call[c]
           r == p.ask
           k == p.listed + 1
           h == r.files[k]
           q == [p EXCEPT !.listed = k, !.changed = TRUE]
<1>1. /\ p # Absent /\ p.at = "upload" /\ UNCHANGED <<setup, position, lists, players, Ghosts>>
  BY DEF Upload, AtStep
<1>2. p \in Call /\ Path(p, setup.frozen, live) BY <1>1 DEF ApiInv, ApiTypes
<1>3. r.op = "upload" BY <1>1, <1>2 DEF Path
<1>4. CASE (Answers(c, 200) \/ Answers(c, 400)) /\ UNCHANGED <<catalog, live>>
  <2>1. UNCHANGED <<setup, Stores, Ghosts>> BY <1>1, <1>4 DEF Stores
  <2> QED BY <1>1, <1>3, <1>4, <2>1, AnswersKeeps
<1>5. CASE Add(h, r, FALSE) /\ call' = [call EXCEPT ![c] = q]
  <2>1. r \in Asked BY <1>2, CallsAreTyped
  <2>2. ApiTypes /\ CategoryKept BY DEF ApiInv
  <2>3. k \in Int BY <1>2, CallsAreTyped
  <2> HIDE DEF k
  <2>4. /\ live' \in [InfoHashes -> Entry \cup {Absent}]
        /\ catalog' \in [InfoHashes -> Entry \cup {Absent}]
        /\ \A x \in InfoHashes : live[x] # Absent => live'[x] # Absent
        /\ setup.frozen => catalog' = catalog
        /\ CategoryKept'
    <3> HIDE DEF h
    <3> QED BY <1>1, <1>5, <2>1, <2>2, AddRight
  <2>5. q \in Call /\ q.at = "upload" /\ q.ask = r /\ q.base = p.base BY <1>1, <1>2, <2>3 DEF Call
  <2> HIDE DEF q, h
  <2>6. Turn(c, q) BY <1>1, <1>5, <2>2, <2>5, CallMoves
  <2>7. Path(q, setup.frozen, live') BY <1>2, <1>3, <2>5 DEF Path, Streams
  <2>8. /\ position' \in [InfoHashes -> Int \cup {Absent}] /\ untold' = untold /\ untold \in BOOLEAN
        /\ orphans' = orphans /\ missed' = missed
    BY <1>1, <2>2 DEF ApiTypes, Ghosts
  <2> QED BY <1>1, <2>4, <2>6, <2>7, <2>8, StoreKeeps
<1> QED BY <1>4, <1>5 DEF Upload

LEMMA StreamAddKeeps ==
    ASSUME ApiInv, NEW c \in Clients, StreamAdd(c)
    PROVE  ApiInv'
<1> DEFINE p == call[c]
           r == p.ask
           at == AfterAdd(r)
<1>1. /\ p # Absent /\ p.at = "add" /\ UNCHANGED <<setup, position, lists, players, Ghosts>>
  BY DEF StreamAdd, AtStep
<1>2. p \in Call /\ Path(p, setup.frozen, live) BY <1>1 DEF ApiInv, ApiTypes
<1>3. r.op \in {"stream", "play", "playlist"} /\ r.h \in InfoHashes BY <1>1, <1>2 DEF Path, Streams
<1>4. p.changed => r.op \in {"upload", "wipe", "stream", "play"} BY <1>1, <1>2 DEF Path
<1>5. CASE UNCHANGED <<catalog, live>> /\ \/ r.op = "play" /\ Answers(c, 500)
                                          \/ r.op = "playlist" /\ Answers(c, 404)
                                          \/ r.op = "stream" /\ Answers(c, 400)
  <2>1. UNCHANGED <<setup, Stores, Ghosts>> BY <1>1, <1>5 DEF Stores
  <2> QED BY <1>1, <1>3, <1>4, <1>5, <2>1, AnswersKeeps
<1>6. CASE Add(r.h, r, r.url) /\ Changes(c, at)
  <2>1. r \in Asked BY <1>2, CallsAreTyped
  <2>2. ApiTypes /\ CategoryKept BY DEF ApiInv
  <2>3. r.url \in BOOLEAN /\ r.wants \in {"play", "m3u", "stat", "nothing"} BY <2>1, ApiAssumption
  <2>4. /\ live' \in [InfoHashes -> Entry \cup {Absent}]
        /\ catalog' \in [InfoHashes -> Entry \cup {Absent}]
        /\ \A x \in InfoHashes : live[x] # Absent => live'[x] # Absent
        /\ live'[r.h] # Absent
        /\ setup.frozen => catalog' = catalog
        /\ CategoryKept'
    BY <1>1, <1>3, <1>6, <2>1, <2>2, <2>3, AddRight
  <2>5. /\ r.op = "play" => at = "touch"
        /\ r.op = "playlist" => at = "m3u"
        /\ r.op = "stream" => at \in {"preload", "play", "m3u", "stat", "nothing"}
    BY <1>3, <2>3 DEF AfterAdd
  <2>6. at \in Steps BY <1>3, <2>5 DEF Steps
  <2> HIDE DEF at
  <2>7. PICK q \in Call : Turn(c, q) /\ Keeps(q, p) /\ q.at = at /\ q.changed = TRUE
    BY <1>1, <1>6, <2>2, <2>6, OnChanges
  <2>8. Path(q, setup.frozen, live') BY <1>2, <1>3, <2>4, <2>5, <2>7 DEF Path, Streams, Keeps
  <2>9. /\ position' \in [InfoHashes -> Int \cup {Absent}] /\ untold' = untold /\ untold \in BOOLEAN
        /\ orphans' = orphans /\ missed' = missed
    BY <1>1, <2>2 DEF ApiTypes, Ghosts
  <2> QED BY <1>1, <2>4, <2>7, <2>8, <2>9, StoreKeeps
<1>7. \/ Add(r.h, r, r.url) /\ Changes(c, at)
      \/ /\ Answers(c, CASE r.op = "play" -> 500 [] r.op = "playlist" -> 404 [] OTHER -> 400)
         /\ UNCHANGED <<catalog, live>>
  BY DEF StreamAdd
<1>8. CASE r.op = "play" BY <1>5, <1>6, <1>7, <1>8
<1>9. CASE r.op = "playlist" BY <1>5, <1>6, <1>7, <1>9
<1>10. CASE r.op = "stream" BY <1>5, <1>6, <1>7, <1>10
<1> QED BY <1>3, <1>8, <1>9, <1>10

\* A position that is stored, where the database may be written.
LEMMA StoredRight ==
    ASSUME ApiTypes, NEW h, NEW time \in Int
    PROVE  /\ Stored(h, time) \in [InfoHashes -> Int \cup {Absent}]
           /\ setup.frozen => Stored(h, time) = position
<1> DEFINE v == IF setup.track THEN time ELSE 0
<1>1. v \in Int /\ position \in [InfoHashes -> Int \cup {Absent}] BY DEF ApiTypes
<1>2. Stored(h, time) = IF setup.frozen THEN position ELSE [position EXCEPT ![h] = v] BY DEF Stored
<1> HIDE DEF v
<1> QED BY <1>1, <1>2

\* A step that writes positions or lists.
LEMMA WritesKeeps ==
    ASSUME ApiInv, NEW c \in Clients, NEW q, Turn(c, q),
           UNCHANGED <<setup, catalog, live, players, Ghosts>>, call[c].at \notin {"wipe", "tasks", "told"},
           position' \in [InfoHashes -> Int \cup {Absent}],
           setup.frozen => lists' = lists /\ position' = position,
           Path(q, setup.frozen, live)
    PROVE  ApiInv'
<1>1. ApiTypes /\ CategoryKept BY DEF ApiInv
<1>2. /\ setup' = setup /\ catalog' = catalog /\ live' = live /\ players' = players
      /\ orphans' = orphans /\ missed' = missed /\ untold' = untold
  BY DEF Ghosts
<1>3. CategoryKept' BY <1>1, <1>2 DEF CategoryKept
<1> QED BY <1>1, <1>2, <1>3, StoreKeeps DEF ApiTypes

LEMMA WriteKeeps ==
    ASSUME ApiInv, NEW c \in Clients, Write(c)
    PROVE  ApiInv'
<1> DEFINE p == call[c]
           r == p.ask
<1>1. /\ p # Absent /\ p.at = "write" /\ position' = Stored(r.h, p.listed) /\ Changes(c, "open")
      /\ UNCHANGED <<setup, catalog, live, lists, players, Ghosts>>
  BY DEF Write, AtStep
<1>2. p \in Call /\ Path(p, setup.frozen, live) /\ ApiTypes BY <1>1 DEF ApiInv, ApiTypes
<1>3. r.op \in {"stream", "play"} /\ r.h \in InfoHashes BY <1>1, <1>2 DEF Path, Streams
<1>4. "open" \in Steps BY DEF Steps
<1>5. PICK q \in Call : Turn(c, q) /\ Keeps(q, p) /\ q.at = "open" /\ q.changed = TRUE
  BY <1>1, <1>2, <1>4, OnChanges
<1>6. Path(q, setup.frozen, live) BY <1>1, <1>2, <1>3, <1>5 DEF Path, Streams, Keeps
<1>7. p.listed \in Int BY <1>2, CallsAreTyped
<1>8. position' \in [InfoHashes -> Int \cup {Absent}] /\ (setup.frozen => position' = position)
  BY <1>1, <1>2, <1>7, StoredRight
<1> QED BY <1>1, <1>5, <1>6, <1>8, WritesKeeps

LEMMA SetPositionKeeps ==
    ASSUME ApiInv, NEW c \in Clients, SetPosition(c)
    PROVE  ApiInv'
<1> DEFINE p == call[c]
           r == p.ask
<1>1. /\ p # Absent /\ p.at = "do" /\ r.op = "viewedSet"
      /\ UNCHANGED <<setup, catalog, live, lists, players, Ghosts>>
  BY DEF SetPosition, AtStep
<1>2. p \in Call /\ Path(p, setup.frozen, live) /\ ApiTypes BY <1>1 DEF ApiInv, ApiTypes
<1>3. ~ p.changed BY <1>1, <1>2, CallsAreTyped DEF Path
<1>4. CASE Answers(c, 400) /\ UNCHANGED position
  <2>1. UNCHANGED <<setup, Stores, Ghosts>> BY <1>1, <1>4 DEF Stores
  <2> QED BY <1>1, <1>3, <1>4, <2>1, AnswersKeeps
<1>5. CASE position' = Stored(r.h, r.time) /\ EndsChanged(c, 200)
  <2>1. PICK q \in Call : Turn(c, q) /\ Keeps(q, p) /\ q.at = "done" /\ q.changed = TRUE /\ q.status = 200
    BY <1>1, <1>2, <1>5, OnEndsChanged
  <2>2. Path(q, setup.frozen, live) BY <1>1, <1>2, <2>1 DEF Path, Streams, Keeps, Refusals
  <2>3. r \in Asked BY <1>2, CallsAreTyped
  <2>4. r.time \in Int BY <2>3, ApiAssumption
  <2>5. position' \in [InfoHashes -> Int \cup {Absent}] /\ (setup.frozen => position' = position)
    BY <1>2, <1>5, <2>4, StoredRight
  <2> QED BY <1>1, <2>1, <2>2, <2>5, WritesKeeps
<1> QED BY <1>4, <1>5 DEF SetPosition

LEMMA RemPositionKeeps ==
    ASSUME ApiInv, NEW c \in Clients, RemPosition(c)
    PROVE  ApiInv'
<1> DEFINE p == call[c]
           r == p.ask
<1>1. /\ p # Absent /\ p.at = "do" /\ r.op = "viewedRem"
      /\ UNCHANGED <<setup, catalog, live, lists, players, Ghosts>>
  BY DEF RemPosition, AtStep
<1>2. p \in Call /\ Path(p, setup.frozen, live) /\ ApiTypes BY <1>1 DEF ApiInv, ApiTypes
<1>3. ~ p.changed BY <1>1, <1>2, CallsAreTyped DEF Path
<1>4. CASE (Answers(c, 200) \/ Answers(c, 400)) /\ UNCHANGED position
  <2>1. UNCHANGED <<setup, Stores, Ghosts>> BY <1>1, <1>4 DEF Stores
  <2> QED BY <1>1, <1>3, <1>4, <2>1, AnswersKeeps
<1>5. CASE ~ setup.frozen /\ position' = [position EXCEPT ![r.h] = Absent] /\ EndsChanged(c, 200)
  <2>1. PICK q \in Call : Turn(c, q) /\ Keeps(q, p) /\ q.at = "done" /\ q.changed = TRUE /\ q.status = 200
    BY <1>1, <1>2, <1>5, OnEndsChanged
  <2>2. Path(q, setup.frozen, live) BY <1>1, <1>2, <2>1 DEF Path, Streams, Keeps, Refusals
  <2>3. position' \in [InfoHashes -> Int \cup {Absent}] BY <1>2, <1>5 DEF ApiTypes
  <2> QED BY <1>1, <1>5, <2>1, <2>2, <2>3, WritesKeeps
<1> QED BY <1>4, <1>5 DEF RemPosition

LEMMA SetWafKeeps ==
    ASSUME ApiInv, NEW c \in Clients, SetWaf(c)
    PROVE  ApiInv'
<1> DEFINE p == call[c]
           r == p.ask
<1>1. /\ p # Absent /\ p.at = "do" /\ r.op = "setWaf" /\ EndsChanged(c, 200)
      /\ UNCHANGED <<setup, catalog, live, position, players, Ghosts>>
  BY DEF SetWaf, AtStep
<1>2. p \in Call /\ Path(p, setup.frozen, live) /\ ApiTypes BY <1>1 DEF ApiInv, ApiTypes
<1>3. ~ setup.frozen BY <1>1, <1>2 DEF Path
<1>4. PICK q \in Call : Turn(c, q) /\ Keeps(q, p) /\ q.at = "done" /\ q.changed = TRUE /\ q.status = 200
  BY <1>1, <1>2, OnEndsChanged
<1>5. Path(q, setup.frozen, live) BY <1>1, <1>2, <1>4 DEF Path, Streams, Keeps, Refusals
<1>6. position' \in [InfoHashes -> Int \cup {Absent}] BY <1>1, <1>2 DEF ApiTypes
<1> QED BY <1>1, <1>3, <1>4, <1>5, <1>6, WritesKeeps

-----------------------------------------------------------------------------
(* Steps that take a torrent, or the task of a player, away. *)

LEMMA GoneRight ==
    ASSUME ApiTypes, NEW h, NEW c, NEW q, Gone(h, c, q)
    PROVE  /\ \A k \in Clients \ {c} : Stays(k) /\ call'[k] \in Call \cup {Absent}
           /\ \A k \in Clients \ {c} : call[k] # Absent /\ call[k].ask.h = h => call'[k].raced
           /\ c \in Clients /\ q \in Call => Turn(c, q)
<1>1. ASSUME NEW k \in Clients \ {c}
      PROVE  /\ Stays(k) /\ call'[k] \in Call \cup {Absent}
             /\ call[k] # Absent /\ call[k].ask.h = h => call'[k].raced
  <2> DEFINE p == call[k]
             n == [p EXCEPT !.raced = TRUE]
  <2>1. call'[k] = IF p # Absent /\ p.ask.h = h THEN n ELSE p BY DEF Gone
  <2>2. p \in Call \cup {Absent} BY DEF ApiTypes
  <2>3. p # Absent => n \in Call /\ n.raced
    <3>1. ASSUME p \in Call PROVE n \in Call /\ n.raced BY <3>1 DEF Call
    <3> HIDE DEF p, n
    <3> QED BY <2>2, <3>1
  <2>4. Stays(k) BY <2>1 DEF Stays
  <2> HIDE DEF n, p
  <2>5. call'[k] \in Call \cup {Absent} /\ (p # Absent /\ p.ask.h = h => call'[k].raced)
    BY <2>1, <2>2, <2>3
  <2> QED BY <2>4, <2>5 DEF p
<1>2. ASSUME c \in Clients, q \in Call PROVE Turn(c, q)
  <2>1. call'[c] = q BY <1>2 DEF Gone
  <2>2. ASSUME NEW k \in Clients PROVE call'[k] \in Call \cup {Absent}
    <3>1. CASE k = c BY <1>2, <2>1, <3>1
    <3>2. CASE k # c BY <1>1, <3>2
    <3> QED BY <3>1, <3>2
  <2>3. call' = [k \in Clients |-> call'[k]] BY DEF Gone
  <2>4. call' \in [Clients -> Call \cup {Absent}] BY <2>2, <2>3
  <2> QED BY <1>1, <1>2, <2>1, <2>4 DEF Turn
<1> QED BY <1>1, <1>2

\* The torrent of hash h is unloaded under everybody, by client c.
LEMMA GoneKeeps ==
    ASSUME ApiInv, NEW c \in Clients, NEW h \in InfoHashes, NEW q \in Call, Gone(h, c, q),
           UNCHANGED <<setup, position, lists, players>>,
           live' = [live EXCEPT ![h] = Absent],
           catalog' = catalog \/ (catalog' = [catalog EXCEPT ![h] = Absent] /\ ~ setup.frozen),
           orphans' = orphans \cup ({h} \cap players),
           missed' \subseteq orphans', missed \subseteq missed',
           h \in players => h \in missed' \/ Minds(q, h),
           \A k : Minds(call[c], k) => Minds(q, k),
           untold' \in BOOLEAN, untold' => untold \/ Tells(q), Tells(call[c]) => Tells(q),
           Path(q, setup.frozen, live')
    PROVE  ApiInv'
<1>1. ApiTypes /\ ReadOnlyKeeps /\ CategoryKept BY DEF ApiInv
<1>2. Turn(c, q) /\ \A k \in Clients \ {c} : call[k] # Absent /\ call[k].ask.h = h => call'[k].raced
  BY <1>1, GoneRight
<1>3. /\ live' \in [InfoHashes -> Entry \cup {Absent}]
      /\ catalog' \in [InfoHashes -> Entry \cup {Absent}]
      /\ position' \in [InfoHashes -> Int \cup {Absent}]
      /\ players' \subseteq InfoHashes /\ orphans' \subseteq players'
  BY <1>1 DEF ApiTypes
<1>4. \A x \in InfoHashes \ {h} : live'[x] = live[x] /\ catalog'[x] = catalog[x] BY <1>1 DEF ApiTypes
<1>5. live'[h] = Absent BY <1>1 DEF ApiTypes
<1>6. ASSUME NEW k \in Clients \ {c}, call[k] # Absent, call[k].ask.h \in InfoHashes, live[call[k].ask.h] # Absent
      PROVE  live'[call[k].ask.h] # Absent \/ call'[k].raced
  BY <1>2, <1>4, <1>6
<1>7. ASSUME NEW x \in orphans' \ missed'
      PROVE  Minds(q, x) \/ (x \in orphans \ missed /\ ~ Minds(call[c], x))
  <2>1. x \in orphans \/ (x = h /\ h \in players) BY <1>7
  <2> QED BY <1>7, <2>1
<1>8. ReadOnlyKeeps' BY <1>1 DEF ReadOnlyKeeps
<1>9. CategoryKept'
  <2> SUFFICES ASSUME NEW x \in InfoHashes, live'[x] # Absent, catalog'[x] # Absent, ~ setup.frozen
               PROVE  catalog'[x].category \in {Blank, live'[x].category}
    BY DEF CategoryKept
  <2>1. x # h BY <1>5
  <2>2. live'[x] = live[x] /\ catalog'[x] = catalog[x] BY <1>4, <2>1
  <2> QED BY <1>1, <2>2 DEF CategoryKept
<1>10. untold' => Tells(q) \/ (untold /\ ~ Tells(call[c])) OBVIOUS
<1> QED BY <1>2, <1>3, <1>6, <1>7, <1>8, <1>9, <1>10, StepKeeps

LEMMA DropTorrentKeeps ==
    ASSUME ApiInv, NEW c \in Clients, DropTorrent(c)
    PROVE  ApiInv'
<1> DEFINE p == call[c]
           h == p.ask.h
           q == [p EXCEPT !.at = "tasks", !.doomed = {h}, !.changed = TRUE]
<1>1. /\ p # Absent /\ p.at = "do" /\ p.ask.op = "drop"
      /\ UNCHANGED <<setup, catalog, position, lists, players, missed, untold>>
  BY DEF DropTorrent, AtStep
<1>2. p \in Call /\ Path(p, setup.frozen, live) /\ ApiTypes BY <1>1 DEF ApiInv, ApiTypes
<1>3. ~ p.changed /\ h \in InfoHashes BY <1>1, <1>2, CallsAreTyped DEF Path
<1>4. CASE Answers(c, 400) /\ UNCHANGED <<live, orphans>>
  <2>1. UNCHANGED <<setup, Stores, Ghosts>> BY <1>1, <1>4 DEF Stores, Ghosts
  <2> QED BY <1>1, <1>3, <1>4, <2>1, AnswersKeeps
<1>5. CASE /\ live' = [live EXCEPT ![h] = Absent]
           /\ orphans' = orphans \cup ({h} \cap players)
           /\ Gone(h, c, q)
  <2>1. /\ q \in Call /\ q.at = "tasks" /\ q.doomed = {h} /\ q.ask = p.ask /\ q.changed = TRUE
        /\ q.base = p.base
    BY <1>2, <1>3 DEF Call, Steps
  <2> HIDE DEF q
  <2>2. q # Absent BY <2>1, CallsAreTyped
  <2>3. Path(q, setup.frozen, live') BY <1>1, <1>2, <2>1 DEF Path, Streams
  <2>4. Minds(q, h) BY <2>1, <2>2 DEF Minds
  <2>5. (\A k : ~ Minds(p, k)) /\ ~ Tells(p) BY <1>1 DEF Minds, Tells
  <2>6. missed' \subseteq orphans' /\ missed \subseteq missed' /\ untold' \in BOOLEAN /\ (untold' => untold)
    BY <1>1, <1>2, <1>5 DEF ApiTypes
  <2> QED BY <1>1, <1>3, <1>5, <2>1, <2>3, <2>4, <2>5, <2>6, GoneKeeps
<1> QED BY <1>4, <1>5 DEF DropTorrent

LEMMA RemTorrentKeeps ==
    ASSUME ApiInv, NEW c \in Clients, RemTorrent(c)
    PROVE  ApiInv'
<1> DEFINE p == call[c]
           h == p.ask.h
           goes == [p EXCEPT !.at = "tasks", !.doomed = {h}]
           q == [goes EXCEPT !.changed = TRUE]
<1>1. /\ p # Absent /\ p.at = "do" /\ p.ask.op = "rem"
      /\ UNCHANGED <<setup, position, lists, players, missed>>
  BY DEF RemTorrent, AtStep
<1>2. p \in Call /\ Path(p, setup.frozen, live) /\ ApiTypes BY <1>1 DEF ApiInv, ApiTypes
<1>3. ~ p.changed /\ h \in InfoHashes BY <1>1, <1>2, CallsAreTyped DEF Path
<1>4. /\ goes \in Call /\ goes.at = "tasks" /\ goes.doomed = {h} /\ goes.ask = p.ask
      /\ goes.base = p.base /\ goes.changed = p.changed
  BY <1>2, <1>3 DEF Call, Steps
<1>5. (\A k : ~ Minds(p, k)) /\ ~ Tells(p) BY <1>1 DEF Minds, Tells
<1> HIDE DEF goes
<1>6. CASE Answers(c, 400) /\ UNCHANGED <<catalog, live, orphans, untold>>
  <2>1. UNCHANGED <<setup, Stores, Ghosts>> BY <1>1, <1>6 DEF Stores, Ghosts
  <2> QED BY <1>1, <1>3, <1>6, <2>1, AnswersKeeps
<1>7. CASE call' = [call EXCEPT ![c] = goes] /\ UNCHANGED <<catalog, live, orphans, untold>>
  <2>1. UNCHANGED <<setup, Stores, Ghosts>> BY <1>1, <1>7 DEF Stores, Ghosts
  <2>2. Turn(c, goes) BY <1>1, <1>2, <1>4, <1>7, CallMoves
  <2>3. Path(goes, setup.frozen, live) BY <1>1, <1>2, <1>3, <1>4 DEF Path, Streams
  <2> QED BY <1>1, <1>5, <2>1, <2>2, <2>3, TalkKeeps
<1>8. CASE /\ ~ setup.frozen
           /\ live' = [live EXCEPT ![h] = Absent]
           /\ catalog' = [catalog EXCEPT ![h] = Absent]
           /\ orphans' = orphans \cup ({h} \cap players)
           /\ untold' = setup.dlna
           /\ Gone(h, c, q)
  <2>1. /\ q \in Call /\ q.at = "tasks" /\ q.doomed = {h} /\ q.ask = p.ask /\ q.changed = TRUE
        /\ q.base = p.base
    BY <1>4 DEF Call
  <2> HIDE DEF q
  <2>2. q # Absent BY <2>1, CallsAreTyped
  <2>3. Path(q, setup.frozen, live') BY <1>1, <1>2, <2>1 DEF Path, Streams
  <2>4. Minds(q, h) /\ Tells(q) BY <1>1, <2>1, <2>2 DEF Minds, Tells
  <2>5. setup \in Setups BY <1>2 DEF ApiTypes
  <2>6. untold' \in BOOLEAN BY <1>8, <2>5, ApiAssumption
  <2>7. missed' \subseteq orphans' /\ missed \subseteq missed' BY <1>1, <1>2, <1>8 DEF ApiTypes
  <2> QED BY <1>1, <1>3, <1>5, <1>8, <2>1, <2>3, <2>4, <2>6, <2>7, GoneKeeps
<1> QED BY <1>6, <1>7, <1>8 DEF RemTorrent, goes

LEMMA RemoveTasksKeeps ==
    ASSUME ApiInv, NEW c \in Clients, RemoveTasks(c)
    PROVE  ApiInv'
<1> DEFINE p == call[c]
<1>1. /\ p # Absent /\ p.at = "tasks"
      /\ players' = players \ p.doomed /\ orphans' = orphans \ p.doomed /\ missed' = missed \ p.doomed
      /\ UNCHANGED <<setup, catalog, live, position, lists, untold>>
      /\ IF p.ask.op = "drop" THEN Answers(c, 200) ELSE Proceeds(c, "told")
  BY DEF RemoveTasks, AtStep
<1>2. /\ p \in Call /\ Path(p, setup.frozen, live) /\ ApiTypes
      /\ ReadOnlyKeeps /\ CategoryKept
  BY <1>1 DEF ApiInv, ApiTypes
<1>3. "told" \in Steps BY DEF Steps
<1>4. PICK q \in Call : /\ Turn(c, q) /\ Keeps(q, p)
                        /\ IF p.ask.op = "drop" THEN q.at = "done" /\ q.status = 200 ELSE q.at = "told"
  <2>1. CASE p.ask.op = "drop"
    <3>1. Answers(c, 200) BY <1>1, <2>1
    <3>2. PICK q \in Call : /\ Turn(c, q) /\ Keeps(q, p) /\ q.at = "done" /\ q.changed = p.changed /\ q.status = 200
      BY <1>1, <1>2, <3>1, OnAnswers
    <3> QED BY <2>1, <3>2
  <2>2. CASE p.ask.op # "drop"
    <3>1. Proceeds(c, "told") BY <1>1, <2>2
    <3>2. PICK q \in Call : /\ Turn(c, q) /\ Keeps(q, p) /\ q.at = "told"
      BY <1>1, <1>2, <1>3, <3>1, OnProceeds
    <3> QED BY <2>2, <3>2
  <2> QED BY <2>1, <2>2
<1>5. Path(q, setup.frozen, live') BY <1>1, <1>2, <1>4 DEF Path, Streams, Keeps, Refusals
<1>6. q # Absent BY <1>4, CallsAreTyped
<1>7. untold' => Tells(q) \/ (untold /\ ~ Tells(p)) BY <1>1, <1>4, <1>6 DEF Tells
<1>8. \A h \in orphans' \ missed' : h \in orphans \ missed /\ ~ Minds(p, h) BY <1>1 DEF Minds
<1>9. ReadOnlyKeeps' /\ CategoryKept' BY <1>1, <1>2 DEF ReadOnlyKeeps, CategoryKept
<1>10. players' \subseteq InfoHashes /\ orphans' \subseteq players' /\ missed' \subseteq orphans'
  BY <1>1, <1>2 DEF ApiTypes
<1> QED BY <1>1, <1>2, <1>4, <1>5, <1>7, <1>8, <1>9, <1>10, StepKeeps DEF ApiTypes

LEMMA WipeKeeps ==
    ASSUME ApiInv, NEW c \in Clients, Wipe(c)
    PROVE  ApiInv'
<1> DEFINE p == call[c]
           h == CHOOSE h \in p.left : \A k \in p.left : h <= k
           q == [p EXCEPT !.left = @ \ {h}, !.changed = TRUE]
<1>1. /\ p # Absent /\ p.at = "wipe" /\ p.left # {} /\ ~ setup.frozen
      /\ UNCHANGED <<setup, position, lists, players>>
  BY DEF Wipe, AtStep
<1>2. p \in Call /\ Path(p, setup.frozen, live) /\ ApiTypes /\ ReadOnlyKeeps /\ CategoryKept
  BY <1>1 DEF ApiInv, ApiTypes
<1>3. p.ask.op = "wipe" BY <1>1, <1>2 DEF Path
<1>4. h \in InfoHashes
  <2>1. p.left \subseteq InfoHashes BY <1>2, CallsAreTyped
  <2>2. p.left \in SUBSET Nat BY <2>1, ApiAssumption
  <2>3. \E x \in p.left : \A k \in p.left : x <= k BY <1>1, <2>2, Least
  <2>4. h \in p.left BY <2>3
  <2> HIDE DEF h
  <2> QED BY <2>1, <2>4
<1> HIDE DEF h
<1>5. CASE /\ Answers(c, 400) /\ missed' = missed \cup (p.doomed \cap orphans) /\ untold' = FALSE
           /\ UNCHANGED <<catalog, live, orphans>>
  <2> DEFINE status == 400
  <2>1. status \in Int /\ Answers(c, status) BY <1>5
  <2> HIDE DEF status
  <2>2. PICK n \in Call : Turn(c, n) /\ Keeps(n, p) /\ n.at = "done"
    BY <1>1, <1>2, <2>1, OnAnswers
  <2>3. Path(n, setup.frozen, live) BY <1>2, <1>3, <2>2 DEF Path, Streams, Keeps
  <2>4. \A x \in orphans' \ missed' : x \in orphans \ missed /\ ~ Minds(p, x) BY <1>5 DEF Minds
  <2>5. ReadOnlyKeeps' /\ CategoryKept' BY <1>1, <1>2, <1>5 DEF ReadOnlyKeeps, CategoryKept
  <2>6. players' \subseteq InfoHashes /\ orphans' \subseteq players' /\ missed' \subseteq orphans'
    BY <1>1, <1>2, <1>5 DEF ApiTypes
  <2>7. untold' \in BOOLEAN /\ (untold' => Tells(n) \/ (untold /\ ~ Tells(p))) BY <1>5
  <2> QED BY <1>1, <1>2, <1>5, <2>2, <2>3, <2>4, <2>5, <2>6, <2>7, StepKeeps DEF ApiTypes
<1>6. CASE /\ live' = [live EXCEPT ![h] = Absent]
           /\ catalog' = [catalog EXCEPT ![h] = Absent]
           /\ orphans' = orphans \cup ({h} \cap players)
           /\ missed' = missed \cup ({h} \cap (players \ p.doomed))
           /\ untold' = setup.dlna
           /\ Gone(h, c, q)
  <2>1. /\ q \in Call /\ q.at = "wipe" /\ q.doomed = p.doomed /\ q.ask = p.ask /\ q.changed = TRUE
        /\ q.base = p.base
    BY <1>1, <1>2 DEF Call
  <2> HIDE DEF q
  <2>2. q # Absent BY <2>1, CallsAreTyped
  <2>3. Path(q, setup.frozen, live') BY <1>2, <1>3, <2>1 DEF Path, Streams
  <2>4. Tells(q) /\ (\A k : Minds(p, k) => Minds(q, k)) BY <2>1, <2>2 DEF Minds, Tells
  <2>5. h \in players => h \in missed' \/ Minds(q, h) BY <1>6, <2>1, <2>2 DEF Minds
  <2>6. setup \in Setups BY <1>2 DEF ApiTypes
  <2>7. untold' \in BOOLEAN BY <1>6, <2>6, ApiAssumption
  <2>8. missed' \subseteq orphans' /\ missed \subseteq missed' BY <1>2, <1>6 DEF ApiTypes
  <2> QED BY <1>1, <1>4, <1>6, <2>1, <2>3, <2>4, <2>5, <2>7, <2>8, GoneKeeps
<1> QED BY <1>5, <1>6 DEF Wipe, h

\* A player's task starts on a torrent that is loaded: it is no orphan.
LEMMA StartPlayerKeeps ==
    ASSUME ApiInv, NEW h \in InfoHashes, StartPlayer(h)
    PROVE  ApiInv'
<1>1. /\ setup' = setup /\ catalog' = catalog /\ live' = live /\ position' = position /\ lists' = lists
      /\ call' = call /\ orphans' = orphans /\ missed' = missed /\ untold' = untold
      /\ players' = players \cup {h}
  BY DEF StartPlayer, Ghosts
<1>2. ApiTypes' BY <1>1 DEF ApiInv, ApiTypes
<1>3. (\A c \in Clients : call[c] # Absent => Path(call[c], setup.frozen, live))' BY <1>1 DEF ApiInv
<1>4. (\A x \in orphans \ missed : \E c \in Clients : Minds(call[c], x))' BY <1>1 DEF ApiInv, Minds
<1>5. (untold => \E c \in Clients : Tells(call[c]))' BY <1>1 DEF ApiInv, Tells
<1>6. ReadOnlyKeeps' /\ CategoryKept' BY <1>1 DEF ApiInv, ReadOnlyKeeps, CategoryKept
<1> QED BY <1>2, <1>3, <1>4, <1>5, <1>6 DEF ApiInv

\* The coordinator unloads a torrent: who asked for it finds it gone.
LEMMA UnloadKeeps ==
    ASSUME ApiInv, NEW h \in InfoHashes, Unload(h)
    PROVE  ApiInv'
<1>1. /\ setup' = setup /\ catalog' = catalog /\ position' = position /\ lists' = lists
      /\ players' = players /\ orphans' = orphans /\ missed' = missed /\ untold' = untold
      /\ live' = [live EXCEPT ![h] = Absent] /\ Gone(h, Absent, Absent)
  BY DEF Unload, Ghosts
<1>2. ApiTypes /\ ReadOnlyKeeps /\ CategoryKept BY DEF ApiInv
<1>3. Clients \ {Absent} = Clients BY ApiAssumption
<1>4. \A k \in Clients : /\ Stays(k) /\ call'[k] \in Call \cup {Absent}
                         /\ call[k] # Absent /\ call[k].ask.h = h => call'[k].raced
  BY <1>1, <1>2, <1>3, GoneRight
<1>5. call' = [k \in Clients |-> call'[k]] BY <1>1 DEF Gone
<1>6. call' \in [Clients -> Call \cup {Absent}] BY <1>4, <1>5
<1>7. live' \in [InfoHashes -> Entry \cup {Absent}] /\ live'[h] = Absent
      /\ \A x \in InfoHashes \ {h} : live'[x] = live[x]
  BY <1>1, <1>2 DEF ApiTypes
<1>8. ASSUME NEW k \in Clients
      PROVE  /\ call'[k] # Absent => Path(call'[k], setup'.frozen, live')
             /\ \A x : Minds(call[k], x) => Minds(call'[k], x)
             /\ Tells(call[k]) => Tells(call'[k])
  <2>1. call[k] # Absent /\ call[k].ask.h \in InfoHashes /\ live[call[k].ask.h] # Absent =>
          live'[call[k].ask.h] # Absent \/ call'[k].raced
    BY <1>4, <1>7
  <2> QED BY <1>1, <1>4, <2>1, OthersStay
<1>9. ApiTypes' BY <1>1, <1>2, <1>6, <1>7 DEF ApiTypes
<1>10. (\A k \in Clients : call[k] # Absent => Path(call[k], setup.frozen, live))' BY <1>8
<1>11. (\A x \in orphans \ missed : \E k \in Clients : Minds(call[k], x))'
  <2>1. \A x \in orphans \ missed : \E k \in Clients : Minds(call'[k], x) BY <1>8 DEF ApiInv
  <2> QED BY <1>1, <2>1 DEF Minds
<1>12. (untold => \E k \in Clients : Tells(call[k]))'
  <2>1. untold => \E k \in Clients : Tells(call'[k]) BY <1>8 DEF ApiInv
  <2> QED BY <1>1, <2>1 DEF Tells
<1>13. ReadOnlyKeeps' BY <1>1, <1>2 DEF ReadOnlyKeeps
<1>14. CategoryKept'
  <2> SUFFICES ASSUME NEW x \in InfoHashes, live'[x] # Absent, catalog'[x] # Absent, ~ setup.frozen
               PROVE  catalog'[x].category \in {Blank, live'[x].category}
    BY <1>1 DEF CategoryKept
  <2>1. live'[x] = live[x] /\ catalog'[x] = catalog[x] BY <1>1, <1>7
  <2> QED BY <1>2, <2>1 DEF CategoryKept
<1> QED BY <1>9, <1>10, <1>11, <1>12, <1>13, <1>14 DEF ApiInv

-----------------------------------------------------------------------------
(* The API's promises. *)

LEMMA ApiStart ==
    ASSUME ApiInit
    PROVE  ApiInv
<1>1. /\ setup \in Setups /\ catalog = Saved /\ lists = OpenLists
      /\ live = [h \in InfoHashes |-> IF h \in LoadedFirst THEN Saved[h] ELSE Absent]
      /\ position = [h \in InfoHashes |-> Absent]
      /\ players = {} /\ orphans = {} /\ missed = {} /\ untold = FALSE
      /\ call = [c \in Clients |-> Absent]
  BY DEF ApiInit
<1>2. Saved \in [InfoHashes -> Entry \cup {Absent}] BY ApiAssumption
<1>3. ApiTypes BY <1>1, <1>2 DEF ApiTypes
<1>4. ReadOnlyKeeps BY <1>1 DEF ReadOnlyKeeps
<1>5. CategoryKept BY <1>1, <1>2 DEF CategoryKept
<1>6. \A c \in Clients : call[c] = Absent BY <1>1
<1> QED BY <1>1, <1>3, <1>4, <1>5, <1>6 DEF ApiInv

LEMMA ApiStep ==
    ASSUME ApiInv, [ApiNext]_apiVars
    PROVE  ApiInv'
<1>1. CASE UNCHANGED apiVars
  <2>1. /\ setup' = setup /\ catalog' = catalog /\ live' = live /\ position' = position /\ lists' = lists
        /\ players' = players /\ call' = call /\ orphans' = orphans /\ missed' = missed /\ untold' = untold
    BY <1>1 DEF apiVars
  <2>2. ApiTypes' BY <2>1 DEF ApiInv, ApiTypes
  <2>3. (\A c \in Clients : call[c] # Absent => Path(call[c], setup.frozen, live))' BY <2>1 DEF ApiInv
  <2>4. (\A x \in orphans \ missed : \E c \in Clients : Minds(call[c], x))' BY <2>1 DEF ApiInv, Minds
  <2>5. (untold => \E c \in Clients : Tells(call[c]))' BY <2>1 DEF ApiInv, Tells
  <2>6. ReadOnlyKeeps' /\ CategoryKept' BY <2>1 DEF ApiInv, ReadOnlyKeeps, CategoryKept
  <2> QED BY <2>2, <2>3, <2>4, <2>5, <2>6 DEF ApiInv
<1>2. ASSUME NEW c \in Clients,
             \/ \E r \in Asks[c] : Receives(c, r)
             \/ Admit(c) \/ Read(c) \/ CacheView(c)
             \/ ListTasks(c) \/ Collect(c) \/ Wiped(c) \/ Tell(c)
             \/ Share(c) \/ Preload(c) \/ Finish(c) \/ Playlist(c)
             \/ Touch(c) \/ OpenBody(c) \/ EndBody(c)
      PROVE  ApiInv'
  BY <1>2, ReceivesKeeps, AdmitKeeps, ReadKeeps, CacheViewKeeps, ListsKeep, WipedKeeps, TellKeeps,
     ShareKeeps, PreloadKeeps, FinishKeeps, PlaylistKeeps, TouchKeeps, OpenBodyKeeps
<1>3. ASSUME NEW c \in Clients,
             \/ AddTorrent(c) \/ SetTorrent(c) \/ DropTorrent(c) \/ RemTorrent(c) \/ Wipe(c)
             \/ RemoveTasks(c) \/ Upload(c) \/ StreamAdd(c) \/ Write(c)
             \/ SetPosition(c) \/ RemPosition(c) \/ SetWaf(c)
      PROVE  ApiInv'
  BY <1>3, AddTorrentKeeps, SetTorrentKeeps, DropTorrentKeeps, RemTorrentKeeps, WipeKeeps,
     RemoveTasksKeeps, UploadKeeps, StreamAddKeeps, WriteKeeps, SetPositionKeeps, RemPositionKeeps,
     SetWafKeeps
<1>4. ASSUME NEW h \in InfoHashes, StartPlayer(h) \/ Unload(h) PROVE ApiInv'
  BY <1>4, StartPlayerKeeps, UnloadKeeps
<1> QED BY <1>1, <1>2, <1>3, <1>4 DEF ApiNext

\* Where a playlist leads is the client's own host, or this server's, unless a trusted
\* proxy sent the request.
LEMMA LinkIsOwn ==
    ASSUME NEW r, r.peer \notin Trusted
    PROVE  PublicBase(r)[2] \in {r.host, "127.0.0.1:8090"}
<1>1. \A header : ByProxy(r, "host", header) = Absent BY DEF ByProxy, Forwarded
<1>2. PublicHost(r) \in {r.host, "127.0.0.1:8090"} BY <1>1 DEF PublicHost
<1> QED BY <1>2 DEF PublicBase

\* However requests interleave, a torrent that was removed or dropped takes its HLS task
\* with it; DLNA hears of every change of the catalog; a request that is refused changed
\* nothing; a read-only database stays as it was; a loaded torrent goes by the category
\* it is saved with; /play serves a file that exists unless its torrent was taken away
\* under it; and a playlist leads back to the server (app.rs:514-1205, lib.rs:505-1099).
THEOREM ApiKeepsPromises == ApiSpec => []ApiRight
<1>1. ApiInv => ApiRight
  <2> SUFFICES ASSUME ApiInv PROVE ApiRight OBVIOUS
  <2>1. TasksFollow BY DEF ApiInv, TasksFollow, Minds
  <2>2. ListingTold BY DEF ApiInv, ListingTold, Tells
  <2>3. ASSUME NEW c \in Clients, AtStep(c, "done")
        PROVE  call[c] \in Call /\ call[c].at = "done" /\ Path(call[c], setup.frozen, live)
    BY <2>3 DEF ApiInv, ApiTypes, AtStep
  <2>4. RefusedKeeps BY <2>3 DEF RefusedKeeps, Path
  <2>5. PlayIsServed BY <2>3 DEF PlayIsServed, Path
  <2>6. LinksLeadBack
    <3> SUFFICES ASSUME NEW c \in Clients, AtStep(c, "done"), call[c].base # Absent, call[c].ask.peer \notin Trusted
                 PROVE  call[c].base[2] \in {call[c].ask.host, "127.0.0.1:8090"}
      BY DEF LinksLeadBack
    <3>1. call[c].base = PublicBase(call[c].ask) BY <2>3 DEF Path
    <3> QED BY <3>1, LinkIsOwn
  <2>7. ReadOnlyKeeps /\ CategoryKept BY DEF ApiInv
  <2> QED BY <2>1, <2>2, <2>4, <2>5, <2>6, <2>7 DEF ApiRight
<1> QED BY <1>1, ApiStart, ApiStep, PTL DEF ApiSpec
=============================================================================
