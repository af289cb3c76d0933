------------------------------- MODULE Access -------------------------------
(***************************************************************************)
(* Who may ask the HTTP API and what it believes of the request            *)
(* (crates/rustorr-http/src/access.rs): the WAF's lists of addresses and   *)
(* referring hosts, and the address a client reached the server by.        *)
(*                                                                         *)
(* An address is [v, n], its family and its number; a rule is an interval  *)
(* [first, last]: an address, a network or a range.  A host is the         *)
(* sequence of its labels.  A line of a list is [kind, says]: its kind is  *)
(* "rule", "bad" or "comment" (as is a blank one).                         *)
(***************************************************************************)
EXTENDS Integers, Sequences

LOCAL Seqs == INSTANCE SequencesExt

CONSTANTS
    Trusted,        \* addresses of proxies whose headers are believed
    BlockedHosts,   \* DEFAULT_BLOCKED_REFERERS
    Absent

\* parse_ip_rules and parse_referers: what a list says, in a set.
Rules(list) == {list[k].says : k \in {k \in DOMAIN list : list[k].kind = "rule"}}

\* The family comes first: a range may go from one family into the other.
Upto(a, b) == a.v < b.v \/ (a.v = b.v /\ a.n <= b.n)
Covers(rule, address) == Upto(rule.first, address) /\ Upto(address, rule.last)

\* WafSnapshot::blocks; a header whose host cannot be told is Absent.
Blocks(lists, r) ==
    \/ \E host \in {r.referer, r.origin} \ {Absent} :
         \E blocked \in BlockedHosts \cup Rules(lists.referers) : Seqs!IsSuffix(blocked, host)
    \/ /\ Rules(lists.white) # {}
       /\ ~ \E rule \in Rules(lists.white) : Covers(rule, r.peer)
    \/ \E rule \in Rules(lists.black) : Covers(rule, r.peer)

-----------------------------------------------------------------------------
(* public_scheme and public_base.  r.forwarded is Absent or [proto, host],    *)
(* each of them Absent where the header does not name it or one of its fields *)
(* is not a pair.                                                           *)

Forwarded(r, field) ==
    IF r.peer \notin Trusted \/ r.forwarded = Absent THEN Absent ELSE r.forwarded[field]

ByProxy(r, field, header) ==
    IF Forwarded(r, field) # Absent THEN Forwarded(r, field)
    ELSE IF r.peer \in Trusted THEN header ELSE Absent

\* A scheme a client cannot use is as none at all, whatever the other header says.
PublicScheme(r) ==
    LET scheme == ByProxy(r, "proto", r.xProto)
    IN  IF scheme \in {"http", "https"} THEN scheme ELSE "http"

PublicHost(r) ==
    IF ByProxy(r, "host", r.xHost) # Absent THEN ByProxy(r, "host", r.xHost)
    ELSE IF r.host # Absent THEN r.host ELSE "127.0.0.1:8090"

PublicBase(r) == <<PublicScheme(r), PublicHost(r)>>
=============================================================================
