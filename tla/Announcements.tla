--------------------------- MODULE Announcements ---------------------------
(***************************************************************************)
(* What a server says of itself on the network: SSDP for the DLNA server   *)
(* and Bonjour for the web server (crates/rustorr-discovery/src: ssdp.rs,  *)
(* bonjour.rs, dns.rs, interfaces.rs, socket.rs), and what a listener ends *)
(* up believing.  A datagram may be lost; it arrives or not when it is     *)
(* sent.  When it is sent is up to timers.                                 *)
(***************************************************************************)
EXTENDS Integers, Sequences, FiniteSets

CONSTANTS
    Hosts,      \* what interfaces::list may find: sets of interfaces [name,
                \* loopback, up, multicast, addresses]; an address is [ip,
                \* kind, net], kind "link", "loopback" or "global"
    Protocols,  \* subset of {"ssdp", "bonjour"}
    Types,      \* the device, its root and its services: six in the code
    Services,   \* the two names of SERVICES
    Skipped,    \* names with one of SKIPPED_PREFIXES
    Ports,      \* where servers may be
    Lifetime,   \* of a record, in steps of a clock: TTL
    Silent

\* The way of a notice is "alive" or the network of those it answers.
ASSUME AnnouncementConstants ==
    /\ Protocols \subseteq {"ssdp", "bonjour"}
    /\ Silent \notin Ports
    /\ \A h \in Hosts : \A i \in h : \A a \in i.addresses : a.net # "alive"

VARIABLES
    speaks,     \* the protocol of this behaviour
    host,       \* the interfaces there are
    port,       \* of the server that is announced, or Silent
    stopping,   \* its token is cancelled, the goodbyes are not yet out
    notices,    \* datagrams that wait for their delay or are being sent
    believed,   \* what the listener holds
    excused,    \* what it was told too late or never
    responder   \* service -> how many of its sends are left, -1 when it is off

announceVars == <<speaks, host, port, stopping, notices, believed, excused, responder>>

-----------------------------------------------------------------------------
(* Which interfaces and addresses. *)

UsableInterface(i) == ~ i.loopback /\ i.up /\ i.multicast

\* Ssdp::start, advertise: alive notices leave link-local addresses out.
SsdpInterfaces == {i \in host : UsableInterface(i)}
AliveIps == {a.ip : a \in {b \in UNION {i.addresses : i \in SsdpInterfaces} : b.kind # "link"}}

\* Bonjour's `advertised`.
Global(i) == {a \in i.addresses : a.kind = "global"}
Advertised == {i \in host : UsableInterface(i) /\ i.name \notin Skipped /\ Global(i) # {}}

\* Search::answers: addresses in the sender's network.
AnswerIps(net) ==
    {a.ip : a \in {b \in UNION {i.addresses : i \in SsdpInterfaces} : b.net = net}}

\* Search::parse takes M-SEARCH * with MAN "ssdp:discover" and, when it names
\* this group as its host, a number as MX; st is a type, "all" or anything.
WantedTypes(search) ==
    IF search.method # "M-SEARCH" \/ search.man # "discover"
         \/ (search.group /\ search.mx = Silent) THEN {}
    ELSE IF search.st = "all" THEN Types ELSE Types \cap {search.st}

Notice(t, ip, way) == [type |-> t, ip |-> ip, port |-> port, way |-> way, at |-> "waits"]
Fact(n) == [type |-> n.type, ip |-> n.ip, port |-> n.port]

-----------------------------------------------------------------------------
AnnounceTypeOK ==
    /\ port \in Ports \cup {Silent}
    /\ stopping \in BOOLEAN
    /\ stopping => port # Silent
    /\ speaks = "bonjour" => notices = {} /\ DOMAIN believed = Services
    /\ \A n \in notices : n.at \in {"waits", "sending"}
    /\ responder \in [Services -> -1 .. 4]

AnnounceInit ==
    /\ host \in Hosts
    /\ speaks \in Protocols
    /\ port = Silent /\ stopping = FALSE
    /\ notices = {} /\ excused = {}
    /\ believed = IF speaks = "ssdp" THEN {} ELSE [s \in Services |-> 0]
    /\ responder = [s \in Services |-> -1]

-----------------------------------------------------------------------------
(* SSDP. *)

\* Start, once a running server has stopped: the servers of the interfaces.
SsdpStart(p) ==
    /\ speaks = "ssdp" /\ port = Silent
    /\ SsdpInterfaces # {}
    /\ port' = p
    /\ excused' = excused \cap (believed \cup {Fact(n) : n \in notices})
    /\ UNCHANGED <<speaks, host, stopping, notices, believed, responder>>

\* advertise, each interval: a notice of every type for every address.
Advertise ==
    /\ speaks = "ssdp" /\ port # Silent /\ ~ stopping
    /\ notices' = notices \cup {Notice(t, ip, "alive") : t \in Types, ip \in AliveIps}
    /\ UNCHANGED <<speaks, host, port, stopping, believed, excused, responder>>

\* receive: answers to a search from a network, each after a delay of its own.
Search(search, net) ==
    /\ speaks = "ssdp" /\ port # Silent /\ ~ stopping
    /\ notices' = notices \cup {Notice(t, ip, net) : t \in WantedTypes(search), ip \in AnswerIps(net)}
    /\ UNCHANGED <<speaks, host, port, stopping, believed, excused, responder>>

\* `delayed`: its delay is over.
Due(n) ==
    /\ n \in notices /\ n.at = "waits"
    /\ notices' = (notices \ {n}) \cup {[n EXCEPT !.at = "sending"]}
    /\ UNCHANGED <<speaks, host, port, stopping, believed, excused, responder>>

\* A notice is sent, and arrives or does not.
Sent(n) ==
    /\ n \in notices /\ n.at = "sending"
    /\ notices' = notices \ {n}
    /\ believed' = believed \cup {Fact(n)} \/ UNCHANGED believed
    /\ UNCHANGED <<speaks, host, port, stopping, excused, responder>>

Sending == {n \in notices : n.at = "sending"}

\* Faulty variant: what is delayed does not hear of the stop.
SsdpStop_KeepsDelayed ==
    /\ speaks = "ssdp" /\ port # Silent /\ ~ stopping
    /\ stopping' = TRUE
    /\ excused' = excused \cup {Fact(n) : n \in Sending}
    /\ UNCHANGED <<speaks, host, port, notices, believed, responder>>

\* Server::stop: what is delayed is cancelled; a send under way is not waited for.
SsdpStop ==
    /\ speaks = "ssdp" /\ port # Silent /\ ~ stopping
    /\ stopping' = TRUE
    /\ notices' = Sending
    /\ excused' = excused \cup {Fact(n) : n \in Sending}
    /\ UNCHANGED <<speaks, host, port, believed, responder>>

\* Then a goodbye of every type; what is lost stays believed.
Goodbyes ==
    /\ speaks = "ssdp" /\ stopping
    /\ \E lost \in SUBSET Types :
         LET kept == {f \in believed : f.type \in lost}
         IN  believed' = kept /\ excused' = excused \cup kept
    /\ port' = Silent /\ stopping' = FALSE
    /\ UNCHANGED <<speaks, host, notices, responder>>

\* max-age: the listener drops what it has not heard of again.
MaxAge(fact) ==
    /\ speaks = "ssdp" /\ fact \in believed
    /\ believed' = believed \ {fact}
    /\ UNCHANGED <<speaks, host, port, stopping, notices, excused, responder>>

-----------------------------------------------------------------------------
(* Bonjour.  The listener holds a record for a while. *)

\* Bonjour::start, in place of what runs.
BonjourStart(p) ==
    /\ speaks = "bonjour" /\ port = Silent
    /\ Advertised # {}
    /\ port' = p
    /\ responder' \in [Services -> {-1, 4}]
    /\ excused' = {s \in excused : believed[s] > 0}
    /\ UNCHANGED <<speaks, host, stopping, notices, believed>>

\* announce: two probes, which tell nobody anything, and two announcements.
AnnounceService(s) ==
    /\ responder[s] \in 1 .. 4 /\ ~ stopping
    /\ responder' = [responder EXCEPT ![s] = @ - 1]
    /\ IF responder[s] > 2 THEN UNCHANGED believed
       ELSE believed' = [believed EXCEPT ![s] = Lifetime] \/ UNCHANGED believed
    /\ UNCHANGED <<speaks, host, port, stopping, notices, excused>>

\* handleQuestion: about the instance it is always answered, about the service
\* or its type unless the question names the record with half its life left.
Ask(s, about) ==
    /\ responder[s] \in 0 .. 4 /\ ~ stopping
    /\ about = "instance" \/ believed[s] < Lifetime \div 2
    /\ believed' = [believed EXCEPT ![s] = Lifetime]
    /\ UNCHANGED <<speaks, host, port, stopping, notices, excused, responder>>

Passes ==
    /\ speaks = "bonjour"
    /\ \E s \in Services : believed[s] > 0
    /\ believed' = [s \in Services |-> IF believed[s] > 0 THEN believed[s] - 1 ELSE 0]
    /\ UNCHANGED <<speaks, host, port, stopping, notices, excused, responder>>

\* Responder::stop, one after the other: its tasks end, then every record goes
\* out with no life left.
BonjourStop ==
    /\ speaks = "bonjour" /\ port # Silent /\ ~ stopping
    /\ stopping' = TRUE
    /\ UNCHANGED <<speaks, host, port, notices, believed, excused, responder>>

Unregister(s) ==
    /\ speaks = "bonjour" /\ stopping
    /\ responder[s] # -1
    /\ responder' = [responder EXCEPT ![s] = -1]
    /\ \/ believed' = [believed EXCEPT ![s] = 0] /\ UNCHANGED excused
       \/ excused' = excused \cup {s} /\ UNCHANGED believed
    /\ UNCHANGED <<speaks, host, port, stopping, notices>>

Unregistered ==
    /\ speaks = "bonjour" /\ stopping
    /\ \A s \in Services : responder[s] = -1
    /\ port' = Silent /\ stopping' = FALSE
    /\ UNCHANGED <<speaks, host, notices, believed, excused, responder>>

-----------------------------------------------------------------------------
Searches ==
    [method : {"M-SEARCH", "NOTIFY"}, man : {"discover"}, group : {TRUE}, mx : {Silent, 1},
     st : Types \cup {"all"}]

Nets == {a.net : a \in UNION {i.addresses : i \in host}}

AnnounceNext ==
    \/ \E p \in Ports : SsdpStart(p) \/ BonjourStart(p)
    \/ Advertise
    \/ \E search \in Searches, net \in Nets : Search(search, net)
    \/ \E n \in notices : Due(n) \/ Sent(n)
    \/ SsdpStop \/ Goodbyes
    \/ speaks = "ssdp" /\ \E fact \in believed : MaxAge(fact)
    \/ \E s \in Services :
         AnnounceService(s) \/ (\E about \in {"instance", "service"} : Ask(s, about)) \/ Unregister(s)
    \/ Passes \/ BonjourStop \/ Unregistered

AnnounceSpec == AnnounceInit /\ [][AnnounceNext]_announceVars

-----------------------------------------------------------------------------
(* Properties. *)

HeldFacts == IF speaks = "ssdp" THEN believed ELSE {s \in Services : believed[s] > 0}

\* After the goodbyes nobody believes in a server that is gone, but for what was
\* being sent when it stopped and for goodbyes that were lost (ssdp.rs:187-200,
\* "ssdp:byebye on stop"; bonjour.rs:96-99, 309-321, "goodbye records for every
\* service, then silence").
Silenced == port = Silent => HeldFacts \subseteq excused

\* Nobody is sent to an address it was not heard from: an answer names one in
\* the asker's network, a notice no link-local one (ssdp.rs:231-239, 335-345).
Reachable ==
    \A n \in notices :
      \E i \in host : \E a \in i.addresses :
        /\ UsableInterface(i) /\ a.ip = n.ip
        /\ IF n.way = "alive" THEN a.kind # "link" ELSE a.net = n.way

AnnouncedRight == Silenced /\ Reachable
=============================================================================
