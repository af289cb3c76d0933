-------------------------------- MODULE Dlna --------------------------------
(***************************************************************************)
(* The DLNA server and its SSDP announcements, restarted by requests that  *)
(* run side by side: every change of the settings and, while DLNA is on,   *)
(* every change of the catalogue (crates/rustorr-server/src/discovery.rs;  *)
(* crates/rustorr-discovery/src/ssdp.rs; crates/rustorr-http/src/app.rs).  *)
(*                                                                         *)
(* `lock` is the mutex around the running server: starting holds it to the *)
(* end, stopping only to take the server out.  SSDP's own mutex is held    *)
(* over each of its operations, which are one step here.                   *)
(***************************************************************************)
EXTENDS Integers

CONSTANTS
    DlnaRequests, \* the requests that may be under way together
    DlnaKinds,  \* subset of {"restart", "off"}: what they want
    Ports,      \* 1 .. n, tried in order; enough of them for one to be free
    Nothing

ASSUME DlnaAssumption == Ports \subseteq Nat /\ 1 \in Ports /\ Nothing \notin Nat \cup DlnaRequests

VARIABLES
    running,    \* DiscoveryService.dlna: the port of the server kept, or Nothing
    lock,       \* who holds it
    server,     \* port -> "free", "up" or "stopping"
    ssdp,       \* the port announced, or Nothing
    dlnaRequest \* request -> what it wants and where it is

dlnaVars == <<running, lock, server, ssdp, dlnaRequest>>

DlnaIdle == [at |-> "idle"]

\* The server was started from the settings, or was not.
DlnaInit ==
    /\ running \in {Nothing, 1}
    /\ lock = Nothing
    /\ server = [p \in Ports |-> IF p = running THEN "up" ELSE "free"]
    /\ ssdp = running
    /\ dlnaRequest = [r \in DlnaRequests |-> DlnaIdle]

DlnaTypeOK ==
    /\ running \in Ports \cup {Nothing} /\ ssdp \in Ports \cup {Nothing}
    /\ lock \in DlnaRequests \cup {Nothing}
    /\ server \in [Ports -> {"free", "up", "stopping"}]
    /\ running # Nothing => server[running] = "up"

RequestGoes(r, at) == dlnaRequest' = [dlnaRequest EXCEPT ![r] = at]
After(r) == IF dlnaRequest[r].kind = "restart" THEN [at |-> "start"] ELSE DlnaIdle

\* settings_changed and catalog_changed.
Begin(r, kind) ==
    /\ dlnaRequest[r] = DlnaIdle
    /\ RequestGoes(r, [at |-> "stop", kind |-> kind])
    /\ UNCHANGED <<running, lock, server, ssdp>>

\* stop_dlna: the server is taken out and told to stop; without one there is
\* nothing more to stop.
TakeServer(r) ==
    /\ dlnaRequest[r].at = "stop"
    /\ lock = Nothing
    /\ IF running = Nothing
       THEN RequestGoes(r, After(r)) /\ UNCHANGED <<running, server>>
       ELSE /\ running' = Nothing
            /\ server' = [server EXCEPT ![running] = "stopping"]
            /\ RequestGoes(r, [at |-> "join", kind |-> dlnaRequest[r].kind, port |-> running])
    /\ UNCHANGED <<lock, ssdp>>

\* stop_dlna: it ends or is aborted after the grace period.
Join(r) ==
    /\ dlnaRequest[r].at = "join"
    /\ server' = [server EXCEPT ![dlnaRequest[r].port] = "free"]
    /\ RequestGoes(r, [at |-> "goodbye", kind |-> dlnaRequest[r].kind])
    /\ UNCHANGED <<running, lock, ssdp>>

\* stop_dlna: SSDP says goodbye.
Goodbye(r) ==
    /\ dlnaRequest[r].at = "goodbye"
    /\ ssdp' = Nothing
    /\ RequestGoes(r, After(r))
    /\ UNCHANGED <<running, lock, server>>

\* start_dlna: the mutex, then the first port that is free.
Bind(r) ==
    /\ dlnaRequest[r].at = "start"
    /\ lock = Nothing
    /\ \E p \in Ports :
         /\ server[p] = "free" /\ \A q \in Ports : q < p => server[q] # "free"
         /\ server' = [server EXCEPT ![p] = "up"]
         /\ RequestGoes(r, [at |-> "announce", port |-> p])
    /\ lock' = r
    /\ UNCHANGED <<running, ssdp>>

\* Faulty variant: an SSDP server that runs is left alone.
Announce_Once(r) ==
    /\ dlnaRequest[r].at = "announce"
    /\ ssdp' = IF ssdp = Nothing THEN dlnaRequest[r].port ELSE ssdp
    /\ RequestGoes(r, [dlnaRequest[r] EXCEPT !.at = "publish"])
    /\ UNCHANGED <<running, lock, server>>

\* start_dlna: SSDP announces the port, in place of what it announced before.
Announce(r) ==
    /\ dlnaRequest[r].at = "announce"
    /\ ssdp' = dlnaRequest[r].port
    /\ RequestGoes(r, [dlnaRequest[r] EXCEPT !.at = "publish"])
    /\ UNCHANGED <<running, lock, server>>

\* start_dlna: the server is kept; one that another request kept meanwhile loses
\* its sender, which stops it.
Publish(r) ==
    /\ dlnaRequest[r].at = "publish"
    /\ running' = dlnaRequest[r].port
    /\ server' = IF running = Nothing THEN server ELSE [server EXCEPT ![running] = "stopping"]
    /\ lock' = Nothing
    /\ RequestGoes(r, DlnaIdle)
    /\ UNCHANGED ssdp

\* A server nobody waits for has finished its requests.
Ends(p) ==
    /\ server[p] = "stopping"
    /\ \A r \in DlnaRequests : dlnaRequest[r].at = "join" => dlnaRequest[r].port # p
    /\ server' = [server EXCEPT ![p] = "free"]
    /\ UNCHANGED <<running, lock, ssdp, dlnaRequest>>

DlnaNext ==
    \/ \E r \in DlnaRequests :
         \/ \E kind \in DlnaKinds : Begin(r, kind)
         \/ TakeServer(r) \/ Join(r) \/ Goodbye(r)
         \/ Bind(r) \/ Announce(r) \/ Publish(r)
    \/ \E p \in Ports : Ends(p)

DlnaSpec == DlnaInit /\ [][DlnaNext]_dlnaVars

-----------------------------------------------------------------------------
(* Properties. *)

Settled == \A r \in DlnaRequests : dlnaRequest[r] = DlnaIdle

\* Once the requests are through, SSDP announces the server that runs and
\* nothing else (discovery.rs:92, "the first free port from 9080, then SSDP
\* announcing it"; discovery.rs:143, "the HTTP server closes, then SSDP says
\* goodbye").
ServedIsAnnounced == Settled => ssdp = running

\* However the restarts interleave, no server is left that nobody can stop any
\* more (discovery.rs:137-140, 144-155).
NoStrayServer == Settled => \A p \in Ports : server[p] = "up" => p = running

\* What is served is announced, and what is not announced is not served.
DlnaRight == ServedIsAnnounced /\ NoStrayServer
=============================================================================
