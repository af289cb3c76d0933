------------------------------- MODULE Server -------------------------------
(***************************************************************************)
(* The life of the server process: start-up in order, serving on its       *)
(* sockets, draining and stopping in reverse                               *)
(* (crates/rustorr-server/src/run.rs, main.rs;                             *)
(* crates/rustorr-http/src/listeners.rs; web_api.rs for GET /shutdown).    *)
(*                                                                         *)
(* A connection is served by a task of its own, which outlives the server  *)
(* of its socket; the runtime cuts what is left when the process ends.     *)
(***************************************************************************)
EXTENDS Integers, Sequences

CONSTANTS
    Options,    \* subset of {"auth", "weblog", "ssl", "force", "dontKill",
                \* "readOnly", "watch", "fuse"}: what the command line may ask
    Conns       \* connections that may be open together

VARIABLES
    config,     \* the options given
    at,         \* the step of run the process is at
    up,         \* the services started and not stopped
    socket,     \* "http" and "https": "none", "bound", "redirect", "ended"
    conn,       \* connection -> the socket it came by and how far it is
    pending,    \* a signal was delivered and not yet looked at
    asked,      \* the permit GET /shutdown leaves in the Notify
    cut,        \* the grace period ended with connections open
    outcome     \* "success", "failure", "killed", or "none"

serverVars == <<config, at, up, socket, conn, pending, asked, cut, outcome>>

-----------------------------------------------------------------------------
\* run, in its order.
Steps == <<"signals", "auth", "bind", "weblog", "datadir", "state", "ssl", "proxy",
           "engine", "watch", "outbound", "rutor", "discovery", "fuse">>
Later(step) == LET i == CHOOSE i \in 1 .. Len(Steps) : Steps[i] = step
               IN IF i = Len(Steps) THEN "serve" ELSE Steps[i + 1]
Starting == {Steps[i] : i \in 1 .. Len(Steps)}

\* These go on whatever happens to them.
NeverFails == {"watch", "rutor", "discovery"}

Optional == {"auth", "weblog", "ssl", "watch", "fuse"}
Wanted(step) == step \notin Optional \/ step \in config

NoConn == [at |-> "none"]
Live(c) == conn[c].at # "none"
OpenConns == {c \in Conns : conn[c].at = "open"}

ServerTypeOK ==
    /\ config \subseteq Options
    /\ at \in Starting \cup {"serve", "drain", "unmount", "goodbye", "unload", "close", "exited"}
    /\ up \subseteq Starting
    /\ socket \in [{"http", "https"} -> {"none", "bound", "redirect", "ended"}]
    /\ DOMAIN conn = Conns
    /\ pending \in BOOLEAN /\ asked \in BOOLEAN /\ cut \in BOOLEAN
    /\ outcome \in {"none", "success", "failure", "killed"}

ServerInit ==
    /\ config \in SUBSET Options
    /\ at = "signals"
    /\ up = {}
    /\ socket = [s \in {"http", "https"} |-> "none"]
    /\ conn = [c \in Conns |-> NoConn]
    /\ pending = FALSE /\ asked = FALSE /\ cut = FALSE
    /\ outcome = "none"

-----------------------------------------------------------------------------
(* Start-up. *)

\* The sockets after a step.  HTTPS is bound beside HTTP; with --force-https the
\* plain sockets then only redirect.
Bound(step) ==
    CASE step = "bind" -> [socket EXCEPT !["http"] = "bound"]
      [] step = "ssl" /\ "ssl" \in config ->
           [socket EXCEPT !["https"] = "bound",
                          !["http"] = IF "force" \in config THEN "redirect" ELSE @]
      [] OTHER -> socket

\* One step done, or left out; what was started is kept running.
Start ==
    /\ at \in Starting
    /\ ~(at = "ssl" /\ "force" \in config /\ "ssl" \notin config)
    /\ up' = IF Wanted(at) THEN up \cup {at} ELSE up
    /\ socket' = Bound(at)
    /\ at' = Later(at)
    /\ UNCHANGED <<config, conn, pending, asked, cut, outcome>>

\* A step fails (--force-https without --ssl always does): run returns, its
\* values are dropped, the process ends.
StartFails ==
    /\ at \in Starting
    /\ Wanted(at) \/ (at = "ssl" /\ "force" \in config)
    /\ at \notin NeverFails
    /\ at' = "exited"
    /\ outcome' = "failure"
    /\ UNCHANGED <<config, up, socket, conn, pending, asked, cut>>

\* A signal: before the handlers are installed it kills the process, afterwards
\* it waits to be looked at.
Signal ==
    /\ at # "exited"
    /\ IF "signals" \in up
       THEN pending' = TRUE /\ UNCHANGED <<at, outcome>>
       ELSE at' = "exited" /\ outcome' = "killed" /\ UNCHANGED pending
    /\ UNCHANGED <<config, up, socket, conn, asked, cut>>

-----------------------------------------------------------------------------
(* Serving. *)

\* A client connects.  On the HTTPS socket it shakes hands in a task of its own.
Connect(c, s) ==
    /\ at = "serve"
    /\ ~Live(c)
    /\ socket[s] \in {"bound", "redirect"}
    /\ conn' = [conn EXCEPT ![c] =
         [at |-> IF s = "https" THEN "handshake" ELSE "open", by |-> s]]
    /\ UNCHANGED <<config, at, up, socket, pending, asked, cut, outcome>>

\* The handshake is over: the connection waits to be accepted, or was refused or
\* too slow.
Handshake(c) ==
    /\ conn[c].at = "handshake"
    /\ conn' = [conn EXCEPT ![c].at = "ready"] \/ conn' = [conn EXCEPT ![c] = NoConn]
    /\ UNCHANGED <<config, at, up, socket, pending, asked, cut, outcome>>

Accept(c) ==
    /\ at = "serve"
    /\ conn[c].at = "ready"
    /\ socket["https"] = "bound"
    /\ conn' = [conn EXCEPT ![c].at = "open"]
    /\ UNCHANGED <<config, at, up, socket, pending, asked, cut, outcome>>

Finish(c) ==
    /\ conn[c].at = "open"
    /\ conn' = [conn EXCEPT ![c] = NoConn]
    /\ UNCHANGED <<config, at, up, socket, pending, asked, cut, outcome>>

\* GET /shutdown, on a socket that serves the routes; read-only mode wants a
\* reason in the path.
Shutdown(c, reason) ==
    /\ conn[c].at = "open"
    /\ socket[conn[c].by] # "redirect"
    /\ "readOnly" \in config => reason
    /\ asked' = TRUE
    /\ UNCHANGED <<config, at, up, socket, conn, pending, cut, outcome>>

\* The server of one socket ends by itself: the others go on.
SocketEnds(s) ==
    /\ at = "serve"
    /\ socket[s] \in {"bound", "redirect"}
    /\ socket' = [socket EXCEPT ![s] = "ended"]
    /\ conn' = [c \in Conns |-> IF conn[c].at \in {"handshake", "ready"} /\ conn[c].by = s
                                THEN NoConn ELSE conn[c]]
    /\ UNCHANGED <<config, at, up, pending, asked, cut, outcome>>

\* When none is left the server has stopped without being asked to.
AllEnded ==
    /\ at = "serve"
    /\ \A s \in {"http", "https"} : socket[s] \in {"none", "ended"}
    /\ at' = "unmount"
    /\ outcome' = "failure"
    /\ UNCHANGED <<config, up, socket, conn, pending, asked, cut>>

\* With --dont-kill a signal is only logged.
IgnoreSignal ==
    /\ at = "serve"
    /\ pending /\ "dontKill" \in config
    /\ pending' = FALSE
    /\ UNCHANGED <<config, at, up, socket, conn, asked, cut, outcome>>

\* The sockets close; what is not accepted yet is dropped with its listener.
Stop ==
    /\ at = "serve"
    /\ asked \/ (pending /\ "dontKill" \notin config)
    /\ at' = "drain"
    /\ socket' = [s \in {"http", "https"} |-> IF socket[s] = "none" THEN "none" ELSE "ended"]
    /\ conn' = [c \in Conns |-> IF conn[c].at = "open" THEN conn[c] ELSE NoConn]
    /\ UNCHANGED <<config, up, pending, asked, cut, outcome>>

-----------------------------------------------------------------------------
(* Stopping. *)

\* Faulty variant: an error of the server is returned at once.
Drained_Returns ==
    /\ at = "drain"
    /\ OpenConns = {}
    /\ \/ at' = "unmount" /\ outcome' = "success"
       \/ at' = "exited" /\ outcome' = "failure"
    /\ UNCHANGED <<config, up, socket, conn, pending, asked, cut>>

\* Every connection is through; a server may still have ended with an error,
\* which is kept until the rest has stopped.
Drained ==
    /\ at = "drain"
    /\ OpenConns = {}
    /\ at' = "unmount"
    /\ outcome' \in {"success", "failure"}
    /\ UNCHANGED <<config, up, socket, conn, pending, asked, cut>>

\* The grace period is over.
GraceEnds ==
    /\ at = "drain"
    /\ at' = "unmount"
    /\ outcome' = "success"
    /\ cut' = TRUE
    /\ UNCHANGED <<config, up, socket, conn, pending, asked>>

\* unmount_fuse, discovery.stop, engine.shutdown, and the state closes: the
\* reverse of the start, whatever ended the server.
Unwind ==
    \E step \in {<<"unmount", "fuse", "goodbye">>, <<"goodbye", "discovery", "unload">>,
                 <<"unload", "engine", "close">>, <<"close", "state", "exited">>} :
      /\ at = step[1]
      /\ up' = up \ {step[2]}
      /\ at' = step[3]
      /\ conn' = IF at' = "exited" THEN [c \in Conns |-> NoConn] ELSE conn
      /\ UNCHANGED <<config, socket, pending, asked, cut, outcome>>

ServerNext ==
    \/ Start \/ StartFails \/ Signal
    \/ \E c \in Conns :
         \/ \E s \in {"http", "https"} : Connect(c, s)
         \/ Handshake(c) \/ Accept(c) \/ Finish(c)
         \/ \E reason \in BOOLEAN : Shutdown(c, reason)
    \/ \E s \in {"http", "https"} : SocketEnds(s)
    \/ AllEnded \/ IgnoreSignal \/ Stop
    \/ Drained \/ GraceEnds \/ Unwind

ServerSpec == ServerInit /\ [][ServerNext]_serverVars

-----------------------------------------------------------------------------
(* Properties. *)

\* However the process ends after it served (asked, by a signal, by a server
\* that failed), nothing it announced, mounted or wrote to is left running
\* (run.rs:212-221, "Reverse order of startup, whatever ended the server").
NothingLeft ==
    at = "exited" /\ socket["http"] = "ended" =>
      up \cap {"fuse", "discovery", "engine", "state"} = {}

\* It stops only when it was asked to: a clean exit follows a request or a
\* signal that counts (run.rs:415-429, 505-516).
StopsWhenAsked ==
    outcome = "success" => asked \/ (pending /\ "dontKill" \notin config)

\* A request that has not been given up finds what it works with: the engine
\* and the database stop only once the connections are through or the grace
\* period is over (run.rs:431-474).
ServedByRunning ==
    OpenConns # {} /\ ~cut /\ outcome # "failure" => {"state", "engine"} \subseteq up

\* With --force-https no plain socket ever serves the routes (listeners.rs:92-99).
ForcedToHttps ==
    "force" \in config =>
      \A c \in OpenConns : conn[c].by = "http" => socket["http"] \in {"redirect", "ended"}

\* However it was started and ended, the process kept its order.
ServerRight == NothingLeft /\ StopsWhenAsked /\ ServedByRunning /\ ForcedToHttps
=============================================================================
