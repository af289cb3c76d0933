--------------------------- MODULE Services_proofs ---------------------------
(* Theorems about services that share no state: the server's run, for any      *)
(* options and any number of connections (Server); the virtual file system,    *)
(* for any number of handles and of reads under way, a file of any size and    *)
(* reads of any size (TorrentFuse); the state database, for any number of      *)
(* processes and of migrations in their builds (Migration); the locks of the   *)
(* WebDAV mount, for any tree of paths and any number of tokens and of         *)
(* requests (DavLocks); the settings, for any documents and any number of      *)
(* requests (Settings); the data directory, for any number of commits and of   *)
(* new files (DataDir); the watched directory, for any number of files         *)
(* (Autoload); the Rutor database, for any number of its copies (Rutor); what  *)
(* the servers say of themselves on the network, for any interfaces and any    *)
(* number of types and of services (Announcements).                            *)
EXTENDS DavLocks, Server, TorrentFuse, Migration, Settings, DataDir, Autoload, Rutor,
        Announcements, FiniteSetTheorems, TLAPS

(* The server. *)

(* The order of the start, step by step. *)

LEMMA StepAt ==
    /\ Len(Steps) = 14 /\ Len(Steps) \in Nat
    /\ Steps[1] = "signals" /\ Steps[2] = "auth" /\ Steps[3] = "bind" /\ Steps[4] = "weblog"
    /\ Steps[5] = "datadir" /\ Steps[6] = "state" /\ Steps[7] = "ssl" /\ Steps[8] = "proxy"
    /\ Steps[9] = "engine" /\ Steps[10] = "watch" /\ Steps[11] = "outbound"
    /\ Steps[12] = "rutor" /\ Steps[13] = "discovery" /\ Steps[14] = "fuse"
BY DEF Steps

LEMMA StepsDiffer ==
    ASSUME NEW i \in 1 .. 14, NEW j \in 1 .. 14, Steps[i] = Steps[j]
    PROVE  i = j
BY StepAt

LEMMA LaterIs ==
    ASSUME NEW i \in 1 .. 14
    PROVE  Later(Steps[i]) = IF i = 14 THEN "serve" ELSE Steps[i + 1]
<1>1. \E j \in 1 .. Len(Steps) : Steps[j] = Steps[i]
  BY StepAt
<1>2. (CHOOSE j \in 1 .. Len(Steps) : Steps[j] = Steps[i]) = i
  BY <1>1, StepAt, StepsDiffer
<1> QED  BY <1>2, StepAt DEF Later

\* The steps behind state, ssl and engine.
PastSsl == {"proxy", "engine", "watch", "outbound", "rutor", "discovery", "fuse"}
PastState == PastSsl \cup {"ssl"}
PastEngine == PastSsl \ {"proxy", "engine"}

LEMMA InOrder ==
    ASSUME NEW step \in Starting
    PROVE  /\ Later(step) # "signals" /\ Later(step) # "exited"
           /\ Later(step) \in Starting \cup {"serve"}
           /\ Later(step) \in PastState \cup {"serve"} <=> step \in PastState \cup {"state"}
           /\ Later(step) \in PastSsl \cup {"serve"} <=> step \in PastSsl \cup {"ssl"}
           /\ Later(step) \in PastEngine \cup {"serve"} <=> step \in PastEngine \cup {"engine"}
           /\ step \in {"signals", "auth"} => Later(step) \in {"auth", "bind"}
<1>1. PICK i \in 1 .. 14 : step = Steps[i]
  BY StepAt DEF Starting
<1>2. Later(step) = IF i = 14 THEN "serve" ELSE Steps[i + 1]
  BY <1>1, LaterIs
<1>3. Later(step) \in Starting \cup {"serve"}
  BY <1>2, StepAt DEF Starting
<1> QED  BY <1>1, <1>2, <1>3, StepAt DEF PastState, PastSsl, PastEngine

-----------------------------------------------------------------------------
(* The inductive invariant: what a step of the process finds done before it.  *)

ConnTypes ==
    conn \in [Conns -> {NoConn} \cup [at : {"handshake", "ready", "open"}, by : {"http", "https"}]]

\* What was started by the time, and not yet stopped.
Started ==
    /\ at \in Starting \ {"signals"} => "signals" \in up
    /\ at \in PastState \cup {"serve", "drain", "unmount", "goodbye", "unload", "close"} =>
         {"signals", "state"} \subseteq up
    /\ at \in PastEngine \cup {"serve", "drain", "unmount", "goodbye", "unload"} =>
         "engine" \in up

\* What was stopped by the time.
Stopped ==
    /\ at \in {"goodbye", "unload", "close"} => "fuse" \notin up
    /\ at \in {"unload", "close"} => "discovery" \notin up
    /\ at = "close" => "engine" \notin up

\* Nobody is served during the start, and nothing has ended.
Sockets ==
    /\ at \in Starting =>
         /\ \A c \in Conns : ~Live(c)
         /\ \A s \in {"http", "https"} : socket[s] # "ended"
    /\ at \in {"signals", "auth", "bind"} => socket["http"] = "none"
    /\ "force" \in config /\ at \notin PastState \cup {"serve"} /\ at \in Starting =>
         socket["http"] \in {"none", "bound"}
    /\ "force" \in config /\ at \in PastSsl \cup {"serve"} => socket["http"] \in {"redirect", "ended"}
    /\ \A c \in Conns : conn[c].at \in {"handshake", "ready"} => conn[c].by = "https"

\* A stop was asked for, and connections outlive the drain only when it was cut off
\* or the server had failed.
Stopping ==
    /\ at = "drain" => asked \/ (pending /\ "dontKill" \notin config)
    /\ OpenConns # {} => at \in {"serve", "drain"} \/ cut \/ outcome = "failure"

ServerInv == ServerTypeOK /\ ConnTypes /\ Started /\ Stopped /\ Sockets /\ Stopping /\ ServerRight

LEMMA ServerInvInit ==
    ServerInit => ServerInv
<1> SUFFICES ASSUME ServerInit PROVE ServerInv
  OBVIOUS
<1>1. at = "signals" /\ up = {} /\ "signals" \in Starting
  BY StepAt DEF ServerInit, Starting
<1>2. \A c \in Conns : conn[c] = NoConn
  BY DEF ServerInit
<1>3. OpenConns = {}
  BY <1>2 DEF OpenConns, NoConn
<1>4. ServerTypeOK /\ ConnTypes
  BY <1>1 DEF ServerInit, ServerTypeOK, ConnTypes
<1>5. Started /\ Stopped /\ Stopping
  BY <1>1, <1>3 DEF Started, Stopped, Stopping, PastState, PastEngine, PastSsl
<1>6. Sockets
  BY <1>1, <1>2 DEF ServerInit, Sockets, Live, NoConn, PastState, PastSsl
<1>7. ServerRight
  BY <1>1, <1>3 DEF ServerInit, ServerRight, NothingLeft, StopsWhenAsked, ServedByRunning, ForcedToHttps
<1> QED  BY <1>4, <1>5, <1>6, <1>7 DEF ServerInv

LEMMA StartKeepsInv ==
    ASSUME ServerInv, Start
    PROVE  ServerInv'
<1> USE DEF ServerInv
<1>1. /\ at \in Starting /\ ~(at = "ssl" /\ "force" \in config /\ "ssl" \notin config)
      /\ up' = IF Wanted(at) THEN up \cup {at} ELSE up
      /\ socket' = Bound(at) /\ at' = Later(at)
      /\ UNCHANGED <<config, conn, pending, asked, cut, outcome>>
  BY DEF Start
<1>2. /\ at' # "signals" /\ at' # "exited"
      /\ at' \in Starting \cup {"serve"}
      /\ at' \in PastState \cup {"serve"} <=> at \in PastState \cup {"state"}
      /\ at' \in PastSsl \cup {"serve"} <=> at \in PastSsl \cup {"ssl"}
      /\ at' \in PastEngine \cup {"serve"} <=> at \in PastEngine \cup {"engine"}
      /\ at \in {"signals", "auth"} => at' \in {"auth", "bind"}
  BY <1>1, InOrder
<1>3. {"serve", "drain", "unmount", "goodbye", "unload", "close", "exited"} \cap Starting = {}
  BY StepAt DEF Starting
<1>4. at \in {"signals", "state", "engine"} => at \in up'
  BY <1>1 DEF Wanted, Optional
<1>5. up \subseteq up' /\ up' \subseteq Starting
  BY <1>1 DEF ServerTypeOK
<1>6. Started'
  BY <1>1, <1>2, <1>3, <1>4, <1>5 DEF Started, PastState, PastEngine, PastSsl
<1>7. Stopped'
  BY <1>2, <1>3 DEF Stopped
<1>8. socket \in [{"http", "https"} -> {"none", "bound", "redirect", "ended"}]
  BY DEF ServerTypeOK
<1>9. /\ socket' \in [{"http", "https"} -> {"none", "bound", "redirect", "ended"}]
      /\ \A s \in {"http", "https"} : socket'[s] # "ended"
      /\ at # "bind" /\ ~(at = "ssl" /\ "ssl" \in config) => socket' = socket
      /\ at = "bind" => socket'["http"] = "bound"
      /\ at = "ssl" /\ {"ssl", "force"} \subseteq config => socket'["http"] = "redirect"
  BY <1>1, <1>8 DEF Bound, Sockets
<1>10. ServerTypeOK' /\ ConnTypes'
  BY <1>1, <1>2, <1>5, <1>9 DEF ServerTypeOK, ConnTypes
<1>11. OpenConns = {} /\ OpenConns' = {}
  BY <1>1 DEF Sockets, OpenConns, Live
<1>12. Sockets'
  <2>1. at' \in {"signals", "auth", "bind"} => socket'["http"] = "none"
    <3>1. at' \in {"auth", "bind"} => at \in {"signals", "auth"}
      <4>1. PICK i \in 1 .. 14 : at = Steps[i]
        BY <1>1, StepAt DEF Starting
      <4>2. at' = IF i = 14 THEN "serve" ELSE Steps[i + 1]
        BY <1>1, <4>1, LaterIs
      <4> QED  BY <4>1, <4>2, StepAt
    <3> QED  BY <1>2, <1>9, <3>1 DEF Sockets
  <2>2. ASSUME "force" \in config', at' \notin PastState \cup {"serve"}, at' \in Starting
        PROVE  socket'["http"] \in {"none", "bound"}
    <3>1. at \notin PastState \cup {"serve"} /\ at # "ssl"
      BY <1>2, <1>3, <1>1, <2>2 DEF PastState
    <3> QED  BY <1>1, <1>9, <2>2, <3>1 DEF Sockets
  <2>3. ASSUME "force" \in config', at' \in PastSsl \cup {"serve"}
        PROVE  socket'["http"] \in {"redirect", "ended"}
    BY <1>1, <1>2, <1>9, <2>3 DEF Sockets, PastSsl
  <2> QED  BY <1>1, <1>9, <2>1, <2>2, <2>3 DEF Sockets, Live
<1>13. Stopping'
  BY <1>2, <1>3, <1>11 DEF Stopping
<1>14. ServerRight'
  BY <1>1, <1>2, <1>11 DEF ServerRight, NothingLeft, StopsWhenAsked, ServedByRunning, ForcedToHttps
<1> QED  BY <1>6, <1>7, <1>10, <1>12, <1>13, <1>14

LEMMA StartFailsKeepsInv ==
    ASSUME ServerInv, StartFails
    PROVE  ServerInv'
<1> USE DEF ServerInv
<1>1. /\ at \in Starting /\ at' = "exited" /\ outcome' = "failure"
      /\ UNCHANGED <<config, up, socket, conn, pending, asked, cut>>
  BY DEF StartFails
<1>2. "exited" \notin Starting \cup PastState \cup PastEngine \cup PastSsl
  BY StepAt DEF Starting, PastState, PastEngine, PastSsl
<1>3. OpenConns' = {} /\ socket["http"] # "ended"
  BY <1>1 DEF Sockets, OpenConns, Live
<1>4. ServerTypeOK' /\ ConnTypes' /\ Started' /\ Stopped' /\ Stopping'
  BY <1>1, <1>2, <1>3 DEF ServerTypeOK, ConnTypes, Started, Stopped, Stopping
<1>5. Sockets'
  BY <1>1, <1>2 DEF Sockets, Live
<1>6. ServerRight'
  BY <1>1, <1>3 DEF ServerRight, NothingLeft, StopsWhenAsked, ServedByRunning, ForcedToHttps
<1> QED  BY <1>4, <1>5, <1>6

LEMMA SignalKeepsInv ==
    ASSUME ServerInv, Signal
    PROVE  ServerInv'
<1> USE DEF ServerInv
<1>1. at # "exited" /\ UNCHANGED <<config, up, socket, conn, asked, cut>>
  BY DEF Signal
<1>2. OpenConns' = OpenConns
  BY <1>1 DEF OpenConns
<1>3. CASE "signals" \in up
  <2>1. pending' = TRUE /\ UNCHANGED <<at, outcome>>
    BY <1>3 DEF Signal
  <2>2. ServerTypeOK' /\ ConnTypes' /\ Started' /\ Stopped' /\ Stopping'
    BY <1>1, <1>2, <2>1 DEF ServerTypeOK, ConnTypes, Started, Stopped, Stopping
  <2>3. Sockets'
    BY <1>1, <2>1 DEF Sockets, Live
  <2>4. ServerRight'
    BY <1>1, <1>2, <2>1 DEF ServerRight, NothingLeft, StopsWhenAsked, ServedByRunning,
       ForcedToHttps, ServerTypeOK
  <2> QED  BY <2>2, <2>3, <2>4
<1>4. CASE "signals" \notin up
  <2>1. at' = "exited" /\ outcome' = "killed" /\ UNCHANGED pending
    BY <1>4 DEF Signal
  <2>2. at = "signals" \/ at = "exited" \/ at \in Starting
    BY <1>4 DEF ServerTypeOK, Started
  <2>3. at = "signals"
    BY <1>1, <1>4, <2>2 DEF Started
  <2>4. at \in Starting /\ "exited" \notin Starting \cup PastState \cup PastEngine \cup PastSsl
    BY <2>3, StepAt DEF Starting, PastState, PastEngine, PastSsl
  <2>5. OpenConns' = {} /\ socket["http"] # "ended"
    BY <1>1, <2>4 DEF Sockets, OpenConns, Live
  <2>6. ServerTypeOK' /\ ConnTypes' /\ Started' /\ Stopped' /\ Stopping'
    BY <1>1, <2>1, <2>4, <2>5 DEF ServerTypeOK, ConnTypes, Started, Stopped, Stopping
  <2>7. Sockets'
    BY <1>1, <2>1, <2>4 DEF Sockets, Live
  <2>8. ServerRight'
    BY <1>1, <2>1, <2>5 DEF ServerRight, NothingLeft, StopsWhenAsked, ServedByRunning, ForcedToHttps
  <2> QED  BY <2>6, <2>7, <2>8
<1> QED  BY <1>3, <1>4

\* What a connection does. It opens only while the server serves, and by the plain
\* socket only when that has no --force-https or redirects.
LEMMA ConnKeepsInv ==
    ASSUME ServerInv, NEW c \in Conns,
           NEW state \in {NoConn} \cup [at : {"handshake", "ready", "open"}, by : {"http", "https"}],
           conn' = [conn EXCEPT ![c] = state],
           state.at # "none" => at \notin Starting,
           state.at = "open" =>
             at = "serve" /\ (state.by = "http" => socket["http"] \in {"bound", "redirect"}),
           state.at \in {"handshake", "ready"} => state.by = "https",
           UNCHANGED <<config, at, up, socket, pending, asked, cut, outcome>>
    PROVE  ServerInv'
<1> USE DEF ServerInv
<1>1. conn'[c] = state /\ \A d \in Conns \ {c} : conn'[d] = conn[d]
  BY DEF ConnTypes
<1>2. ServerTypeOK' /\ ConnTypes' /\ Started' /\ Stopped'
  BY DEF ServerTypeOK, ConnTypes, Started, Stopped
<1>3. Sockets'
  <2>1. at \in Starting => \A d \in Conns : conn'[d].at = "none"
    BY <1>1 DEF Sockets, Live
  <2>2. \A d \in Conns : conn'[d].at \in {"handshake", "ready"} => conn'[d].by = "https"
    BY <1>1 DEF Sockets
  <2> QED  BY <2>1, <2>2 DEF Sockets, Live
<1>4. OpenConns' # {} => OpenConns # {} \/ at = "serve"
  BY <1>1 DEF OpenConns
<1>5. Stopping'
  BY <1>4 DEF Stopping
<1>6. ForcedToHttps'
  <2>1. ASSUME "force" \in config, NEW d \in Conns, conn'[d].at = "open", conn'[d].by = "http"
        PROVE  socket["http"] \in {"redirect", "ended"}
    <3>1. CASE d = c
      BY <1>1, <2>1, <3>1 DEF Sockets
    <3>2. CASE d # c
      BY <1>1, <2>1, <3>2 DEF ServerRight, ForcedToHttps, OpenConns
    <3> QED  BY <3>1, <3>2
  <2> QED  BY <2>1 DEF ForcedToHttps, OpenConns
<1>7. ServedByRunning'
  <2>1. at = "serve" => {"state", "engine"} \subseteq up
    BY DEF Started
  <2> QED  BY <1>4, <2>1 DEF ServerRight, ServedByRunning
<1>8. ServerRight'
  BY <1>6, <1>7 DEF ServerRight, NothingLeft, StopsWhenAsked
<1> QED  BY <1>2, <1>3, <1>5, <1>8

LEMMA ClientsKeepInv ==
    ASSUME ServerInv, NEW c \in Conns,
           \/ \E s \in {"http", "https"} : Connect(c, s)
           \/ Handshake(c) \/ Accept(c) \/ Finish(c)
           \/ \E reason \in BOOLEAN : Shutdown(c, reason)
    PROVE  ServerInv'
<1> USE DEF ServerInv
<1>0. "serve" \notin Starting
  BY StepAt DEF Starting
<1>1. ASSUME NEW s \in {"http", "https"}, Connect(c, s) PROVE ServerInv'
  <2>1. [at |-> IF s = "https" THEN "handshake" ELSE "open", by |-> s]
          \in [at : {"handshake", "ready", "open"}, by : {"http", "https"}]
    OBVIOUS
  <2> QED  BY <1>0, <1>1, <2>1, ConnKeepsInv DEF Connect
<1>2. CASE Handshake(c)
  <2>1. /\ conn[c] \in [at : {"handshake", "ready", "open"}, by : {"http", "https"}]
        /\ conn[c].by = "https" /\ at \notin Starting
    BY <1>2 DEF Handshake, ConnTypes, NoConn, Sockets, Live
  <2>2. PICK state \in {[conn[c] EXCEPT !.at = "ready"], NoConn} : conn' = [conn EXCEPT ![c] = state]
    BY <1>2 DEF Handshake
  <2>3. [conn[c] EXCEPT !.at = "ready"] = [at |-> "ready", by |-> "https"]
    BY <2>1
  <2> QED  BY <1>2, <2>1, <2>2, <2>3, ConnKeepsInv DEF Handshake, NoConn
<1>3. CASE Accept(c)
  <2>1. /\ conn[c] \in [at : {"handshake", "ready", "open"}, by : {"http", "https"}]
        /\ conn[c].by = "https"
    BY <1>3 DEF Accept, ConnTypes, NoConn, Sockets
  <2>2. [conn[c] EXCEPT !.at = "open"] = [at |-> "open", by |-> "https"]
    BY <2>1
  <2>3. conn' = [conn EXCEPT ![c] = [at |-> "open", by |-> "https"]]
    BY <1>3, <2>2 DEF Accept
  <2> QED  BY <1>0, <1>3, <2>3, ConnKeepsInv DEF Accept
<1>4. CASE Finish(c)
  BY <1>4, ConnKeepsInv DEF Finish, NoConn
<1>5. ASSUME NEW reason \in BOOLEAN, Shutdown(c, reason) PROVE ServerInv'
  <2>1. asked' = TRUE /\ UNCHANGED <<config, at, up, socket, conn, pending, cut, outcome>>
    BY <1>5 DEF Shutdown
  <2>2. OpenConns' = OpenConns
    BY <2>1 DEF OpenConns
  <2>3. ServerTypeOK' /\ ConnTypes' /\ Started' /\ Stopped' /\ Stopping'
    BY <2>1, <2>2 DEF ServerTypeOK, ConnTypes, Started, Stopped, Stopping
  <2>4. Sockets'
    BY <2>1 DEF Sockets, Live
  <2>5. ServerRight'
    BY <2>1, <2>2 DEF ServerRight, NothingLeft, StopsWhenAsked, ServedByRunning, ForcedToHttps
  <2> QED  BY <2>3, <2>4, <2>5
<1> QED  BY <1>1, <1>2, <1>3, <1>4, <1>5

LEMMA SocketEndsKeepsInv ==
    ASSUME ServerInv, NEW s \in {"http", "https"}, SocketEnds(s)
    PROVE  ServerInv'
<1> USE DEF ServerInv
<1>1. /\ at = "serve" /\ socket' = [socket EXCEPT ![s] = "ended"]
      /\ conn' = [c \in Conns |-> IF conn[c].at \in {"handshake", "ready"} /\ conn[c].by = s
                                  THEN NoConn ELSE conn[c]]
      /\ UNCHANGED <<config, at, up, pending, asked, cut, outcome>>
  BY DEF SocketEnds
<1>2. "serve" \notin Starting /\ "serve" # "exited"
  BY StepAt DEF Starting
<1>3. socket' \in [{"http", "https"} -> {"none", "bound", "redirect", "ended"}]
  BY <1>1 DEF ServerTypeOK
<1>4. \A c \in Conns : conn'[c] \in {conn[c], NoConn}
  BY <1>1
<1>5. OpenConns' \subseteq OpenConns /\ \A c \in OpenConns' : conn'[c] = conn[c]
  BY <1>4 DEF OpenConns, NoConn
<1>6. ServerTypeOK' /\ ConnTypes' /\ Started' /\ Stopped' /\ Stopping'
  BY <1>1, <1>3, <1>4, <1>5 DEF ServerTypeOK, ConnTypes, Started, Stopped, Stopping
<1>7. "force" \in config => socket'["http"] \in {"redirect", "ended"}
  BY <1>1 DEF Sockets, ServerTypeOK
<1>8. Sockets'
  BY <1>1, <1>2, <1>4, <1>7 DEF Sockets, NoConn
<1>9. ServerRight'
  BY <1>1, <1>2, <1>5, <1>7
     DEF ServerRight, NothingLeft, StopsWhenAsked, ServedByRunning, ForcedToHttps
<1> QED  BY <1>6, <1>8, <1>9

\* The server goes from serve to what follows it.
LEMMA EndingKeepsInv ==
    ASSUME ServerInv, AllEnded \/ IgnoreSignal \/ Stop \/ Drained \/ GraceEnds
    PROVE  ServerInv'
<1> USE DEF ServerInv
<1>1. {"serve", "drain", "unmount"} \cap (Starting \cup PastState \cup PastEngine \cup PastSsl) = {}
  BY StepAt DEF Starting, PastState, PastEngine, PastSsl
<1>2. CASE AllEnded
  <2>1. /\ at = "serve" /\ at' = "unmount" /\ outcome' = "failure"
        /\ UNCHANGED <<config, up, socket, conn, pending, asked, cut>>
    BY <1>2 DEF AllEnded
  <2>2. OpenConns' = OpenConns
    BY <2>1 DEF OpenConns
  <2>3. ServerTypeOK' /\ ConnTypes' /\ Started' /\ Stopped' /\ Stopping' /\ Sockets'
    BY <1>1, <2>1, <2>2 DEF ServerTypeOK, ConnTypes, Started, Stopped, Stopping, Sockets
  <2>4. ServerRight'
    BY <2>1, <2>2 DEF ServerRight, NothingLeft, StopsWhenAsked, ServedByRunning, ForcedToHttps
  <2> QED  BY <2>3, <2>4
<1>3. CASE IgnoreSignal
  <2>1. /\ at = "serve" /\ "dontKill" \in config /\ pending' = FALSE
        /\ UNCHANGED <<config, at, up, socket, conn, asked, cut, outcome>>
    BY <1>3 DEF IgnoreSignal
  <2>2. OpenConns' = OpenConns
    BY <2>1 DEF OpenConns
  <2>3. ServerTypeOK' /\ ConnTypes' /\ Started' /\ Stopped' /\ Stopping'
    BY <2>1, <2>2 DEF ServerTypeOK, ConnTypes, Started, Stopped, Stopping
  <2>4. Sockets'
    BY <2>1 DEF Sockets, Live
  <2>5. ServerRight'
    BY <2>1, <2>2 DEF ServerRight, NothingLeft, StopsWhenAsked, ServedByRunning, ForcedToHttps
  <2> QED  BY <2>3, <2>4, <2>5
<1>4. CASE Stop
  <2>1. /\ at = "serve"
        /\ asked \/ (pending /\ "dontKill" \notin config)
        /\ at' = "drain"
        /\ socket' = [s \in {"http", "https"} |-> IF socket[s] = "none" THEN "none" ELSE "ended"]
        /\ conn' = [c \in Conns |-> IF conn[c].at = "open" THEN conn[c] ELSE NoConn]
        /\ UNCHANGED <<config, up, pending, asked, cut, outcome>>
    BY <1>4 DEF Stop
  <2>2. /\ OpenConns' \subseteq OpenConns /\ \A c \in OpenConns' : conn'[c] = conn[c]
        /\ \A c \in Conns : conn'[c].at \in {"open", "none"}
    BY <2>1 DEF OpenConns, NoConn
  <2>3. ServerTypeOK' /\ ConnTypes' /\ Started' /\ Stopped' /\ Stopping'
    BY <2>1, <2>2 DEF ServerTypeOK, ConnTypes, Started, Stopped, Stopping
  <2>4. "force" \in config => socket'["http"] \in {"redirect", "ended"}
    BY <2>1 DEF Sockets
  <2>5. Sockets'
    BY <1>1, <2>1, <2>2, <2>4 DEF Sockets
  <2>6. ServerRight'
    BY <2>1, <2>2, <2>4 DEF ServerRight, NothingLeft, StopsWhenAsked, ServedByRunning, ForcedToHttps
  <2> QED  BY <2>3, <2>5, <2>6
<1>5. CASE Drained \/ GraceEnds
  <2>1. /\ at = "drain" /\ at' = "unmount" /\ outcome' \in {"success", "failure"}
        /\ cut' \in {cut, TRUE} /\ (OpenConns # {} => cut')
        /\ UNCHANGED <<config, up, socket, conn, pending, asked>>
    BY <1>5 DEF Drained, GraceEnds
  <2>2. OpenConns' = OpenConns
    BY <2>1 DEF OpenConns
  <2>3. ServerTypeOK' /\ ConnTypes' /\ Started' /\ Stopped' /\ Stopping' /\ Sockets'
    BY <1>1, <2>1, <2>2 DEF ServerTypeOK, ConnTypes, Started, Stopped, Stopping, Sockets
  <2>4. ServerRight'
    BY <2>1, <2>2 DEF ServerRight, NothingLeft, StopsWhenAsked, ServedByRunning, ForcedToHttps,
       Stopping
  <2> QED  BY <2>3, <2>4
<1> QED  BY <1>2, <1>3, <1>4, <1>5

\* Each service stops before those it was started after.
LEMMA UnwindKeepsInv ==
    ASSUME ServerInv, Unwind
    PROVE  ServerInv'
<1> USE DEF ServerInv
<1>1. PICK step \in {<<"unmount", "fuse", "goodbye">>, <<"goodbye", "discovery", "unload">>,
                     <<"unload", "engine", "close">>, <<"close", "state", "exited">>} :
        /\ at = step[1]
        /\ up' = up \ {step[2]}
        /\ at' = step[3]
        /\ conn' = IF at' = "exited" THEN [c \in Conns |-> NoConn] ELSE conn
        /\ UNCHANGED <<config, socket, pending, asked, cut, outcome>>
  BY DEF Unwind
<1>2. {"unmount", "goodbye", "unload", "close", "exited"}
        \cap (Starting \cup PastState \cup PastEngine \cup PastSsl) = {}
  BY StepAt DEF Starting, PastState, PastEngine, PastSsl
<1>3. /\ at \in {"unmount", "goodbye", "unload", "close"}
      /\ at' \in {"goodbye", "unload", "close", "exited"}
      /\ up' \subseteq up /\ up \cap {"signals"} = up' \cap {"signals"}
  BY <1>1
<1>4. /\ OpenConns' \subseteq OpenConns /\ \A c \in OpenConns' : conn'[c] = conn[c]
      /\ \A c \in Conns : conn'[c] \in {conn[c], NoConn}
  BY <1>1 DEF OpenConns, NoConn
<1>5. ServerTypeOK' /\ ConnTypes' /\ Stopping'
  BY <1>1, <1>3, <1>4 DEF ServerTypeOK, ConnTypes, Stopping
<1>6. Started'
  BY <1>1, <1>2, <1>3 DEF Started
<1>7. Stopped'
  BY <1>1, <1>3 DEF Stopped
<1>8. Sockets'
  BY <1>1, <1>2, <1>3, <1>4 DEF Sockets, NoConn
<1>9. NothingLeft'
  <2>1. step[3] = "exited" => step[1] = "close" /\ step[2] = "state"
    OBVIOUS
  <2>2. at' = "exited" => at = "close" /\ up' = up \ {"state"}
    BY <1>1, <2>1
  <2> QED  BY <2>2 DEF NothingLeft, Stopped
<1>10. StopsWhenAsked' /\ ServedByRunning'
  BY <1>1, <1>3, <1>4 DEF ServerRight, StopsWhenAsked, ServedByRunning, Stopping
<1>11. ForcedToHttps'
  BY <1>1, <1>4 DEF ServerRight, ForcedToHttps
<1> QED  BY <1>5, <1>6, <1>7, <1>8, <1>9, <1>10, <1>11 DEF ServerRight

LEMMA ServerInvStep ==
    ServerInv /\ [ServerNext]_serverVars => ServerInv'
<1> SUFFICES ASSUME ServerInv, [ServerNext]_serverVars PROVE ServerInv'
  OBVIOUS
<1>1. CASE UNCHANGED serverVars
  BY <1>1 DEF serverVars, ServerInv, ServerTypeOK, ConnTypes, Started, Stopped, Sockets, Stopping, ServerRight,
     NothingLeft, StopsWhenAsked, ServedByRunning, ForcedToHttps, OpenConns, Live
<1>2. CASE ServerNext
  BY <1>2, StartKeepsInv, StartFailsKeepsInv, SignalKeepsInv, ClientsKeepInv, SocketEndsKeepsInv,
     EndingKeepsInv, UnwindKeepsInv DEF ServerNext
<1> QED  BY <1>1, <1>2

\* However the process starts and ends, with whatever options and connections:
\* nothing it served with is left running, it stops only when asked, a request
\* finds engine and database until it is through or the grace is over, and no plain
\* socket serves the routes when HTTPS is forced (run.rs:212-221, 415-516;
\* listeners.rs:92-99).
THEOREM ServerStaysRight ==
    ServerSpec => []ServerRight
<1>1. ServerInit => ServerInv
  BY ServerInvInit
<1>2. ServerInv /\ [ServerNext]_serverVars => ServerInv'
  BY ServerInvStep
<1>3. ServerInv => ServerRight
  BY DEF ServerInv
<1> QED  BY <1>1, <1>2, <1>3, PTL DEF ServerSpec

-----------------------------------------------------------------------------
(* The virtual file system. *)

Reader == [at : 0 .. FileSize, position : 0 .. FileSize]
OpenFile == [reader : {Nil} \cup Reader]

FuseConstants ==
    /\ FileSize \in Nat /\ Sizes \subseteq Nat
    /\ Nil \notin Threads \cup OpenFile \cup Reader

(* ReadsAtOffset speaks of answers; the invariant says where the reader of a  *)
(* handle is while a read has it, and that a reader nobody has is where the    *)
(* handle believes it to be.                                                   *)

FuseTypes ==
    /\ open \in [Handles -> {Nil} \cup OpenFile]
    /\ holder \in [Handles -> Threads \cup {Nil}]
    /\ DOMAIN read = Threads
    /\ files \subseteq Handles
    /\ \A h \in files : open[h] \in OpenFile

\* What a read knows at each of its places.
Asked ==
    \A w \in Threads :
      /\ read[w].at \in {"idle", "begun", "reads", "answered"}
      /\ read[w].at # "idle" =>
           /\ read[w].handle \in Handles /\ open[read[w].handle] \in OpenFile
           /\ read[w].offset \in 0 .. FileSize /\ read[w].size \in Nat

\* The read that has the mutex, and how far it has come.
Reading ==
    \A w \in Threads : read[w].at = "reads" =>
      /\ holder[read[w].handle] = w
      /\ read[w].offset < FileSize /\ read[w].from = read[w].offset
      /\ read[w].filled \in 0 .. WantedBytes(w)
      /\ Stream(w) \in Reader
      /\ Stream(w).at = read[w].offset + read[w].filled
      /\ Stream(w).position = read[w].offset

\* A reader nobody has.
Resting ==
    \A h \in Handles :
      /\ holder[h] # Nil => read[holder[h]].at = "reads" /\ read[holder[h]].handle = h
      /\ holder[h] = Nil /\ open[h] \in OpenFile /\ open[h].reader \in Reader =>
           open[h].reader.position = open[h].reader.at

FuseInv == FuseTypes /\ Asked /\ Reading /\ Resting /\ ReadsAtOffset

-----------------------------------------------------------------------------
LEMMA FuseInvInit ==
    ASSUME FuseConstants
    PROVE  FuseInit => FuseInv
BY DEF FuseConstants, FuseInit, FuseInv, FuseTypes, Asked, Reading, Resting, ReadsAtOffset, NoRead, Ready

\* A handle is opened, or its entry goes.
LEMMA HandlesKeepInv ==
    ASSUME FuseConstants, FuseInv, NEW h \in Handles, FuseOpen(h) \/ FuseRelease(h)
    PROVE  FuseInv'
<1> USE DEF FuseInv
<1>1. CASE FuseOpen(h)
  <2>1. /\ open' \in [Handles -> {Nil} \cup OpenFile] /\ open'[h] = Ready
        /\ \A g \in Handles \ {h} : open'[g] = open[g]
        /\ open[h] \notin OpenFile /\ Ready \in OpenFile
        /\ files' = files \cup {h} /\ UNCHANGED <<holder, read>>
    BY <1>1 DEF FuseOpen, Ready, OpenFile, FuseTypes, FuseConstants
  <2>2. FuseTypes'
    BY <2>1 DEF FuseTypes
  <2>3. Asked'
    BY <2>1 DEF Asked
  <2>4. \A w \in Threads : read[w].at = "reads" => read[w].handle # h
    BY <2>1 DEF Asked
  <2>5. Reading'
    BY <2>1, <2>4 DEF Reading, WantedBytes, Stream, Asked
  <2>6. Ready.reader = Nil
    BY DEF Ready
  <2>7. Resting'
    <3>1. ASSUME NEW g \in Handles, holder[g] = Nil, open'[g] \in OpenFile, open'[g].reader \in Reader
          PROVE  open'[g].reader.position = open'[g].reader.at
      <4>1. CASE g = h
        BY <2>1, <2>6, <4>1, <3>1 DEF FuseConstants
      <4>2. CASE g # h
        BY <2>1, <3>1, <4>2 DEF Resting
      <4> QED  BY <4>1, <4>2
    <3> QED  BY <2>1, <3>1 DEF Resting
  <2>8. ReadsAtOffset'
    BY <2>1 DEF ReadsAtOffset, WantedBytes
  <2> QED  BY <2>2, <2>3, <2>5, <2>7, <2>8
<1>2. CASE FuseRelease(h)
  BY <1>2 DEF FuseRelease, FuseTypes, Asked, Reading, Resting, ReadsAtOffset, WantedBytes, Stream
<1> QED  BY <1>1, <1>2

\* What a step of one read leaves alone: the other reads, and the files of the
\* other handles.
Turn(w, h) ==
    /\ open' \in [Handles -> {Nil} \cup OpenFile]
    /\ \A g \in Handles \ {h} : open'[g] = open[g] /\ holder'[g] = holder[g]
    /\ open[h] \in OpenFile /\ open'[h] \in OpenFile
    /\ holder' \in [Handles -> Threads \cup {Nil}]
    /\ holder[h] \in {w, Nil} /\ holder'[h] \in {w, Nil}
    /\ DOMAIN read' = Threads
    /\ \A v \in Threads \ {w} : read'[v] = read[v]
    /\ files' = files

LEMMA TurnKeepsInv ==
    ASSUME FuseConstants, FuseInv, NEW w \in Threads, NEW h \in Handles, Turn(w, h),
           read[w].at = "reads" => read[w].handle = h,
           \* What w has become.
           read'[w].at \in {"idle", "begun", "reads", "answered"},
           read'[w].at # "idle" =>
             /\ read'[w].handle = h
             /\ read'[w].offset \in 0 .. FileSize /\ read'[w].size \in Nat,
           read'[w].at = "reads" =>
             /\ read'[w].offset < FileSize /\ read'[w].from = read'[w].offset
             /\ read'[w].filled \in 0 .. WantedBytes(w)'
             /\ open'[h].reader \in Reader
             /\ open'[h].reader.at = read'[w].offset + read'[w].filled
             /\ open'[h].reader.position = read'[w].offset,
           read'[w].at = "answered" =>
             /\ read'[w].count > 0 => read'[w].from = read'[w].offset
             /\ read'[w].count = IF read'[w].offset >= FileSize THEN 0 ELSE WantedBytes(w)',
           holder'[h] = w <=> read'[w].at = "reads",
           holder'[h] = Nil /\ open'[h].reader \in Reader =>
             open'[h].reader.position = open'[h].reader.at
    PROVE  FuseInv'
<1> USE DEF FuseInv
<1>1. FuseTypes'
  BY DEF FuseTypes, Turn
<1>2. \A v \in Threads \ {w} : read'[v] = read[v]
  BY DEF Turn
<1>3. ASSUME NEW v \in Threads, v # w, read[v].at = "reads"
      PROVE  read[v].handle # h /\ read[v].handle \in Handles
  BY <1>3 DEF Reading, Turn, Asked, FuseConstants
<1>4. Asked'
  <2>1. \A v \in Threads \ {w} : read[v].at # "idle" => open'[read[v].handle] \in OpenFile
    BY DEF Asked, Turn
  <2> QED  BY <1>2, <2>1 DEF Asked, Turn
<1>5. Reading'
  <2>1. ASSUME NEW v \in Threads, read'[v].at = "reads", v # w
        PROVE  /\ holder'[read'[v].handle] = v
               /\ open'[read'[v].handle] = open[read[v].handle]
               /\ read'[v] = read[v] /\ read[v].at = "reads"
    BY <1>2, <1>3, <2>1 DEF Turn, Reading
  <2>2. ASSUME NEW v \in Threads, read'[v].at = "reads", v # w
        PROVE  /\ WantedBytes(v)' = WantedBytes(v) /\ Stream(v)' = Stream(v)
    BY <2>1, <2>2 DEF WantedBytes, Stream
  <2>3. ASSUME NEW v \in Threads, read'[v].at = "reads", v # w
        PROVE  /\ holder'[read'[v].handle] = v
               /\ read'[v].offset < FileSize /\ read'[v].from = read'[v].offset
               /\ read'[v].filled \in 0 .. WantedBytes(v)'
               /\ Stream(v)' \in Reader
               /\ Stream(v)'.at = read'[v].offset + read'[v].filled
               /\ Stream(v)'.position = read'[v].offset
    BY <2>1, <2>2, <2>3 DEF Reading
  <2>4. read'[w].at = "reads" => Stream(w)' = open'[h].reader /\ holder'[read'[w].handle] = w
    BY DEF Stream
  <2> QED  BY <2>3, <2>4 DEF Reading
<1>6. Resting'
  <2>1. ASSUME NEW g \in Handles, g # h
        PROVE  /\ holder'[g] # Nil => read'[holder'[g]].at = "reads" /\ read'[holder'[g]].handle = g
               /\ holder'[g] = Nil /\ open'[g] \in OpenFile /\ open'[g].reader \in Reader =>
                    open'[g].reader.position = open'[g].reader.at
    <3>1. holder'[g] = holder[g] /\ open'[g] = open[g]
      BY <2>1 DEF Turn
    <3>2. holder[g] # Nil => holder[g] # w \/ read[w].at # "reads" \/ read[w].handle # g
      BY <2>1
    <3>3. holder[g] # Nil => holder[g] \in Threads /\ holder[g] # w
      BY <2>1, <3>2 DEF FuseTypes, Resting
    <3> QED  BY <1>2, <2>1, <3>1, <3>3 DEF Resting
  <2>2. /\ holder'[h] # Nil => read'[holder'[h]].at = "reads" /\ read'[holder'[h]].handle = h
        /\ holder'[h] = Nil /\ open'[h] \in OpenFile /\ open'[h].reader \in Reader =>
             open'[h].reader.position = open'[h].reader.at
    BY DEF Turn
  <2> QED  BY <2>1, <2>2 DEF Resting
<1>7. ReadsAtOffset'
  <2>1. \A v \in Threads \ {w} : read'[v].at = "answered" => WantedBytes(v)' = WantedBytes(v)
    BY <1>2 DEF WantedBytes
  <2> QED  BY <1>2, <2>1 DEF ReadsAtOffset
<1> QED  BY <1>1, <1>4, <1>5, <1>6, <1>7

\* A read begins: it has no reader yet.
LEMMA FuseBeginKeepsInv ==
    ASSUME FuseConstants, FuseInv, NEW w \in Threads, NEW h \in Handles, NEW offset \in 0 .. FileSize,
           NEW size \in Sizes, ReadBegins(w, h, offset, size)
    PROVE  FuseInv'
<1> USE DEF FuseInv
<1>1. /\ read' = [read EXCEPT ![w] = [at |-> "begun", handle |-> h, offset |-> offset, size |-> size]]
      /\ read[w].at # "reads" /\ h \in files /\ UNCHANGED <<open, files, holder>>
  BY DEF ReadBegins
<1>2. open[h] \in OpenFile /\ size \in Nat
  BY <1>1 DEF FuseTypes, FuseConstants
<1>3. /\ read'[w] = [at |-> "begun", handle |-> h, offset |-> offset, size |-> size]
      /\ DOMAIN read' = Threads /\ \A v \in Threads \ {w} : read'[v] = read[v]
  BY <1>1 DEF FuseTypes
<1>4. Asked'
  BY <1>1, <1>2, <1>3 DEF Asked
<1>5. \A v \in Threads : read'[v].at \in {"reads", "answered"} => read'[v] = read[v]
  BY <1>3
<1>6. Reading' /\ ReadsAtOffset'
  BY <1>1, <1>5 DEF Reading, ReadsAtOffset, WantedBytes, Stream
<1>7. \A g \in Handles : holder[g] # Nil => holder[g] \in Threads /\ holder[g] # w
  BY <1>1 DEF FuseTypes, Resting
<1>8. Resting'
  BY <1>1, <1>3, <1>7 DEF Resting
<1> QED  BY <1>1, <1>3, <1>4, <1>6, <1>8 DEF FuseTypes

LEMMA LockKeepsInv ==
    ASSUME FuseConstants, FuseInv, NEW w \in Threads, LockReader(w)
    PROVE  FuseInv'
<1> USE DEF FuseInv
<1> PICK h \in Handles : h = read[w].handle
  BY DEF LockReader, Asked
<1> PICK offset \in 0 .. FileSize : offset = read[w].offset
  BY DEF LockReader, Asked
<1>1. /\ read[w].at = "begun" /\ open[h] \in OpenFile /\ read[w].size \in Nat
      /\ holder[h] = Nil /\ FileSize \in Nat /\ w # Nil
  BY DEF LockReader, Asked, FuseConstants
<1>2. CASE offset >= FileSize
  <2>1. /\ read' = [read EXCEPT ![w] =
             [at |-> "answered", handle |-> h, offset |-> offset, size |-> read[w].size,
              from |-> offset, count |-> 0]]
        /\ holder' = [holder EXCEPT ![h] = Nil] /\ open' = open /\ files' = files
    BY <1>2 DEF LockReader, Data, Answered
  <2>2. Turn(w, h)
    BY <1>1, <2>1 DEF Turn, FuseTypes
  <2>3. read'[w] = [at |-> "answered", handle |-> h, offset |-> offset, size |-> read[w].size,
                    from |-> offset, count |-> 0]
    BY <2>1 DEF FuseTypes
  <2>4. open'[h].reader \in Reader => open'[h].reader.position = open'[h].reader.at
    BY <1>1, <2>1 DEF Resting
  <2>5. holder'[h] # w
    BY <1>1, <2>1 DEF FuseTypes
  <2> QED  BY <1>1, <1>2, <2>2, <2>3, <2>4, <2>5, TurnKeepsInv
<1>3. CASE ~ (offset >= FileSize)
  <2>1. /\ open' = IF Reuses(h, offset) THEN open
                     ELSE [open EXCEPT ![h].reader = [at |-> offset, position |-> offset]]
        /\ holder' = [holder EXCEPT ![h] = w] /\ files' = files
        /\ read' = [read EXCEPT ![w] =
             [at |-> "reads", handle |-> h, offset |-> offset, size |-> read[w].size,
              from |-> open'[h].reader.at, filled |-> 0]]
    BY <1>3 DEF LockReader
  <2>2. /\ open' \in [Handles -> {Nil} \cup OpenFile]
        /\ \A g \in Handles \ {h} : open'[g] = open[g]
        /\ open'[h] \in OpenFile /\ open'[h].reader = [at |-> offset, position |-> offset]
    <3>1. CASE Reuses(h, offset)
      <4>1. open[h].reader \in Reader /\ open[h].reader.position = offset
        BY <1>1, <3>1 DEF Reuses, OpenFile
      <4>2. open[h].reader.at = offset
        BY <1>1, <4>1 DEF Resting
      <4>3. open[h].reader = [at |-> offset, position |-> offset]
        BY <4>1, <4>2 DEF Reader
      <4> QED  BY <1>1, <2>1, <3>1, <4>3 DEF FuseTypes
    <3>2. CASE ~Reuses(h, offset)
      <4>1. [open[h] EXCEPT !.reader = [at |-> offset, position |-> offset]] \in OpenFile
        BY <1>1 DEF OpenFile, Reader
      <4> QED  BY <1>1, <2>1, <3>2, <4>1 DEF FuseTypes, OpenFile
    <3> QED  BY <3>1, <3>2
  <2>3. /\ read'[w] = [at |-> "reads", handle |-> h, offset |-> offset, size |-> read[w].size,
                       from |-> offset, filled |-> 0]
        /\ DOMAIN read' = Threads /\ \A v \in Threads \ {w} : read'[v] = read[v]
    BY <2>1, <2>2 DEF FuseTypes
  <2>4. holder'[h] = w /\ Turn(w, h)
    BY <1>1, <2>1, <2>2, <2>3 DEF Turn, FuseTypes
  <2>5. WantedBytes(w)' \in Nat
    BY <1>1, <1>3, <2>3 DEF WantedBytes, Least
  <2>6. [at |-> offset, position |-> offset] \in Reader
    BY DEF Reader
  <2> QED  BY <1>1, <1>3, <2>2, <2>3, <2>4, <2>5, <2>6, TurnKeepsInv
<1> QED  BY <1>2, <1>3

\* A read that ends without an answer, before it took a reader or before its
\* reader gave a byte.
LEMMA FailureKeepsInv ==
    ASSUME FuseConstants, "between" \notin Faults, FuseInv, NEW w \in Threads, NoReader(w) \/ Error(w)
    PROVE  FuseInv'
<1> USE DEF FuseInv
<1> PICK h \in Handles : h = read[w].handle
  BY DEF NoReader, Error, Asked
<1>1. /\ open[h] \in OpenFile /\ holder[h] \in {w, Nil} /\ w # Nil
      /\ open[h].reader \in Reader => open[h].reader.position = open[h].reader.at
  <2>1. CASE NoReader(w)
    BY <2>1 DEF NoReader, Asked, Resting, FuseConstants
  <2>2. CASE Error(w)
    <3>1. read[w].at = "reads" /\ read[w].filled = 0 /\ read[w].offset \in 0 .. FileSize
      BY <2>2 DEF Error, Asked
    <3> QED  BY <3>1 DEF Reading, Stream, Asked, FuseConstants
  <2> QED  BY <2>1, <2>2
<1>2. /\ read' = [read EXCEPT ![w] = NoRead] /\ holder' = [holder EXCEPT ![h] = Nil]
      /\ UNCHANGED <<open, files>>
  BY DEF NoReader, Error, Failed, Answered
<1>3. read'[w] = NoRead /\ holder'[h] = Nil
  BY <1>2 DEF FuseTypes
<1>4. Turn(w, h)
  BY <1>1, <1>2, <1>3 DEF Turn, FuseTypes
<1> QED  BY <1>1, <1>2, <1>3, <1>4, TurnKeepsInv DEF NoRead

\* What w knows while it reads.
LEMMA Reads ==
    ASSUME FuseConstants, FuseInv, NEW w \in Threads, read[w].at = "reads"
    PROVE  \E h \in Handles, offset \in 0 .. FileSize, size \in Nat, filled \in Nat :
             /\ read[w].handle = h /\ read[w].offset = offset /\ read[w].size = size
             /\ read[w].filled = filled /\ read[w].from = offset
             /\ offset < FileSize /\ holder[h] = w
             /\ open[h] \in OpenFile
             /\ open[h].reader = [at |-> offset + filled, position |-> offset]
             /\ WantedBytes(w) \in Nat /\ filled <= WantedBytes(w) /\ offset + WantedBytes(w) <= FileSize
<1> USE DEF FuseInv
<1>1. /\ read[w].handle \in Handles /\ read[w].offset \in 0 .. FileSize /\ read[w].size \in Nat
      /\ open[read[w].handle] \in OpenFile
  BY DEF Asked
<1>2. /\ holder[read[w].handle] = w
      /\ read[w].offset < FileSize /\ read[w].from = read[w].offset
      /\ read[w].filled \in 0 .. WantedBytes(w)
      /\ open[read[w].handle].reader \in Reader
      /\ open[read[w].handle].reader.at = read[w].offset + read[w].filled
      /\ open[read[w].handle].reader.position = read[w].offset
  BY DEF Reading, Stream
<1>3. WantedBytes(w) \in Nat /\ read[w].offset + WantedBytes(w) <= FileSize
  BY <1>1, <1>2 DEF WantedBytes, Least, FuseConstants
<1>4. open[read[w].handle].reader =
        [at |-> read[w].offset + read[w].filled, position |-> read[w].offset]
  BY <1>2 DEF Reader
<1>5. read[w].filled \in Nat /\ read[w].filled <= WantedBytes(w)
  BY <1>2, <1>3
<1> QED  BY <1>1, <1>2, <1>3, <1>4, <1>5

LEMMA FillKeepsInv ==
    ASSUME FuseConstants, FuseInv, NEW w \in Threads, NEW count \in 1 .. FileSize, Fill(w, count)
    PROVE  FuseInv'
<1> USE DEF FuseInv
<1>1. PICK h \in Handles, offset \in 0 .. FileSize, size \in Nat, filled \in Nat :
        /\ read[w].handle = h /\ read[w].offset = offset /\ read[w].size = size
        /\ read[w].filled = filled /\ read[w].from = offset
        /\ offset < FileSize /\ holder[h] = w
        /\ open[h] \in OpenFile
        /\ open[h].reader = [at |-> offset + filled, position |-> offset]
        /\ WantedBytes(w) \in Nat /\ filled <= WantedBytes(w) /\ offset + WantedBytes(w) <= FileSize
  BY Reads DEF Fill
<1>2. /\ read[w].at = "reads" /\ UNCHANGED <<files, holder>>
      /\ open' = [open EXCEPT ![h].reader.at = @ + count]
      /\ read' = [read EXCEPT ![w].filled = @ + count]
  BY <1>1 DEF Fill
<1>3. count \in Nat /\ count + filled <= WantedBytes(w)
  BY <1>1 DEF Fill, Least, Stream, FuseConstants
<1>4. /\ DOMAIN read' = Threads /\ \A v \in Threads \ {w} : read'[v] = read[v]
      /\ read'[w] = [read[w] EXCEPT !.filled = filled + count]
  BY <1>1, <1>2 DEF FuseTypes
<1>5. /\ read'[w].at = "reads" /\ read'[w].handle = h /\ read'[w].offset = offset
      /\ read'[w].size = size /\ read'[w].from = offset
  BY <1>1, <1>2, <1>4
<1>6. read'[w].filled = filled + count
  BY <1>4, <1>1
<1>7. WantedBytes(w)' = WantedBytes(w)
  BY <1>1, <1>5 DEF WantedBytes
<1>8. /\ open'[h] = [open[h] EXCEPT !.reader = [at |-> offset + filled + count, position |-> offset]]
      /\ DOMAIN open' = Handles
      /\ \A g \in Handles \ {h} : open'[g] = open[g]
  BY <1>1, <1>2 DEF FuseTypes
<1>9. [at |-> offset + filled + count, position |-> offset] \in Reader
  BY <1>1, <1>3 DEF Reader, FuseConstants
<1>10. /\ open'[h] \in OpenFile
       /\ open'[h].reader = [at |-> offset + filled + count, position |-> offset]
  BY <1>1, <1>8, <1>9 DEF OpenFile
<1>11. Turn(w, h)
  BY <1>1, <1>2, <1>4, <1>8, <1>10 DEF Turn, FuseTypes
<1> QED
  BY <1>1, <1>2, <1>3, <1>5, <1>6, <1>7, <1>9, <1>10, <1>11, TurnKeepsInv DEF FuseConstants

LEMMA ReplyKeepsInv ==
    ASSUME FuseConstants, FuseInv, NEW w \in Threads, Reply(w)
    PROVE  FuseInv'
<1> USE DEF FuseInv
<1>1. PICK h \in Handles, offset \in 0 .. FileSize, size \in Nat, filled \in Nat :
        /\ read[w].handle = h /\ read[w].offset = offset /\ read[w].size = size
        /\ read[w].filled = filled /\ read[w].from = offset
        /\ offset < FileSize /\ holder[h] = w
        /\ open[h] \in OpenFile
        /\ open[h].reader = [at |-> offset + filled, position |-> offset]
        /\ WantedBytes(w) \in Nat /\ filled <= WantedBytes(w) /\ offset + WantedBytes(w) <= FileSize
  BY Reads DEF Reply
<1>2. filled = WantedBytes(w)
  BY <1>1 DEF Reply, Stream, FuseConstants
<1>3. /\ open' = [open EXCEPT ![h].reader.position = @ + filled]
      /\ read' = [read EXCEPT ![w] =
           [at |-> "answered", handle |-> h, offset |-> offset, size |-> size,
            from |-> offset, count |-> filled]]
      /\ holder' = [holder EXCEPT ![h] = Nil] /\ files' = files
      /\ read[w].at = "reads"
  BY <1>1 DEF Reply, Data, Answered
<1>4. /\ read'[w] = [at |-> "answered", handle |-> h, offset |-> offset, size |-> size,
                     from |-> offset, count |-> filled]
      /\ DOMAIN read' = Threads /\ \A v \in Threads \ {w} : read'[v] = read[v]
      /\ holder'[h] = Nil
  BY <1>3 DEF FuseTypes
<1>5. WantedBytes(w)' = WantedBytes(w)
  BY <1>1, <1>4 DEF WantedBytes
<1>6. /\ open'[h] = [open[h] EXCEPT !.reader = [at |-> offset + filled, position |-> offset + filled]]
      /\ DOMAIN open' = Handles
      /\ \A g \in Handles \ {h} : open'[g] = open[g]
  BY <1>1, <1>3 DEF FuseTypes
<1>7. [at |-> offset + filled, position |-> offset + filled] \in Reader
  BY <1>1, <1>2 DEF Reader, FuseConstants
<1>8. /\ open'[h] \in OpenFile
      /\ open'[h].reader = [at |-> offset + filled, position |-> offset + filled]
  BY <1>1, <1>6, <1>7 DEF OpenFile
<1>9. Turn(w, h)
  BY <1>1, <1>3, <1>4, <1>6, <1>8 DEF Turn, FuseTypes
<1> QED  BY <1>1, <1>2, <1>3, <1>4, <1>5, <1>8, <1>9, TurnKeepsInv DEF FuseConstants

LEMMA FuseInvStep ==
    ASSUME FuseConstants, "between" \notin Faults
    PROVE  FuseInv /\ [FuseNext]_fuseVars => FuseInv'
<1> SUFFICES ASSUME FuseInv, [FuseNext]_fuseVars PROVE FuseInv'
  OBVIOUS
<1>1. CASE UNCHANGED fuseVars
  BY <1>1 DEF fuseVars, FuseInv, FuseTypes, Asked, Reading, Resting, ReadsAtOffset, WantedBytes, Stream
<1>2. CASE FuseNext
  BY <1>2, HandlesKeepInv, FuseBeginKeepsInv, LockKeepsInv, FailureKeepsInv, FillKeepsInv, ReplyKeepsInv
     DEF FuseNext
<1> QED  BY <1>1, <1>2

\* A read is answered with the bytes at its offset, as many as it asked for or
\* the file has left, however many reads of the handle the kernel has under way,
\* when no reader fails half way (fuse lib.rs:441-480).
THEOREM AnswersAtOffset ==
    ASSUME FuseConstants, "between" \notin Faults
    PROVE  FuseSpec => []ReadsAtOffset
<1>1. FuseInit => FuseInv
  BY FuseInvInit
<1>2. FuseInv /\ [FuseNext]_fuseVars => FuseInv'
  BY FuseInvStep
<1>3. FuseInv => ReadsAtOffset
  BY DEF FuseInv
<1> QED  BY <1>1, <1>2, <1>3, PTL DEF FuseSpec

-----------------------------------------------------------------------------
(* The state database. *)

SchemaConstants == Latest \in [Openers -> Nat] /\ Nobody \notin Openers

(* The properties alone are not inductive.  A step is applied to the version  *)
(* the transaction found, so the invariant says who is in it, and what an     *)
(* open knows of the file from the steps before.                              *)

Places == {"closed", "inspects", "refused", "checked", "begun", "applied", "open"}

SchemaTypes ==
    /\ file \in [ours : BOOLEAN, version : Nat, applied : Seq(Nat)]
    /\ opener \in [Openers -> [at : Places, target : Nat \ {0}]]

\* Whoever is in a transaction is the writer; the step is the file's next one.
OneTransaction ==
    \A p \in Openers :
      /\ opener[p].at \in {"begun", "applied"} => writer = p
      /\ opener[p].at = "applied" => file.version = opener[p].target - 1

\* An open that passed the check is on the file of Rustorr, which has every
\* migration before its target.
Reached ==
    \A p \in Openers :
      opener[p].at \in {"checked", "begun", "applied"} =>
        file.ours /\ file.version >= opener[p].target - 1

SchemaInv == SchemaTypes /\ VersionIsHonest /\ OpenIsMigrated /\ OneTransaction /\ Reached

-----------------------------------------------------------------------------
LEMMA SchemaInvInit == MigrationInit => SchemaInv
<1> SUFFICES ASSUME MigrationInit PROVE SchemaInv
  OBVIOUS
<1>1. PICK kind \in Found :
        file = [ours |-> kind # "foreign", version |-> 0, applied |-> <<>>]
  BY DEF MigrationInit
<1>2. SchemaTypes
  BY <1>1 DEF MigrationInit, SchemaTypes, Places, Closed, At
<1>3. VersionIsHonest
  BY <1>1 DEF VersionIsHonest
<1>4. OpenIsMigrated /\ OneTransaction /\ Reached
  BY <1>1 DEF MigrationInit, Closed, At, OpenIsMigrated, OneTransaction, Reached
<1> QED  BY <1>2, <1>3, <1>4 DEF SchemaInv

\* What a step of p does to the opens.
LEMMA OneMoves ==
    ASSUME SchemaTypes, NEW p \in Openers, NEW place \in Places, NEW target \in Nat \ {0},
           Moved(p, At(place, target))
    PROVE  /\ opener' \in [Openers -> [at : Places, target : Nat \ {0}]]
           /\ \A q \in Openers \ {p} : opener'[q] = opener[q]
           /\ opener'[p].at = place /\ opener'[p].target = target
BY DEF SchemaTypes, Moved, At

\* A step that leaves the file alone keeps what is said of it, when p ends
\* outside a transaction and the others' transactions stay.
LEMMA FileUntouched ==
    ASSUME SchemaConstants, SchemaInv, NEW p \in Openers, NEW place \in Places \ {"begun", "applied"},
           NEW target \in Nat \ {0}, Moved(p, At(place, target)),
           UNCHANGED file, writer' = writer \/ writer = p,
           place = "open" => file.version >= Latest[p],
           place = "checked" => file.ours /\ file.version >= target - 1
    PROVE  SchemaInv'
<1> USE DEF SchemaInv, SchemaConstants
<1>1. /\ opener' \in [Openers -> [at : Places, target : Nat \ {0}]]
      /\ \A q \in Openers \ {p} : opener'[q] = opener[q]
      /\ opener'[p].at = place /\ opener'[p].target = target
  BY OneMoves
<1>2. SchemaTypes' /\ VersionIsHonest'
  BY <1>1 DEF SchemaTypes, VersionIsHonest
<1>3. OpenIsMigrated'
  <2>1. ASSUME NEW q \in Openers, opener'[q].at = "open" PROVE file.version >= Latest[q]
    BY <1>1, <2>1 DEF OpenIsMigrated
  <2> QED  BY <2>1 DEF OpenIsMigrated
<1>4. OneTransaction'
  <2>1. ASSUME NEW q \in Openers, opener'[q].at \in {"begun", "applied"}
        PROVE  q # p /\ opener'[q] = opener[q] /\ writer = q
    BY <1>1, <2>1 DEF OneTransaction
  <2> QED  BY <2>1 DEF OneTransaction
<1>5. Reached'
  <2>1. ASSUME NEW q \in Openers, opener'[q].at \in {"checked", "begun", "applied"}
        PROVE  file.ours /\ file.version >= opener'[q].target - 1
    <3>1. CASE q = p
      BY <1>1, <2>1, <3>1
    <3>2. CASE q # p
      BY <1>1, <2>1, <3>2 DEF Reached
    <3> QED  BY <3>1, <3>2
  <2> QED  BY <2>1 DEF Reached
<1> QED  BY <1>2, <1>3, <1>4, <1>5

\* The check, and the steps that leave or wait for a transaction.
LEMMA OutsideKeepsInv ==
    ASSUME SchemaConstants, SchemaInv, NEW p \in Openers,
           Check(p) \/ Inspect(p) \/ Busy(p) \/ Skip(p) \/ Opened(p) \/ Ends(p)
    PROVE  SchemaInv'
<1> USE DEF SchemaInv, SchemaConstants
<1>1. file.version \in Nat /\ opener[p].at \in Places /\ opener[p].target \in Nat \ {0}
  BY DEF SchemaTypes
<1>2. CASE Check(p)
  <2>1. CASE file.version = 0
    BY <1>1, <1>2, <2>1, FileUntouched DEF Check, Places
  <2>2. CASE file.version # 0 /\ file.ours /\ file.version <= Latest[p]
    BY <1>1, <1>2, <2>2, FileUntouched DEF Check, Places
  <2>3. CASE file.version # 0 /\ ~ (file.ours /\ file.version <= Latest[p])
    BY <1>1, <1>2, <2>3, FileUntouched DEF Check, Places
  <2> QED  BY <2>1, <2>2, <2>3
<1>3. CASE Inspect(p)
  <2>1. CASE file.ours /\ file.applied = <<>>
    BY <1>1, <1>3, <2>1, FileUntouched DEF Inspect, Places
  <2>2. CASE ~ (file.ours /\ file.applied = <<>>)
    BY <1>1, <1>3, <2>2, FileUntouched DEF Inspect, Places
  <2> QED  BY <2>1, <2>2
<1>4. CASE Busy(p)
  BY <1>1, <1>4, FileUntouched DEF Busy, Closed, Places
<1>5. CASE Skip(p)
  <2>1. writer = p /\ file.ours
    BY <1>5 DEF Skip, OneTransaction, Reached
  <2> QED  BY <1>1, <1>5, <2>1, FileUntouched DEF Skip, Places
<1>6. CASE Opened(p)
  <2>1. file.version >= opener[p].target - 1
    BY <1>6 DEF Opened, Reached
  <2>2. file.version >= Latest[p]
    BY <1>1, <1>6, <2>1 DEF Opened
  <2> QED  BY <1>1, <1>6, <2>2, FileUntouched DEF Opened, Places
<1>7. CASE Ends(p)
  BY <1>1, <1>7, FileUntouched DEF Ends, Closed, Places
<1> QED  BY <1>2, <1>3, <1>4, <1>5, <1>6, <1>7

LEMMA SchemaBeginKeepsInv ==
    ASSUME SchemaConstants, SchemaInv, NEW p \in Openers, Begin(p) \/ Apply(p)
    PROVE  SchemaInv'
<1> USE DEF SchemaInv, SchemaConstants
<1> DEFINE place == IF Begin(p) THEN "begun" ELSE "applied"
<1>1. /\ UNCHANGED file /\ writer' = p
      /\ Moved(p, At(place, opener[p].target))
      /\ opener[p].at \in {"checked", "begun"}
      /\ \A q \in Openers \ {p} : opener[q].at \notin {"begun", "applied"}
      /\ place = "applied" => file.version < opener[p].target
  <2>1. CASE Begin(p)
    BY <2>1 DEF Begin, OneTransaction
  <2>2. CASE Apply(p) /\ ~ Begin(p)
    BY <2>2 DEF Apply, OneTransaction
  <2> QED  BY <2>1, <2>2
<1>2. /\ opener' \in [Openers -> [at : Places, target : Nat \ {0}]]
      /\ \A q \in Openers \ {p} : opener'[q] = opener[q]
      /\ opener'[p].at = place /\ opener'[p].target = opener[p].target
  <2>1. place \in Places /\ opener[p].target \in Nat \ {0}
    BY DEF SchemaTypes, Places
  <2> HIDE DEF place
  <2> QED  BY <1>1, <2>1, OneMoves
<1>3. /\ file.version \in Nat /\ opener[p].target \in Nat \ {0}
      /\ file.ours /\ file.version >= opener[p].target - 1
  BY <1>1 DEF SchemaTypes, Reached
<1> place \in {"begun", "applied"}
  OBVIOUS
<1> HIDE DEF place
<1>4. SchemaTypes' /\ VersionIsHonest'
  BY <1>1, <1>2 DEF SchemaTypes, VersionIsHonest
<1>5. OpenIsMigrated'
  BY <1>1, <1>2 DEF OpenIsMigrated
<1>6. OneTransaction'
  BY <1>1, <1>2, <1>3 DEF OneTransaction
<1>7. Reached'
  BY <1>1, <1>2, <1>3 DEF Reached
<1> QED  BY <1>4, <1>5, <1>6, <1>7

LEMMA Appended ==
    ASSUME NEW n \in Nat, NEW s, s = [i \in 1 .. n |-> i]
    PROVE  /\ s \in Seq(Nat)
           /\ Append(s, n + 1) = [i \in 1 .. n + 1 |-> i]
<1>1. s \in Seq(Nat) /\ Len(s) = n
  OBVIOUS
<1> QED  BY <1>1

LEMMA CommitKeepsInv ==
    ASSUME SchemaConstants, SchemaInv, NEW p \in Openers, Commit(p)
    PROVE  SchemaInv'
<1> USE DEF SchemaInv, SchemaConstants
<1>1. /\ file.version \in Nat /\ opener[p].target \in Nat
      /\ opener[p].target = file.version + 1
      /\ writer = p /\ file.ours
  BY DEF Commit, OneTransaction, Reached, SchemaTypes
<1>2. /\ opener' \in [Openers -> [at : Places, target : Nat \ {0}]]
      /\ \A q \in Openers \ {p} : opener'[q] = opener[q]
      /\ opener'[p].at = "checked" /\ opener'[p].target = file.version + 2
  BY <1>1, OneMoves DEF Commit, Places
<1>3. file' = [file EXCEPT !.version = file.version + 1,
                          !.applied = Append(file.applied, file.version + 1)]
  BY <1>1 DEF Commit
<1>4. /\ file' \in [ours : BOOLEAN, version : Nat, applied : Seq(Nat)]
      /\ file'.version = file.version + 1 /\ file'.ours
      /\ file'.applied = [i \in 1 .. file.version + 1 |-> i]
  <2>1. file.applied = [i \in 1 .. file.version |-> i] /\ file.applied \in Seq(Nat)
    BY DEF VersionIsHonest, SchemaTypes
  <2>2. Append(file.applied, file.version + 1) = [i \in 1 .. file.version + 1 |-> i]
    BY <1>1, <2>1, Appended
  <2>3. Append(file.applied, file.version + 1) \in Seq(Nat)
    BY <1>1, <2>1
  <2>4. file \in [ours : BOOLEAN, version : Nat, applied : Seq(Nat)]
    BY DEF SchemaTypes
  <2>5. /\ file'.version = file.version + 1 /\ file'.ours = file.ours
        /\ file'.applied = Append(file.applied, file.version + 1)
        /\ file' \in [ours : BOOLEAN, version : Nat, applied : Seq(Nat)]
    BY <1>1, <1>3, <2>3, <2>4
  <2> QED  BY <1>1, <2>2, <2>5
<1>5. SchemaTypes' /\ VersionIsHonest'
  BY <1>2, <1>4 DEF SchemaTypes, VersionIsHonest
<1>6. \A q \in Openers \ {p} : opener[q].at \notin {"begun", "applied"}
  BY <1>1 DEF OneTransaction
<1>7. OneTransaction'
  BY <1>2, <1>6 DEF OneTransaction
<1>8. Reached'
  <2>1. ASSUME NEW q \in Openers, opener'[q].at \in {"checked", "begun", "applied"}
        PROVE  file'.version >= opener'[q].target - 1
    <3>1. CASE q = p
      BY <1>1, <1>2, <1>4, <3>1
    <3>2. CASE q # p
      <4>1. opener'[q] = opener[q] /\ opener[q].target \in Nat
        BY <1>2, <3>2 DEF SchemaTypes
      <4>2. file.version >= opener[q].target - 1
        BY <2>1, <4>1 DEF Reached
      <4> QED  BY <1>1, <1>4, <4>1, <4>2
    <3> QED  BY <3>1, <3>2
  <2> QED  BY <1>4, <2>1 DEF Reached
<1>9. OpenIsMigrated'
  <2>1. ASSUME NEW q \in Openers, opener'[q].at = "open" PROVE file'.version >= Latest[q]
    <3>1. q # p /\ opener'[q] = opener[q]
      BY <1>2, <2>1
    <3>2. file.version >= Latest[q] /\ Latest[q] \in Nat
      BY <2>1, <3>1 DEF OpenIsMigrated
    <3> QED  BY <1>1, <1>4, <3>2
  <2> QED  BY <1>4, <2>1 DEF OpenIsMigrated
<1> QED  BY <1>5, <1>7, <1>8, <1>9

LEMMA InvNext == SchemaConstants /\ SchemaInv /\ [MigrationNext]_migrationVars => SchemaInv'
<1> SUFFICES ASSUME SchemaConstants, SchemaInv, [MigrationNext]_migrationVars PROVE SchemaInv'
  OBVIOUS
<1>1. CASE UNCHANGED migrationVars
  BY <1>1 DEF migrationVars, SchemaInv, SchemaTypes, VersionIsHonest, OpenIsMigrated, OneTransaction, Reached
<1>2. CASE MigrationNext
  BY <1>2, OutsideKeepsInv, SchemaBeginKeepsInv, CommitKeepsInv DEF MigrationNext
<1> QED  BY <1>1, <1>2

-----------------------------------------------------------------------------
\* The recorded version says exactly which migrations the file has had, a file
\* of another program is never written, and an open State has every migration
\* of its build, however many processes of whatever builds open the file and
\* wherever they stop (schema.rs:72-127, state.rs:25-27).
THEOREM SchemaStaysRight ==
    ASSUME SchemaConstants
    PROVE  MigrationSpec => []SchemaIsRight
<1>1. SchemaInv => SchemaIsRight
  BY DEF SchemaInv, SchemaIsRight
<1> QED  BY <1>1, SchemaInvInit, InvNext, PTL DEF MigrationSpec

-----------------------------------------------------------------------------
(* The locks of the WebDAV mount. *)

\* A path has finitely many paths above it, the last of which is "/".
ParentOK ==
    /\ IsFiniteSet(Names) /\ Root \in Names
    /\ Parent \in [Names \ {Root} -> Names]
    /\ \A T \in SUBSET Names : T # {} => \E n \in T : n = Root \/ Parent[n] \notin T

LockConstants == ParentOK /\ None \notin Names \cup Tokens

-----------------------------------------------------------------------------
(* The way to the root. *)

\* The recursive definition of Walk has a solution: what every set that holds n
\* and the parents of its members holds.
LEMMA WalkIsDefined ==
    ASSUME ParentOK
    PROVE  Walk = [n \in Names |-> IF n = Root THEN {n} ELSE {n} \cup Walk[Parent[n]]]
<1> DEFINE Def(f) == f = [n \in Names |-> IF n = Root THEN {n} ELSE {n} \cup f[Parent[n]]]
           Upward == {S \in SUBSET Names : \A x \in S : x # Root => Parent[x] \in S}
           W == [n \in Names |-> {m \in Names : \A S \in Upward : n \in S => m \in S}]
<1>1. ASSUME NEW n \in Names
      PROVE  W[n] = IF n = Root THEN {n} ELSE {n} \cup W[Parent[n]]
  <2>1. CASE n = Root
    <3>1. {Root} \in Upward  BY DEF ParentOK
    <3>2. W[n] \subseteq {n}  BY <2>1, <3>1
    <3>3. n \in W[n]  OBVIOUS
    <3> QED  BY <2>1, <3>2, <3>3
  <2>2. CASE n # Root
    <3>1. Parent[n] \in Names  BY <2>2 DEF ParentOK
    <3>2. {n} \cup W[Parent[n]] \subseteq W[n]  BY <2>2, <3>1
    <3>3. ASSUME NEW m \in W[n], m # n
          PROVE  m \in W[Parent[n]]
      <4>1. ASSUME NEW S \in Upward, Parent[n] \in S
            PROVE  m \in S
        <5>1. S \cup {n} \in Upward  BY <4>1
        <5> QED  BY <5>1, <3>3
      <4> QED  BY <4>1, <3>1
    <3> QED  BY <2>2, <3>2, <3>3
  <2> QED  BY <2>1, <2>2
<1>2. Def(W)
  <2> HIDE DEF Upward
  <2>1. W = [n \in Names |-> W[n]]  OBVIOUS
  <2>2. W = [n \in Names |-> IF n = Root THEN {n} ELSE {n} \cup W[Parent[n]]]
    <3> HIDE DEF W
    <3> QED  BY <1>1, <2>1
  <2> QED  BY <2>2
<1>3. Walk = CHOOSE f : Def(f)  BY DEF Walk
<1> QED
  <2> HIDE DEF Def
  <2>1. Def(Walk)  BY <1>2, <1>3
  <2> QED  BY <2>1 DEF Def

LEMMA WalkStarts ==
    ASSUME ParentOK, NEW n \in Names
    PROVE  n \in Walk[n]
BY WalkIsDefined

\* Of two paths on the way from a third one, one is above the other.
LEMMA WalkIsChain ==
    ASSUME ParentOK, NEW m \in Names, NEW a \in Walk[m], NEW b \in Walk[m]
    PROVE  a \in Walk[b] \/ b \in Walk[a]
<1> DEFINE Wrong(x) == \E y, z \in Walk[x] : y \notin Walk[z] /\ z \notin Walk[y]
           T == {x \in Names : Wrong(x)}
<1>1. SUFFICES ASSUME T # {} PROVE FALSE  OBVIOUS
<1>2. PICK x \in T : x = Root \/ Parent[x] \notin T  BY <1>1 DEF ParentOK
<1>3. PICK y \in Walk[x], z \in Walk[x] : y \notin Walk[z] /\ z \notin Walk[y]  BY <1>2
<1>4. x \in Walk[x]  BY WalkStarts
<1>5. CASE x = Root
  <2>1. Walk[x] = {x}  BY <1>5, WalkIsDefined DEF ParentOK
  <2> QED  BY <2>1, <1>3, <1>4
<1>6. CASE x # Root
  <2>1. Walk[x] = {x} \cup Walk[Parent[x]] /\ Parent[x] \in Names
    BY <1>6, WalkIsDefined DEF ParentOK
  <2>2. y # x /\ z # x  BY <1>3, <1>4
  <2>3. y \in Walk[Parent[x]] /\ z \in Walk[Parent[x]]  BY <2>1, <2>2, <1>3
  <2> QED  BY <2>1, <2>3, <1>2, <1>3, <1>6
<1> QED  BY <1>5, <1>6

-----------------------------------------------------------------------------
(* The lock table as a value. *)

Entry == [refs : Nat, token : Tokens \cup {None}, zero : BOOLEAN,
          expiry : {"never", "ahead", "past"}, held : BOOLEAN]
Table == [byName : [Names -> Entry], byToken : [Tokens -> Names \cup {None}]]

\* The locks of S on a path and below it.
Over(S, n) == {r \in S : n \in Walk[r]}

\* The two maps name the same locks, and only a lock is held or expires.
Matched(l) ==
    /\ \A n \in Locked(l) : l.byToken[l.byName[n].token] = n
    /\ \A k \in Tokens : l.byToken[k] # None => l.byName[l.byToken[k]].token = k
    /\ \A n \in Names : l.byName[n].held \/ l.byName[n].expiry # "never" => n \in Locked(l)

Counted(l) ==
    \A n \in Names :
      /\ l.byName[n].refs = Cardinality(Over(Locked(l), n))
      /\ l.byName[n].refs = 0 => l.byName[n] = Absent

Disjoint(l) == \A n, m \in Locked(l) : n # m /\ n \in Walk[m] => l.byName[n].zero

Sound(l) == l \in Table /\ Matched(l) /\ Counted(l) /\ Disjoint(l)

\* The locks on these paths are gone from l and the others are as they were.
Without(l, roots, m) ==
    /\ Locked(m) = Locked(l) \ roots
    /\ \A n \in Locked(m) :
         /\ m.byName[n].token = l.byName[n].token /\ m.byName[n].zero = l.byName[n].zero
         /\ m.byName[n].expiry = l.byName[n].expiry
    /\ \A n \in Names : m.byName[n].held = l.byName[n].held
    /\ \A k \in Tokens : m.byToken[k] = IF l.byToken[k] \in roots THEN None ELSE l.byToken[k]

LEMMA OverIsFinite ==
    ASSUME LockConstants, NEW S, S \subseteq Names, NEW n
    PROVE  /\ IsFiniteSet(Over(S, n)) /\ Cardinality(Over(S, n)) \in Nat
           /\ Cardinality(Over(S, n)) = 0 <=> Over(S, n) = {}
<1>1. IsFiniteSet(S)  BY FS_Subset DEF LockConstants, ParentOK
<1>2. IsFiniteSet(Over(S, n))  BY <1>1, FS_Subset DEF Over
<1> QED  BY <1>2, FS_CardinalityType, FS_EmptySet

LEMMA OverOfDifference ==
    ASSUME LockConstants, NEW S, S \subseteq Names, NEW R, R \subseteq S, NEW n
    PROVE  Cardinality(Over(S \ R, n)) = Cardinality(Over(S, n)) - Cardinality(Over(R, n))
<1>1. Over(S \ R, n) = Over(S, n) \ Over(R, n)  BY DEF Over
<1>2. Over(S, n) \cap Over(R, n) = Over(R, n)  BY DEF Over
<1>3. IsFiniteSet(Over(S, n))  BY OverIsFinite
<1>4. Cardinality(Over(S, n) \ Over(R, n))
        = Cardinality(Over(S, n)) - Cardinality(Over(S, n) \cap Over(R, n))
  BY <1>3, FS_Difference
<1> QED  BY <1>1, <1>2, <1>4

LEMMA EntryCountedDown ==
    ASSUME NEW e \in Entry, NEW k \in Nat, k <= e.refs
    PROVE  LET f == [e EXCEPT !.refs = @ - k]
               g == [f EXCEPT !.token = None, !.expiry = "never"]
           IN  /\ f \in Entry /\ f.refs = e.refs - k /\ f.token = e.token /\ f.zero = e.zero
               /\ f.expiry = e.expiry /\ f.held = e.held
               /\ g \in Entry /\ g.refs = e.refs - k /\ g.token = None /\ g.zero = e.zero
               /\ g.expiry = "never" /\ g.held = e.held
<1> DEFINE f == [e EXCEPT !.refs = @ - k]
           g == [f EXCEPT !.token = None, !.expiry = "never"]
<1>1. e.refs - k \in Nat  BY DEF Entry
<1>2. /\ f \in Entry /\ f.refs = e.refs - k /\ f.token = e.token /\ f.zero = e.zero
      /\ f.expiry = e.expiry /\ f.held = e.held
  BY <1>1 DEF Entry
<1>3. /\ g \in Entry /\ g.refs = f.refs /\ g.token = None /\ g.zero = f.zero
      /\ g.expiry = "never" /\ g.held = f.held
  <2> HIDE DEF f
  <2> QED  BY <1>2 DEF Entry
<1> HIDE DEF f, g
<1>4. /\ f \in Entry /\ f.refs = e.refs - k /\ f.token = e.token /\ f.zero = e.zero
      /\ f.expiry = e.expiry /\ f.held = e.held
      /\ g \in Entry /\ g.refs = e.refs - k /\ g.token = None /\ g.zero = e.zero
      /\ g.expiry = "never" /\ g.held = e.held
  BY <1>2, <1>3
<1> QED  BY <1>4 DEF f, g

\* remove leaves the counts of what stays exact.
LEMMA RemovedIsSound ==
    ASSUME LockConstants, NEW l, Sound(l), NEW roots, roots \subseteq Locked(l),
           \A n \in roots : ~l.byName[n].held
    PROVE  Sound(Removed(l, roots)) /\ Without(l, roots, Removed(l, roots))
<1> DEFINE m == Removed(l, roots)
           rest == Locked(l) \ roots
           Gone(n) == Cardinality(Over(roots, n)) > 0 /\ Cardinality(Over(rest, n)) = 0
<1>0. Locked(l) \subseteq Names /\ roots \subseteq Names /\ rest \subseteq Names  BY DEF Locked
<1>1. ASSUME NEW n \in Names
      PROVE  /\ l.byName[n] \in Entry
             /\ Cardinality(Over(roots, n)) \in Nat /\ Cardinality(Over(rest, n)) \in Nat
             /\ l.byName[n].refs - Cardinality(Over(roots, n)) = Cardinality(Over(rest, n))
             /\ n \in roots => Cardinality(Over(roots, n)) > 0
             /\ n \in rest => ~Gone(n)
             /\ ~Gone(n) /\ Cardinality(Over(rest, n)) = 0 => Cardinality(Over(roots, n)) = 0
             /\ Gone(n) => Cardinality(Over(rest, n)) = 0
  <2>1. l.byName[n] \in Entry /\ l.byName[n].refs = Cardinality(Over(Locked(l), n))
    BY DEF Sound, Counted, Table
  <2>2. /\ Cardinality(Over(roots, n)) \in Nat /\ Cardinality(Over(rest, n)) \in Nat
        /\ Cardinality(Over(roots, n)) = 0 <=> Over(roots, n) = {}
        /\ Cardinality(Over(rest, n)) = 0 <=> Over(rest, n) = {}
    BY <1>0, OverIsFinite
  <2>3. /\ n \in roots => n \in Over(roots, n)
        /\ n \in rest => n \in Over(rest, n)
    BY WalkStarts DEF LockConstants, Over
  <2>4. Cardinality(Over(rest, n)) = Cardinality(Over(Locked(l), n)) - Cardinality(Over(roots, n))
    BY <1>0, OverOfDifference
  <2>5. l.byName[n].refs \in Nat  BY <2>1 DEF Entry
  <2> HIDE DEF rest
  <2> HIDE DEF Gone
  <2>6. Gone(n) <=> Cardinality(Over(roots, n)) > 0 /\ Cardinality(Over(rest, n)) = 0  BY DEF Gone
  <2> QED  BY <2>1, <2>2, <2>3, <2>4, <2>5, <2>6
<1>2. ASSUME NEW n \in Names
      PROVE  /\ Gone(n) => m.byName[n] = Absent
             /\ ~Gone(n) =>
                  /\ m.byName[n] \in Entry
                  /\ m.byName[n].refs = Cardinality(Over(rest, n))
                  /\ m.byName[n].token = IF n \in roots THEN None ELSE l.byName[n].token
                  /\ m.byName[n].expiry = IF n \in roots THEN "never" ELSE l.byName[n].expiry
                  /\ m.byName[n].zero = l.byName[n].zero /\ m.byName[n].held = l.byName[n].held
             /\ Cardinality(Over(roots, n)) = 0 /\ l.byName[n] = Absent => m.byName[n] = Absent
  <2> DEFINE k == Cardinality(Over(roots, n))
             e == l.byName[n]
             f == [e EXCEPT !.refs = @ - k]
             g == [f EXCEPT !.token = None, !.expiry = "never"]
  <2>1. m.byName[n] = IF k > 0 /\ f.refs = 0 THEN Absent ELSE IF n \in roots THEN g ELSE f
    BY DEF Removed, Over
  <2>2. e \in Entry /\ k \in Nat /\ k <= e.refs /\ e.refs - k = Cardinality(Over(rest, n))
    <3>1. e.refs \in Nat  BY <1>1 DEF Entry
    <3> HIDE DEF e, k, rest
    <3> QED  BY <3>1, <1>1 DEF e, k
  <2>3. /\ f \in Entry /\ f.refs = e.refs - k /\ f.token = e.token /\ f.zero = e.zero
        /\ f.expiry = e.expiry /\ f.held = e.held
        /\ g \in Entry /\ g.refs = e.refs - k /\ g.token = None /\ g.zero = e.zero
        /\ g.expiry = "never" /\ g.held = e.held
    <3> HIDE DEF e, k
    <3> QED  BY <2>2, EntryCountedDown
  <2>4. k = 0 /\ e = Absent => f = Absent
    <3>1. Absent.refs = 0  BY DEF Absent
    <3>2. 0 - 0 = 0  OBVIOUS
    <3>3. [Absent EXCEPT !.refs = 0] = Absent  BY <3>1 DEF Absent
    <3> HIDE DEF e, k
    <3> QED  BY <3>1, <3>2, <3>3
  <2>5. n \in roots => k > 0  BY <1>1
  <2>6. Gone(n) <=> k > 0 /\ f.refs = 0  BY <2>2, <2>3
  <2> HIDE DEF e, f, g, m, k, Gone, rest
  <2> QED  BY <2>1, <2>2, <2>3, <2>4, <2>5, <2>6 DEF e, k
<1>3. \A k \in Tokens : m.byToken[k] = IF l.byToken[k] \in roots THEN None ELSE l.byToken[k]
  BY DEF Removed
<1>4. /\ m = [byName |-> m.byName, byToken |-> m.byToken]
      /\ m.byName = [n \in Names |-> m.byName[n]] /\ m.byToken = [k \in Tokens |-> m.byToken[k]]
  BY DEF Removed
<1> HIDE DEF m, rest, Gone
<1>5. ASSUME NEW n \in Names
      PROVE  m.byName[n].token # None <=> n \in rest
  <2>1. n \in rest <=> l.byName[n].token # None /\ n \notin roots  BY DEF rest, Locked
  <2>2. Absent.token = None  BY DEF Absent
  <2> QED  BY <2>1, <2>2, <1>1, <1>2
<1>6. Locked(m) = rest  BY <1>0, <1>5 DEF Locked
<1>7. ASSUME NEW n \in Locked(m)
      PROVE  /\ m.byName[n].token = l.byName[n].token /\ m.byName[n].zero = l.byName[n].zero
             /\ m.byName[n].expiry = l.byName[n].expiry
  <2>1. n \in Names /\ n \in rest /\ n \notin roots  BY <1>0, <1>6 DEF rest
  <2>2. ~Gone(n)  BY <1>1, <2>1
  <2> QED  BY <1>2, <2>1, <2>2
<1>8. ASSUME NEW n \in Names
      PROVE  m.byName[n].held = l.byName[n].held
  <2>1. l.byName[n].held => n \in rest  BY DEF Sound, Matched, rest
  <2>2. l.byName[n].held \in BOOLEAN  BY <1>1 DEF Entry
  <2>3. Gone(n) => n \notin rest  BY <1>1
  <2>4. CASE Gone(n)
    <3>1. ~l.byName[n].held /\ m.byName[n] = Absent  BY <2>1, <2>3, <2>4, <1>2
    <3>2. Absent.held = FALSE  BY DEF Absent
    <3> QED  BY <3>1, <3>2, <2>2
  <2>5. CASE ~Gone(n)
    BY <2>5, <1>2
  <2> QED  BY <2>4, <2>5
<1>9. Without(l, roots, m)  BY <1>3, <1>6, <1>7, <1>8 DEF Without, rest
<1>10. m \in Table
  <2>1. \A n \in Names : m.byName[n] \in Entry
    <3>1. Absent \in Entry  BY DEF Absent, Entry
    <3> QED  BY <1>2, <3>1
  <2>2. \A k \in Tokens : m.byToken[k] \in Names \cup {None}  BY <1>3 DEF Sound, Table
  <2> QED  BY <1>4, <2>1, <2>2 DEF Table
<1>11. Matched(m)
  <2>1. ASSUME NEW n \in Locked(m)
        PROVE  m.byToken[m.byName[n].token] = n
    <3>1. n \in Locked(l) /\ n \notin roots /\ n \in Names  BY <1>0, <1>6 DEF rest
    <3>2. l.byName[n].token \in Tokens  BY <3>1, <1>1 DEF Entry, Locked
    <3> QED  BY <3>1, <3>2, <1>3, <1>7 DEF Sound, Matched
  <2>2. ASSUME NEW k \in Tokens, m.byToken[k] # None
        PROVE  m.byName[m.byToken[k]].token = k
    <3>1. l.byToken[k] \notin roots /\ m.byToken[k] = l.byToken[k]  BY <1>3, <2>2
    <3>2. l.byToken[k] \in Names /\ l.byName[l.byToken[k]].token = k
      BY <3>1, <2>2 DEF Sound, Table, Matched
    <3>3. l.byToken[k] \in Locked(m)  BY <3>1, <3>2, <1>6 DEF Locked, LockConstants, rest
    <3> QED  BY <3>1, <3>2, <3>3, <1>7
  <2>3. ASSUME NEW n \in Names, m.byName[n].held
        PROVE  n \in Locked(m)
    BY <2>3, <1>6, <1>8 DEF Sound, Matched, rest
  <2>4. ASSUME NEW n \in Names, n \notin Locked(m)
        PROVE  m.byName[n].expiry = "never"
    <3>1. Absent.expiry = "never"  BY DEF Absent
    <3>2. n \notin roots => l.byName[n].expiry = "never"
      BY <2>4, <1>6 DEF Sound, Matched, rest
    <3> QED  BY <3>1, <3>2, <1>2
  <2> QED  BY <2>1, <2>2, <2>3, <2>4 DEF Matched
<1>12. Counted(m)
  <2>1. ASSUME NEW n \in Names
        PROVE  /\ m.byName[n].refs = Cardinality(Over(Locked(m), n))
               /\ m.byName[n].refs = 0 => m.byName[n] = Absent
    <3>1. CASE Gone(n)
      <4>1. m.byName[n] = Absent /\ Cardinality(Over(rest, n)) = 0  BY <3>1, <1>1, <1>2
      <4> QED  BY <4>1, <1>6 DEF Absent
    <3>2. CASE ~Gone(n)
      <4>1. m.byName[n].refs = Cardinality(Over(rest, n))  BY <3>2, <1>2
      <4>2. ASSUME m.byName[n].refs = 0
            PROVE  m.byName[n] = Absent
        <5>1. Cardinality(Over(rest, n)) = 0 /\ Cardinality(Over(roots, n)) = 0
          BY <4>1, <4>2, <3>2, <1>1
        <5>2. l.byName[n].refs = 0
          <6>1. l.byName[n].refs \in Nat  BY <1>1 DEF Entry
          <6> QED  BY <5>1, <6>1, <1>1
        <5>3. l.byName[n] = Absent  BY <5>2 DEF Sound, Counted
        <5> QED  BY <5>1, <5>3, <1>2
      <4> QED  BY <4>1, <4>2, <1>6
    <3> QED  BY <3>1, <3>2
  <2> QED  BY <2>1 DEF Counted
<1>13. Disjoint(m)  BY <1>6, <1>7 DEF Disjoint, Sound, rest
<1> QED  BY <1>9, <1>10, <1>11, <1>12, <1>13 DEF Sound, m

\* The lock on name is new in m, under token k.
With(l, name, k, m) ==
    /\ name \notin Locked(l) /\ Locked(m) = Locked(l) \cup {name}
    /\ m.byName[name].token = k
    /\ \A n \in Names \ {name} :
         /\ m.byName[n].token = l.byName[n].token /\ m.byName[n].zero = l.byName[n].zero
         /\ m.byName[n].expiry = l.byName[n].expiry
    /\ \A n \in Names : m.byName[n].held = l.byName[n].held
    /\ m.byToken = [l.byToken EXCEPT ![k] = name]

\* create counts the new lock once on each path above it, and can_create keeps
\* it apart from the others.
LEMMA CreatedIsSound ==
    ASSUME LockConstants, NEW l, Sound(l), NEW name \in Names, NEW zero \in BOOLEAN,
           NEW expiry \in {"never", "ahead", "past"}, NEW k \in Tokens, l.byToken[k] = None,
           CanCreate(l, name, zero)
    PROVE  /\ Sound(Created(l, name, zero, expiry, k))
           /\ With(l, name, k, Created(l, name, zero, expiry, k))
           /\ Created(l, name, zero, expiry, k).byName[name].expiry = expiry
<1> DEFINE m == Created(l, name, zero, expiry, k)
<1>0. Locked(l) \subseteq Names /\ name \in Walk[name]  BY WalkStarts DEF Locked, LockConstants
<1>1. ASSUME NEW n \in Names
      PROVE  /\ l.byName[n] \in Entry /\ l.byName[n].refs = Cardinality(Over(Locked(l), n))
             /\ l.byName[n].refs = 0 => l.byName[n] = Absent
             /\ l.byName[n].held => n \in Locked(l)
             /\ n \in Locked(l) <=> l.byName[n].token # None
  BY DEF Sound, Counted, Table, Matched, Locked
<1>2. l.byName[name].token = None
  BY <1>1 DEF CanCreate, Absent
<1>3. ASSUME NEW n \in Names
      PROVE  /\ m.byName[n] \in Entry
             /\ m.byName[n].refs = l.byName[n].refs + (IF n \in Walk[name] THEN 1 ELSE 0)
             /\ m.byName[n].token = IF n = name THEN k ELSE l.byName[n].token
             /\ m.byName[n].zero = IF n = name THEN zero ELSE l.byName[n].zero
             /\ m.byName[n].expiry = IF n = name THEN expiry ELSE l.byName[n].expiry
             /\ m.byName[n].held = l.byName[n].held
             /\ n \notin Walk[name] => m.byName[n] = l.byName[n]
  <2>1. CASE n = name
    <3>1. m.byName[n] = [refs |-> l.byName[n].refs + 1, token |-> k, zero |-> zero,
                         expiry |-> expiry, held |-> l.byName[n].held]
      BY <2>1 DEF Created
    <3>2. l.byName[n].refs + 1 \in Nat  BY <1>1 DEF Entry
    <3> HIDE DEF m
    <3> QED  BY <1>0, <1>1, <2>1, <3>1, <3>2 DEF Entry
  <2>2. CASE n # name /\ n \in Walk[name]
    <3>1. m.byName[n] = [l.byName[n] EXCEPT !.refs = @ + 1]  BY <2>2 DEF Created
    <3> HIDE DEF m
    <3> QED  BY <1>1, <2>2, <3>1 DEF Entry
  <2>3. CASE n # name /\ n \notin Walk[name]
    <3>1. m.byName[n] = l.byName[n]  BY <2>3 DEF Created
    <3>2. l.byName[n].refs \in Nat  BY <1>1 DEF Entry
    <3> HIDE DEF m
    <3> QED  BY <1>1, <2>3, <3>1, <3>2
  <2> QED  BY <2>1, <2>2, <2>3
<1>4. /\ m = [byName |-> m.byName, byToken |-> m.byToken]
      /\ m.byName = [n \in Names |-> m.byName[n]]
      /\ m.byToken = [l.byToken EXCEPT ![k] = name]
  BY DEF Created
<1> HIDE DEF m
<1>5. k # None /\ l.byToken \in [Tokens -> Names \cup {None}]  BY DEF Sound, Table, LockConstants
<1>6. name \notin Locked(l) /\ Locked(m) = Locked(l) \cup {name}
  <2>1. ASSUME NEW n \in Names
        PROVE  m.byName[n].token # None <=> n \in Locked(l) \cup {name}
    BY <1>1, <1>3, <1>5
  <2> QED  BY <1>0, <1>1, <1>2, <2>1 DEF Locked
<1>7. With(l, name, k, m)  BY <1>3, <1>4, <1>6 DEF With
<1>8. m \in Table
  <2>1. m.byToken \in [Tokens -> Names \cup {None}]  BY <1>4, <1>5
  <2> QED  BY <1>3, <1>4, <2>1 DEF Table
<1>9. Matched(m)
  <2>1. ASSUME NEW n \in Locked(m)
        PROVE  m.byToken[m.byName[n].token] = n
    <3>1. CASE n = name
      BY <3>1, <1>3, <1>4, <1>5
    <3>2. CASE n # name
      <4>1. n \in Locked(l) /\ n \in Names  BY <3>2, <1>0, <1>6
      <4>2. l.byName[n].token \in Tokens /\ l.byToken[l.byName[n].token] = n
        BY <4>1, <1>1 DEF Entry, Sound, Matched
      <4>3. l.byName[n].token # k  BY <4>1, <4>2, <1>5 DEF LockConstants
      <4> QED  BY <3>2, <4>1, <4>2, <4>3, <1>3, <1>4, <1>5
    <3> QED  BY <3>1, <3>2
  <2>2. ASSUME NEW j \in Tokens, m.byToken[j] # None
        PROVE  m.byName[m.byToken[j]].token = j
    <3>1. CASE j = k
      BY <3>1, <1>3, <1>4, <1>5
    <3>2. CASE j # k
      <4>1. m.byToken[j] = l.byToken[j] /\ l.byToken[j] \in Names  BY <3>2, <2>2, <1>4, <1>5
      <4>2. l.byName[l.byToken[j]].token = j  BY <4>1, <2>2 DEF Sound, Matched
      <4>3. j # None  BY DEF LockConstants
      <4>4. l.byToken[j] # name  BY <4>2, <4>3, <1>2
      <4> QED  BY <4>1, <4>2, <4>4, <1>3
    <3> QED  BY <3>1, <3>2
  <2>3. ASSUME NEW n \in Names, m.byName[n].held
        PROVE  n \in Locked(m)
    BY <2>3, <1>1, <1>3, <1>6
  <2>4. ASSUME NEW n \in Names, n \notin Locked(m)
        PROVE  m.byName[n].expiry = "never"
    BY <2>4, <1>3, <1>6 DEF Sound, Matched
  <2> QED  BY <2>1, <2>2, <2>3, <2>4 DEF Matched
<1>10. Counted(m)
  <2>1. ASSUME NEW n \in Names
        PROVE  /\ m.byName[n].refs = Cardinality(Over(Locked(m), n))
               /\ m.byName[n].refs = 0 => m.byName[n] = Absent
    <3>1. IsFiniteSet(Over(Locked(l), n)) /\ Cardinality(Over(Locked(l), n)) \in Nat
      BY <1>0, OverIsFinite
    <3>2. CASE n \in Walk[name]
      <4>1. Over(Locked(m), n) = Over(Locked(l), n) \cup {name} /\ name \notin Over(Locked(l), n)
        BY <3>2, <1>6 DEF Over
      <4>2. Cardinality(Over(Locked(l), n) \cup {name}) = Cardinality(Over(Locked(l), n)) + 1
        BY <3>1, <4>1, FS_AddElement
      <4>3. Cardinality(Over(Locked(m), n)) = Cardinality(Over(Locked(l), n)) + 1
        BY <4>1, <4>2
      <4> QED  BY <3>1, <3>2, <4>3, <1>1, <1>3
    <3>3. CASE n \notin Walk[name]
      <4>1. Over(Locked(m), n) = Over(Locked(l), n)  BY <3>3, <1>6 DEF Over
      <4>2. m.byName[n] = l.byName[n]  BY <3>3, <1>3
      <4> QED  BY <4>1, <4>2, <1>1
    <3> QED  BY <3>2, <3>3
  <2> QED  BY <2>1 DEF Counted
<1>11. Disjoint(m)
  <2> SUFFICES ASSUME NEW a \in Locked(m), NEW b \in Locked(m), a # b, a \in Walk[b]
               PROVE  m.byName[a].zero
    BY DEF Disjoint
  <2>0. a \in Names /\ b \in Names  BY <1>0, <1>6
  <2>1. CASE a # name /\ b # name
    BY <2>1, <2>0, <1>3, <1>6 DEF Sound, Disjoint
  <2>2. CASE b = name
    <3>1. a \in Locked(l) /\ a \in Walk[name] \ {name}  BY <2>2, <1>6
    <3>2. l.byName[a].token # None  BY <3>1, <2>0, <1>1
    <3>3. l.byName[a].zero  BY <3>1, <3>2 DEF CanCreate
    <3> QED  BY <2>0, <2>2, <3>3, <1>3
  <2>3. CASE a = name
    <3>1. b \in Over(Locked(l), name)  BY <2>3, <1>6 DEF Over
    <3>2. l.byName[name].refs # 0  BY <3>1, <1>0, <1>1, OverIsFinite
    <3>3. zero  BY <3>2 DEF CanCreate
    <3> QED  BY <2>0, <2>3, <3>3, <1>3
  <2> QED  BY <2>1, <2>2, <2>3
<1>12. m.byName[name].expiry = expiry  BY <1>3
<1> QED  BY <1>7, <1>8, <1>9, <1>10, <1>11, <1>12 DEF Sound, m

\* The same locks in both, which differ in what is held and until when.
Same(l, m) ==
    /\ \A n \in Names :
         /\ m.byName[n].refs = l.byName[n].refs /\ m.byName[n].token = l.byName[n].token
         /\ m.byName[n].zero = l.byName[n].zero
         /\ n \notin Locked(l) => m.byName[n] = l.byName[n]
    /\ m.byToken = l.byToken

LEMMA SameIsSound ==
    ASSUME NEW l, Sound(l), NEW m \in Table, Same(l, m)
    PROVE  Sound(m) /\ Locked(m) = Locked(l)
<1>1. Locked(m) = Locked(l)  BY DEF Locked, Same
<1>2. Locked(l) \subseteq Names  BY DEF Locked
<1>3. \A k \in Tokens : l.byToken[k] # None => l.byToken[k] \in Names  BY DEF Sound, Table
<1>4. Matched(m)  BY <1>1, <1>2, <1>3 DEF Matched, Same, Sound
<1>5. Counted(m)
  <2>1. ASSUME NEW n \in Names
        PROVE  /\ m.byName[n].refs = Cardinality(Over(Locked(m), n))
               /\ m.byName[n].refs = 0 => m.byName[n] = Absent
    <3>1. m.byName[n].refs = l.byName[n].refs /\ (n \notin Locked(l) => m.byName[n] = l.byName[n])
      BY DEF Same
    <3>2. /\ l.byName[n].refs = Cardinality(Over(Locked(l), n))
          /\ l.byName[n].refs = 0 => l.byName[n] = Absent
      BY DEF Sound, Counted
    <3>3. Absent.token = None  BY DEF Absent
    <3> QED  BY <1>1, <3>1, <3>2, <3>3 DEF Locked
  <2> QED  BY <2>1 DEF Counted
<1>6. Disjoint(m)  BY <1>1, <1>2 DEF Disjoint, Same, Sound
<1> QED  BY <1>1, <1>4, <1>5, <1>6 DEF Sound

-----------------------------------------------------------------------------
(* What the requests in progress have: the table l, the requests q, the tokens *)
(* that clients know and the locks that dropped requests left held.            *)

RunningRequest ==
    [at : {"running"}, covers : SUBSET Names, tokens : SUBSET Tokens, roots : SUBSET Names]
CheckingRequest == [at : {"checking"}, token : Tokens]

Runs(q) == {r \in Requests : q[r].at = "running"}
Checks(q) == {r \in Requests : q[r].at = "checking"}

Typed(q) == q \in [Requests -> {Idle} \cup RunningRequest \cup CheckingRequest]

Shapes(q, kn, lf) ==
    /\ Typed(q)
    /\ kn \subseteq Tokens /\ lf \subseteq Names

\* No two own the same token or hold the same lock, and nobody else knows the
\* token or holds the lock.
Apart(q, kn, lf) ==
    /\ \A r \in Runs(q) :
         /\ q[r].tokens = {} \/ q[r].roots = {}
         /\ q[r].tokens \cap kn = {} /\ q[r].roots \cap lf = {}
         /\ \A s \in Runs(q) : r # s =>
              q[r].tokens \cap q[s].tokens = {} /\ q[r].roots \cap q[s].roots = {}
    /\ \A r \in Checks(q) :
         /\ q[r].token \notin kn
         /\ \A s \in Runs(q) : q[r].token \notin q[s].tokens
         /\ \A s \in Checks(q) : r # s => q[r].token # q[s].token

\* A temporary lock never expires and nobody confirms it.
Temporary(l, q) ==
    \A r \in Runs(q) : \A k \in q[r].tokens :
      /\ l.byToken[k] # None
      /\ ~l.byName[l.byToken[k]].held /\ l.byName[l.byToken[k]].expiry = "never"

Marked(l, q, lf) ==
    \A n \in Names : l.byName[n].held <=> n \in lf \/ \E r \in Runs(q) : n \in q[r].roots

Covered(l, q) ==
    \A r \in Runs(q) : \A n \in q[r].covers :
      \/ l.byName[n].token \in q[r].tokens
      \/ \E root \in q[r].roots : root = n \/ (root \in Walk[n] /\ ~l.byName[root].zero)

Claims(l, q, kn, lf) ==
    Shapes(q, kn, lf) /\ Apart(q, kn, lf) /\ Temporary(l, q) /\ Marked(l, q, lf) /\ Covered(l, q)

\* What a request has is in its record.
LEMMA RequestTypes ==
    ASSUME NEW q, NEW kn, NEW lf, Shapes(q, kn, lf), NEW r \in Requests
    PROVE  /\ r \in Runs(q) => q[r].tokens \subseteq Tokens /\ q[r].roots \subseteq Names
                               /\ q[r].covers \subseteq Names
           /\ r \in Checks(q) => q[r].token \in Tokens
           /\ q[r] = Idle => r \notin Runs(q) /\ r \notin Checks(q)
           /\ q[r] # Idle /\ r \notin Runs(q) => r \in Checks(q)
BY DEF Shapes, Typed, Runs, Checks, Idle, RunningRequest, CheckingRequest

\* The path of a temporary lock, and what else is locked.
LEMMA ClaimedLocks ==
    ASSUME LockConstants, NEW l, Sound(l), NEW q, NEW kn, NEW lf, Claims(l, q, kn, lf), NEW r \in Runs(q)
    PROVE  /\ \A k \in q[r].tokens :
                l.byToken[k] \in Locked(l) /\ l.byName[l.byToken[k]].token = k
           /\ \A n \in Names : l.byName[n].token \in q[r].tokens =>
                n \in Locked(l) /\ ~l.byName[n].held /\ l.byName[n].expiry = "never"
           /\ \A n \in q[r].roots : n \in Locked(l) /\ l.byName[n].held
<1>0. r \in Requests /\ q[r].tokens \subseteq Tokens /\ q[r].roots \subseteq Names
  BY RequestTypes DEF Claims, Runs
<1>1. ASSUME NEW k \in q[r].tokens
      PROVE  l.byToken[k] \in Locked(l) /\ l.byName[l.byToken[k]].token = k
  <2>1. k \in Tokens /\ k # None /\ l.byToken[k] # None
    BY <1>0 DEF Claims, Temporary, LockConstants
  <2>2. l.byToken[k] \in Names /\ l.byName[l.byToken[k]].token = k
    BY <2>1 DEF Sound, Table, Matched
  <2> QED  BY <2>1, <2>2 DEF Locked
<1>2. ASSUME NEW n \in Names, l.byName[n].token \in q[r].tokens
      PROVE  n \in Locked(l) /\ ~l.byName[n].held /\ l.byName[n].expiry = "never"
  <2>1. l.byName[n].token # None  BY <1>0, <1>2 DEF LockConstants
  <2>2. n \in Locked(l)  BY <2>1 DEF Locked
  <2>3. l.byToken[l.byName[n].token] = n  BY <2>2 DEF Sound, Matched
  <2> QED  BY <1>2, <2>2, <2>3 DEF Claims, Temporary
<1>3. ASSUME NEW n \in q[r].roots
      PROVE  n \in Locked(l) /\ l.byName[n].held
  BY <1>0 DEF Claims, Marked, Sound, Matched
<1> QED  BY <1>1, <1>2, <1>3

\* Locks that no request owns or holds may go.
LEMMA WithoutKeepsClaims ==
    ASSUME LockConstants, NEW l, Sound(l), NEW q, NEW kn, NEW lf, Claims(l, q, kn, lf),
           NEW roots, roots \subseteq Locked(l), NEW m, Without(l, roots, m),
           \A n \in roots : ~l.byName[n].held /\ \A r \in Runs(q) : l.byName[n].token \notin q[r].tokens
    PROVE  Claims(m, q, kn, lf)
<1>0. Locked(l) \subseteq Names  BY DEF Locked
<1>1. ASSUME NEW r \in Runs(q), NEW k \in q[r].tokens
      PROVE  /\ m.byToken[k] # None
             /\ ~m.byName[m.byToken[k]].held /\ m.byName[m.byToken[k]].expiry = "never"
  <2>1. /\ l.byToken[k] \in Locked(l) /\ l.byName[l.byToken[k]].token = k
        /\ l.byToken[k] # None
        /\ ~l.byName[l.byToken[k]].held /\ l.byName[l.byToken[k]].expiry = "never"
    BY ClaimedLocks DEF Claims, Temporary
  <2>2. l.byToken[k] \notin roots  BY <2>1
  <2>3. k \in Tokens  BY RequestTypes DEF Claims, Runs
  <2>4. m.byToken[k] = l.byToken[k] /\ l.byToken[k] \in Locked(m)
    BY <2>1, <2>2, <2>3 DEF Without
  <2> QED  BY <1>0, <2>1, <2>4 DEF Without
<1>2. Temporary(m, q)  BY <1>1 DEF Temporary
<1>3. Marked(m, q, lf)  BY DEF Claims, Marked, Without
<1>4. ASSUME NEW r \in Runs(q), NEW n \in q[r].covers
      PROVE  \/ m.byName[n].token \in q[r].tokens
             \/ \E root \in q[r].roots : root = n \/ (root \in Walk[n] /\ ~m.byName[root].zero)
  <2>1. n \in Names  BY RequestTypes DEF Claims, Runs
  <2>2. CASE l.byName[n].token \in q[r].tokens
    <3>1. n \in Locked(l) /\ n \notin roots  BY <2>1, <2>2, ClaimedLocks
    <3> QED  BY <2>2, <3>1 DEF Without
  <2>3. CASE l.byName[n].token \notin q[r].tokens
    <3>1. PICK root \in q[r].roots : root = n \/ (root \in Walk[n] /\ ~l.byName[root].zero)
      BY <2>3 DEF Claims, Covered
    <3>2. root \in Locked(l) /\ l.byName[root].held  BY ClaimedLocks
    <3>3. root \in Locked(m)  BY <3>2 DEF Without
    <3> QED  BY <3>1, <3>3 DEF Without
  <2> QED  BY <2>2, <2>3
<1>5. Covered(m, q)  BY <1>4 DEF Covered
<1> QED  BY <1>2, <1>3, <1>5 DEF Claims

\* What has expired is nobody's.
LEMMA CollectedIsSound ==
    ASSUME LockConstants, NEW l, Sound(l), NEW q, NEW kn, NEW lf, Claims(l, q, kn, lf)
    PROVE  /\ Sound(Collected(l)) /\ Claims(Collected(l), q, kn, lf)
           /\ Without(l, Expired(l), Collected(l))
<1>1. Expired(l) \subseteq Locked(l) /\ \A n \in Expired(l) : ~l.byName[n].held  BY DEF Expired
<1>2. Sound(Collected(l)) /\ Without(l, Expired(l), Collected(l))
  BY <1>1, RemovedIsSound DEF Collected
<1>3. ASSUME NEW n \in Expired(l), NEW r \in Runs(q)
      PROVE  l.byName[n].token \notin q[r].tokens
  <2>1. n \in Names /\ l.byName[n].expiry = "past"  BY DEF Expired, Locked
  <2> QED  BY <2>1, ClaimedLocks
<1> QED  BY <1>1, <1>2, <1>3, WithoutKeepsClaims

\* unlock by tokens that no running request owns.
LEMMA UnlockedAllIsSound ==
    ASSUME LockConstants, NEW l, Sound(l), NEW q, NEW kn, NEW lf, Claims(l, q, kn, lf),
           NEW tokens, tokens \subseteq Tokens, \A r \in Runs(q) : tokens \cap q[r].tokens = {}
    PROVE  Sound(UnlockedAll(l, tokens)) /\ Claims(UnlockedAll(l, tokens), q, kn, lf)
<1> DEFINE roots == {l.byToken[k] : k \in {j \in tokens : CanUnlock(l, j)}}
<1>1. ASSUME NEW n \in roots
      PROVE  n \in Locked(l) /\ ~l.byName[n].held /\ l.byName[n].token \in tokens
  <2>1. PICK k \in tokens : CanUnlock(l, k) /\ n = l.byToken[k]  OBVIOUS
  <2>2. k \in Tokens /\ k # None /\ n # None /\ ~l.byName[n].held
    BY <2>1 DEF CanUnlock, LockConstants
  <2>3. n \in Names /\ l.byName[n].token = k  BY <2>1, <2>2 DEF Sound, Table, Matched
  <2> QED  BY <2>1, <2>2, <2>3 DEF Locked
<1>2. UnlockedAll(l, tokens) = Removed(l, roots)  BY DEF UnlockedAll
<1> HIDE DEF roots
<1>3. Sound(Removed(l, roots)) /\ Without(l, roots, Removed(l, roots))
  BY <1>1, RemovedIsSound
<1>4. Claims(Removed(l, roots), q, kn, lf)  BY <1>1, <1>3, WithoutKeepsClaims
<1> QED  BY <1>2, <1>3, <1>4

LEMMA UnlockedIsSound ==
    ASSUME LockConstants, NEW l, Sound(l), NEW q, NEW kn, NEW lf, Claims(l, q, kn, lf),
           NEW k \in Tokens, \A r \in Runs(q) : k \notin q[r].tokens, CanUnlock(l, k)
    PROVE  Sound(Unlocked(l, k)) /\ Claims(Unlocked(l, k), q, kn, lf)
<1>1. {l.byToken[i] : i \in {j \in {k} : CanUnlock(l, j)}} = {l.byToken[k]}  OBVIOUS
<1>2. UnlockedAll(l, {k}) = Unlocked(l, k)  BY <1>1 DEF UnlockedAll, Unlocked
<1>3. \A r \in Runs(q) : {k} \cap q[r].tokens = {}  OBVIOUS
<1>4. {k} \subseteq Tokens  OBVIOUS
<1> QED  BY <1>2, <1>3, <1>4, UnlockedAllIsSound

\* A new lock takes nothing from anybody.
LEMMA WithKeepsClaims ==
    ASSUME LockConstants, NEW l, Sound(l), NEW q, NEW kn, NEW lf, Claims(l, q, kn, lf),
           NEW name \in Names, NEW k \in Tokens, l.byToken[k] = None, NEW m, With(l, name, k, m)
    PROVE  Claims(m, q, kn, lf)
<1>0. Locked(l) \subseteq Names /\ l.byToken \in [Tokens -> Names \cup {None}]
  BY DEF Locked, Sound, Table
<1>1. ASSUME NEW r \in Runs(q), NEW j \in q[r].tokens
      PROVE  /\ m.byToken[j] # None
             /\ ~m.byName[m.byToken[j]].held /\ m.byName[m.byToken[j]].expiry = "never"
  <2>1. /\ l.byToken[j] \in Locked(l) /\ l.byToken[j] # None
        /\ ~l.byName[l.byToken[j]].held /\ l.byName[l.byToken[j]].expiry = "never"
    BY ClaimedLocks DEF Claims, Temporary
  <2>2. j \in Tokens  BY RequestTypes DEF Claims, Runs
  <2>3. m.byToken[j] = l.byToken[j] /\ l.byToken[j] # name  BY <1>0, <2>1, <2>2 DEF With
  <2> QED  BY <1>0, <2>1, <2>3 DEF With
<1>2. Temporary(m, q)  BY <1>1 DEF Temporary
<1>3. Marked(m, q, lf)  BY DEF Claims, Marked, With
<1>4. ASSUME NEW r \in Runs(q), NEW n \in q[r].covers
      PROVE  \/ m.byName[n].token \in q[r].tokens
             \/ \E root \in q[r].roots : root = n \/ (root \in Walk[n] /\ ~m.byName[root].zero)
  <2>1. n \in Names  BY RequestTypes DEF Claims, Runs
  <2>2. CASE l.byName[n].token \in q[r].tokens
    <3>1. n \in Locked(l)  BY <2>1, <2>2, ClaimedLocks
    <3>2. n # name  BY <3>1 DEF With
    <3> QED  BY <2>1, <2>2, <3>2 DEF With
  <2>3. CASE l.byName[n].token \notin q[r].tokens
    <3>1. PICK root \in q[r].roots : root = n \/ (root \in Walk[n] /\ ~l.byName[root].zero)
      BY <2>3 DEF Claims, Covered
    <3>2. root \in Locked(l) /\ root \in Names  BY <1>0, ClaimedLocks
    <3>3. root # name  BY <3>2 DEF With
    <3> QED  BY <3>1, <3>2, <3>3 DEF With
  <2> QED  BY <2>2, <2>3
<1>5. Covered(m, q)  BY <1>4 DEF Covered
<1> QED  BY <1>2, <1>3, <1>5 DEF Claims

-----------------------------------------------------------------------------
(* A request begins and ends. *)

\* A token nobody has.
New(q, kn, k) ==
    /\ k \in Tokens \ kn
    /\ \A r \in Runs(q) : k \notin q[r].tokens
    /\ \A r \in Checks(q) : k # q[r].token

LEMMA FreshIsNew ==
    ASSUME NEW l, NEW k \in Fresh(l)
    PROVE  New(request, known, k) /\ l.byToken[k] = None
<1>1. k \in Tokens /\ l.byToken[k] = None /\ k \notin known /\ k \notin Owned  BY DEF Fresh
<1>2. \A r \in Runs(request) : request[r].tokens \subseteq Owned  BY DEF Owned, Running, Runs
<1>3. ASSUME NEW r \in Checks(request)
      PROVE  request[r].token \in Owned
  <2> DEFINE temporary == UNION {request[s].tokens : s \in Running}
             tokens == {request[s].token : s \in Checking}
  <2>1. r \in Checking  BY DEF Checking, Checks
  <2>2. request[r].token \in tokens  BY <2>1
  <2>3. Owned = temporary \cup tokens  BY DEF Owned
  <2> HIDE DEF temporary, tokens
  <2> QED  BY <2>2, <2>3
<1> QED  BY <1>1, <1>2, <1>3 DEF New

\* A request that ends gives up its tokens, and what it held is left held.
LEMMA EndKeepsClaims ==
    ASSUME NEW l, NEW q, NEW kn, NEW lf, Claims(l, q, kn, lf), NEW r \in Requests
    PROVE  Claims(l, [q EXCEPT ![r] = Idle], kn,
                  IF r \in Runs(q) THEN lf \cup q[r].roots ELSE lf)
<1> DEFINE p == [q EXCEPT ![r] = Idle]
           jf == IF r \in Runs(q) THEN lf \cup q[r].roots ELSE lf
<1>1. kn \subseteq Tokens /\ jf \subseteq Names
  BY RequestTypes DEF Claims, Shapes
<1>2. /\ Shapes(p, kn, jf) /\ \A s \in Requests \ {r} : p[s] = q[s]
      /\ Runs(p) = Runs(q) \ {r} /\ Checks(p) = Checks(q) \ {r}
      /\ Runs(q) \subseteq Requests /\ Checks(q) \subseteq Requests
  <2>1. Idle.at = "idle"  BY DEF Idle
  <2>2. Typed(q) /\ p = [q EXCEPT ![r] = Idle]  BY DEF Claims, Shapes
  <2> HIDE DEF p, jf
  <2>3. /\ Typed(p) /\ \A s \in Requests \ {r} : p[s] = q[s]
        /\ Runs(p) = (Runs(q) \ {r}) \cup (IF Idle.at = "running" THEN {r} ELSE {})
        /\ Checks(p) = (Checks(q) \ {r}) \cup (IF Idle.at = "checking" THEN {r} ELSE {})
        /\ Runs(q) \subseteq Requests /\ Checks(q) \subseteq Requests
    BY <2>2 DEF Typed, Runs, Checks
  <2> QED  BY <1>1, <2>1, <2>3 DEF Shapes
<1> HIDE DEF p
<1>3. Apart(p, kn, jf)  BY <1>2 DEF Claims, Apart
<1>4. Temporary(l, p)  BY <1>2 DEF Claims, Temporary
<1>5. Marked(l, p, jf)  BY <1>2 DEF Claims, Marked
<1>6. Covered(l, p)  BY <1>2 DEF Claims, Covered
<1> QED  BY <1>2, <1>3, <1>4, <1>5, <1>6 DEF Claims, p

\* A write request that got its temporary locks.
LEMMA BeginKeepsClaims ==
    ASSUME NEW l, NEW q, NEW kn, NEW lf, Claims(l, q, kn, lf), NEW r \in Requests, q[r] = Idle,
           NEW covers \in SUBSET Names, NEW tokens \in SUBSET Tokens,
           \A k \in tokens : /\ New(q, kn, k) /\ l.byToken[k] # None
                             /\ ~l.byName[l.byToken[k]].held
                             /\ l.byName[l.byToken[k]].expiry = "never",
           \A n \in covers : l.byName[n].token \in tokens
    PROVE  Claims(l, [q EXCEPT ![r] = [at |-> "running", covers |-> covers, tokens |-> tokens,
                                       roots |-> {}]], kn, lf)
<1> DEFINE x == [at |-> "running", covers |-> covers, tokens |-> tokens, roots |-> {}]
           p == [q EXCEPT ![r] = x]
<1>1. x \in RunningRequest /\ x.at = "running" /\ x.covers = covers /\ x.tokens = tokens /\ x.roots = {}
  BY DEF RunningRequest
<1> HIDE DEF x
<1>2. r \notin Runs(q) /\ r \notin Checks(q)  BY RequestTypes DEF Claims
<1>3. /\ Shapes(p, kn, lf) /\ p[r] = x /\ \A s \in Requests \ {r} : p[s] = q[s]
      /\ Runs(p) = Runs(q) \cup {r} /\ Checks(p) = Checks(q)
      /\ Runs(q) \subseteq Requests /\ Checks(q) \subseteq Requests
  <2>1. kn \subseteq Tokens /\ lf \subseteq Names  BY DEF Claims, Shapes
  <2>2. Typed(q) /\ p = [q EXCEPT ![r] = x]  BY DEF Claims, Shapes
  <2>3. x \in {Idle} \cup RunningRequest \cup CheckingRequest  BY <1>1
  <2> HIDE DEF p
  <2>4. /\ Typed(p) /\ p[r] = x /\ \A s \in Requests \ {r} : p[s] = q[s]
        /\ Runs(p) = (Runs(q) \ {r}) \cup (IF x.at = "running" THEN {r} ELSE {})
        /\ Checks(p) = (Checks(q) \ {r}) \cup (IF x.at = "checking" THEN {r} ELSE {})
        /\ Runs(q) \subseteq Requests /\ Checks(q) \subseteq Requests
    BY <2>2, <2>3 DEF Typed, Runs, Checks
  <2> QED  BY <1>1, <1>2, <2>1, <2>4 DEF Shapes
<1> HIDE DEF p
<1>4. Apart(p, kn, lf)  BY <1>1, <1>2, <1>3 DEF Claims, Apart, New
<1>5. Temporary(l, p)  BY <1>1, <1>2, <1>3 DEF Claims, Temporary
<1>6. Marked(l, p, lf)  BY <1>1, <1>2, <1>3 DEF Claims, Marked
<1>7. Covered(l, p)  BY <1>1, <1>2, <1>3 DEF Claims, Covered
<1> QED  BY <1>3, <1>4, <1>5, <1>6, <1>7 DEF Claims, p, x

\* A LOCK request with the token it got.
LEMMA CheckKeepsClaims ==
    ASSUME NEW l, NEW q, NEW kn, NEW lf, Claims(l, q, kn, lf), NEW r \in Requests, q[r] = Idle,
           NEW k, New(q, kn, k)
    PROVE  Claims(l, [q EXCEPT ![r] = [at |-> "checking", token |-> k]], kn, lf)
<1> DEFINE x == [at |-> "checking", token |-> k]
           p == [q EXCEPT ![r] = x]
<1>1. x \in CheckingRequest /\ x.at = "checking" /\ x.token = k
  BY DEF CheckingRequest, New
<1> HIDE DEF x
<1>2. r \notin Runs(q) /\ r \notin Checks(q)  BY RequestTypes DEF Claims
<1>3. /\ Shapes(p, kn, lf) /\ p[r] = x /\ \A s \in Requests \ {r} : p[s] = q[s]
      /\ Runs(p) = Runs(q) /\ Checks(p) = Checks(q) \cup {r}
      /\ Runs(q) \subseteq Requests /\ Checks(q) \subseteq Requests
  <2>1. kn \subseteq Tokens /\ lf \subseteq Names  BY DEF Claims, Shapes
  <2>2. Typed(q) /\ p = [q EXCEPT ![r] = x]  BY DEF Claims, Shapes
  <2>3. x \in {Idle} \cup RunningRequest \cup CheckingRequest  BY <1>1
  <2> HIDE DEF p
  <2>4. /\ Typed(p) /\ p[r] = x /\ \A s \in Requests \ {r} : p[s] = q[s]
        /\ Runs(p) = (Runs(q) \ {r}) \cup (IF x.at = "running" THEN {r} ELSE {})
        /\ Checks(p) = (Checks(q) \ {r}) \cup (IF x.at = "checking" THEN {r} ELSE {})
        /\ Runs(q) \subseteq Requests /\ Checks(q) \subseteq Requests
    BY <2>2, <2>3 DEF Typed, Runs, Checks
  <2> QED  BY <1>1, <1>2, <2>1, <2>4 DEF Shapes
<1> HIDE DEF p
<1>4. Apart(p, kn, lf)  BY <1>1, <1>2, <1>3 DEF Claims, Apart, New
<1>5. Temporary(l, p)  BY <1>1, <1>2, <1>3 DEF Claims, Temporary
<1>6. Marked(l, p, lf)  BY <1>1, <1>2, <1>3 DEF Claims, Marked
<1>7. Covered(l, p)  BY <1>1, <1>2, <1>3 DEF Claims, Covered
<1> QED  BY <1>3, <1>4, <1>5, <1>6, <1>7 DEF Claims, p, x

-----------------------------------------------------------------------------
(* Locks that are held, let go, refreshed or run out. *)

\* A write request holds the locks it confirmed.
LEMMA HoldKeepsClaims ==
    ASSUME LockConstants, NEW l, Sound(l), NEW q, NEW kn, NEW lf, Claims(l, q, kn, lf),
           NEW r \in Requests, q[r] = Idle, NEW covers \in SUBSET Names, NEW roots,
           \A n \in roots : n \in Locked(l) /\ ~l.byName[n].held /\ l.byName[n].token \in kn,
           \A n \in covers : \E root \in roots :
             root = n \/ (root \in Walk[n] /\ ~l.byName[root].zero)
    PROVE  /\ Sound(Held(l, roots))
           /\ Claims(Held(l, roots), [q EXCEPT ![r] = [at |-> "running", covers |-> covers,
                                                       tokens |-> {}, roots |-> roots]], kn, lf)
<1> DEFINE x == [at |-> "running", covers |-> covers, tokens |-> {}, roots |-> roots]
           p == [q EXCEPT ![r] = x]
           m == Held(l, roots)
<1>0. Locked(l) \subseteq Names /\ roots \subseteq Names  BY DEF Locked
<1>1. x \in RunningRequest /\ x.at = "running" /\ x.covers = covers /\ x.tokens = {} /\ x.roots = roots
  BY <1>0 DEF RunningRequest
<1> HIDE DEF x
<1>2. r \notin Runs(q) /\ r \notin Checks(q)  BY RequestTypes DEF Claims
<1>3. /\ Shapes(p, kn, lf) /\ p[r] = x /\ \A s \in Requests \ {r} : p[s] = q[s]
      /\ Runs(p) = Runs(q) \cup {r} /\ Checks(p) = Checks(q)
      /\ Runs(q) \subseteq Requests /\ Checks(q) \subseteq Requests
  <2>1. kn \subseteq Tokens /\ lf \subseteq Names  BY DEF Claims, Shapes
  <2>2. Typed(q) /\ p = [q EXCEPT ![r] = x]  BY DEF Claims, Shapes
  <2>3. x \in {Idle} \cup RunningRequest \cup CheckingRequest  BY <1>1
  <2> HIDE DEF p
  <2>4. /\ Typed(p) /\ p[r] = x /\ \A s \in Requests \ {r} : p[s] = q[s]
        /\ Runs(p) = (Runs(q) \ {r}) \cup (IF x.at = "running" THEN {r} ELSE {})
        /\ Checks(p) = (Checks(q) \ {r}) \cup (IF x.at = "checking" THEN {r} ELSE {})
        /\ Runs(q) \subseteq Requests /\ Checks(q) \subseteq Requests
    BY <2>2, <2>3 DEF Typed, Runs, Checks
  <2> QED  BY <1>1, <1>2, <2>1, <2>4 DEF Shapes
<1> HIDE DEF p
<1>4. /\ m \in Table /\ m.byToken = l.byToken
      /\ \A n \in Names : m.byName[n] = IF n \in roots THEN [l.byName[n] EXCEPT !.held = TRUE]
                                        ELSE l.byName[n]
  <2>1. l \in Table  BY DEF Sound
  <2>2. \A n \in Names : [l.byName[n] EXCEPT !.held = TRUE] \in Entry
    BY <2>1 DEF Table, Entry
  <2> QED  BY <2>1, <2>2 DEF Held, Table
<1> HIDE DEF m
<1>5. ASSUME NEW n \in Names
      PROVE  /\ m.byName[n].refs = l.byName[n].refs /\ m.byName[n].token = l.byName[n].token
             /\ m.byName[n].zero = l.byName[n].zero /\ m.byName[n].expiry = l.byName[n].expiry
             /\ m.byName[n].held <=> n \in roots \/ l.byName[n].held
             /\ n \notin roots => m.byName[n] = l.byName[n]
  <2>1. l.byName[n] \in Entry  BY DEF Sound, Table
  <2>2. CASE n \in roots
    <3>1. m.byName[n] = [l.byName[n] EXCEPT !.held = TRUE]  BY <1>4, <2>2
    <3> QED  BY <2>1, <2>2, <3>1 DEF Entry
  <2>3. CASE n \notin roots
    BY <1>4, <2>3
  <2> QED  BY <2>2, <2>3
<1>6. Same(l, m)  BY <1>4, <1>5 DEF Same
<1>7. Sound(m)  BY <1>4, <1>6, SameIsSound
<1>8. ASSUME NEW n \in roots
      PROVE  n \notin lf /\ \A s \in Runs(q) : n \notin q[s].roots
  BY <1>0 DEF Claims, Marked
<1>9. Apart(p, kn, lf)  BY <1>1, <1>2, <1>3, <1>8 DEF Claims, Apart
<1>10. Temporary(m, p)
  <2> SUFFICES ASSUME NEW s \in Runs(q), NEW k \in q[s].tokens
               PROVE  /\ m.byToken[k] # None
                      /\ ~m.byName[m.byToken[k]].held /\ m.byName[m.byToken[k]].expiry = "never"
    BY <1>1, <1>2, <1>3 DEF Temporary
  <2>1. /\ l.byToken[k] \in Locked(l) /\ l.byName[l.byToken[k]].token = k /\ l.byToken[k] # None
        /\ ~l.byName[l.byToken[k]].held /\ l.byName[l.byToken[k]].expiry = "never"
    BY ClaimedLocks DEF Claims, Temporary
  <2>2. k \notin kn  BY DEF Claims, Apart
  <2>3. l.byToken[k] \notin roots  BY <2>1, <2>2
  <2> QED  BY <1>0, <1>4, <1>5, <2>1, <2>3
<1>11. Marked(m, p, lf)  BY <1>1, <1>2, <1>3, <1>5 DEF Claims, Marked
<1>12. Covered(m, p)
  <2>1. ASSUME NEW s \in Runs(q), NEW n \in q[s].covers
        PROVE  \/ m.byName[n].token \in q[s].tokens
               \/ \E root \in q[s].roots : root = n \/ (root \in Walk[n] /\ ~m.byName[root].zero)
    <3>1. n \in Names /\ q[s].roots \subseteq Names  BY RequestTypes DEF Claims, Runs
    <3> QED  BY <3>1, <1>5 DEF Claims, Covered
  <2>2. \A n \in covers : \E root \in roots : root = n \/ (root \in Walk[n] /\ ~m.byName[root].zero)
    BY <1>0, <1>5
  <2> QED  BY <1>1, <1>2, <1>3, <2>1, <2>2 DEF Covered
<1> QED  BY <1>3, <1>7, <1>9, <1>10, <1>11, <1>12 DEF Claims, p, x, m

\* A write request is through with the locks it confirmed.
LEMMA ReleasedKeepsClaims ==
    ASSUME LockConstants, NEW l, Sound(l), NEW q, NEW kn, NEW lf, Claims(l, q, kn, lf),
           NEW r \in Runs(q), q[r].tokens = {}
    PROVE  /\ Sound(Released(l, q[r].roots))
           /\ Claims(Released(l, q[r].roots), [q EXCEPT ![r] = Idle], kn, lf)
<1> DEFINE p == [q EXCEPT ![r] = Idle]
           roots == q[r].roots
           m == Released(l, roots)
<1>0. r \in Requests /\ roots \subseteq Names /\ roots \subseteq Locked(l) /\ Locked(l) \subseteq Names
  BY RequestTypes, ClaimedLocks DEF Claims, Runs, Locked
<1>3. /\ Shapes(p, kn, lf) /\ \A s \in Requests \ {r} : p[s] = q[s]
      /\ Runs(p) = Runs(q) \ {r} /\ Checks(p) = Checks(q) \ {r}
      /\ Runs(q) \subseteq Requests /\ Checks(q) \subseteq Requests
  <2>1. kn \subseteq Tokens /\ lf \subseteq Names  BY DEF Claims, Shapes
  <2>2. Idle.at = "idle"  BY DEF Idle
  <2>3. Typed(q) /\ p = [q EXCEPT ![r] = Idle]  BY DEF Claims, Shapes
  <2> HIDE DEF p
  <2>4. /\ Typed(p) /\ \A s \in Requests \ {r} : p[s] = q[s]
        /\ Runs(p) = (Runs(q) \ {r}) \cup (IF Idle.at = "running" THEN {r} ELSE {})
        /\ Checks(p) = (Checks(q) \ {r}) \cup (IF Idle.at = "checking" THEN {r} ELSE {})
        /\ Runs(q) \subseteq Requests /\ Checks(q) \subseteq Requests
    BY <1>0, <2>3 DEF Typed, Runs, Checks
  <2> QED  BY <2>1, <2>2, <2>4 DEF Shapes
<1> HIDE DEF p
<1>4. /\ m \in Table /\ m.byToken = l.byToken
      /\ \A n \in Names : m.byName[n] = IF n \in roots THEN [l.byName[n] EXCEPT !.held = FALSE]
                                        ELSE l.byName[n]
  <2>1. l \in Table  BY DEF Sound
  <2>2. \A n \in Names : [l.byName[n] EXCEPT !.held = FALSE] \in Entry
    BY <2>1 DEF Table, Entry
  <2> HIDE DEF roots
  <2> QED  BY <2>1, <2>2 DEF Released, Table
<1>8. ASSUME NEW n \in roots
      PROVE  n \notin lf /\ \A s \in Runs(q) : s # r => n \notin q[s].roots
  BY <1>0 DEF Claims, Apart
<1>9. Apart(p, kn, lf)  BY <1>3 DEF Claims, Apart
<1>11. \A n \in Names : l.byName[n].held <=> n \in lf \/ \E s \in Runs(q) : n \in q[s].roots
  BY DEF Claims, Marked
<1> HIDE DEF m
<1>5. ASSUME NEW n \in Names
      PROVE  /\ m.byName[n].refs = l.byName[n].refs /\ m.byName[n].token = l.byName[n].token
             /\ m.byName[n].zero = l.byName[n].zero /\ m.byName[n].expiry = l.byName[n].expiry
             /\ m.byName[n].held <=> n \notin roots /\ l.byName[n].held
             /\ n \notin roots => m.byName[n] = l.byName[n]
  <2>1. l.byName[n] \in Entry  BY DEF Sound, Table
  <2>2. CASE n \in roots
    <3>1. m.byName[n] = [l.byName[n] EXCEPT !.held = FALSE]  BY <1>4, <2>2
    <3> QED  BY <2>1, <2>2, <3>1 DEF Entry
  <2>3. CASE n \notin roots
    BY <1>4, <2>3
  <2> QED  BY <2>2, <2>3
<1>6. Same(l, m)  BY <1>0, <1>4, <1>5 DEF Same
<1>7. Sound(m)  BY <1>4, <1>6, SameIsSound
<1>10. Temporary(m, p)
  <2> SUFFICES ASSUME NEW s \in Runs(q), s # r, NEW k \in q[s].tokens
               PROVE  /\ m.byToken[k] # None
                      /\ ~m.byName[m.byToken[k]].held /\ m.byName[m.byToken[k]].expiry = "never"
    BY <1>3 DEF Temporary
  <2>1. /\ l.byToken[k] \in Locked(l) /\ l.byToken[k] # None
        /\ ~l.byName[l.byToken[k]].held /\ l.byName[l.byToken[k]].expiry = "never"
    BY ClaimedLocks DEF Claims, Temporary
  <2> QED  BY <1>0, <1>4, <1>5, <2>1
<1>12. Marked(m, p, lf)
  <2> SUFFICES ASSUME NEW n \in Names
               PROVE  m.byName[n].held <=> n \in lf \/ \E s \in Runs(q) : s # r /\ n \in q[s].roots
    BY <1>3 DEF Marked
  <2>1. m.byName[n].held <=> n \notin roots /\ l.byName[n].held  BY <1>5
  <2>2. CASE n \in roots
    BY <2>1, <2>2, <1>8
  <2>3. CASE n \notin roots
    BY <2>1, <2>3, <1>11
  <2> QED  BY <2>2, <2>3
<1>13. Covered(m, p)
  <2> SUFFICES ASSUME NEW s \in Runs(q), s # r, NEW n \in q[s].covers
        PROVE  \/ m.byName[n].token \in q[s].tokens
               \/ \E root \in q[s].roots : root = n \/ (root \in Walk[n] /\ ~m.byName[root].zero)
    BY <1>3 DEF Covered
  <2>1. n \in Names /\ q[s].roots \subseteq Names  BY RequestTypes DEF Claims, Runs
  <2> QED  BY <2>1, <1>5 DEF Claims, Covered
<1> QED  BY <1>3, <1>7, <1>9, <1>10, <1>12, <1>13 DEF Claims, p, m

\* A lock that no request owns runs out or is refreshed.
LEMMA ExpiryKeepsClaims ==
    ASSUME LockConstants, NEW l, Sound(l), NEW q, NEW kn, NEW lf, Claims(l, q, kn, lf),
           NEW name \in Locked(l), NEW e \in {"never", "ahead", "past"},
           \A r \in Runs(q) : l.byName[name].token \notin q[r].tokens
    PROVE  LET m == [l EXCEPT !.byName[name].expiry = e] IN Sound(m) /\ Claims(m, q, kn, lf)
<1> DEFINE m == [l EXCEPT !.byName[name].expiry = e]
<1>0. Locked(l) \subseteq Names /\ l \in Table  BY DEF Locked, Sound
<1>1. /\ m \in Table /\ m.byToken = l.byToken
      /\ \A n \in Names : m.byName[n] = IF n = name THEN [l.byName[n] EXCEPT !.expiry = e]
                                        ELSE l.byName[n]
  <2>1. [l.byName[name] EXCEPT !.expiry = e] \in Entry  BY <1>0 DEF Table, Entry
  <2>2. m = [byName |-> [l.byName EXCEPT ![name] = [l.byName[name] EXCEPT !.expiry = e]],
             byToken |-> l.byToken]
    BY <1>0 DEF Table
  <2> HIDE DEF m
  <2> QED  BY <1>0, <2>1, <2>2 DEF Table
<1> HIDE DEF m
<1>2. ASSUME NEW n \in Names
      PROVE  /\ m.byName[n].refs = l.byName[n].refs /\ m.byName[n].token = l.byName[n].token
             /\ m.byName[n].zero = l.byName[n].zero /\ m.byName[n].held = l.byName[n].held
             /\ n # name => m.byName[n] = l.byName[n]
  <2>1. l.byName[n] \in Entry  BY <1>0 DEF Table
  <2>2. CASE n = name
    <3>1. m.byName[n] = [l.byName[n] EXCEPT !.expiry = e]  BY <1>1, <2>2
    <3> QED  BY <2>1, <2>2, <3>1 DEF Entry
  <2>3. CASE n # name
    BY <1>1, <2>3
  <2> QED  BY <2>2, <2>3
<1>3. Same(l, m)  BY <1>1, <1>2 DEF Same
<1>4. Sound(m)  BY <1>1, <1>3, SameIsSound
<1>5. Temporary(m, q)
  <2> SUFFICES ASSUME NEW s \in Runs(q), NEW k \in q[s].tokens
               PROVE  /\ m.byToken[k] # None
                      /\ ~m.byName[m.byToken[k]].held /\ m.byName[m.byToken[k]].expiry = "never"
    BY DEF Temporary
  <2>1. /\ l.byToken[k] \in Locked(l) /\ l.byName[l.byToken[k]].token = k /\ l.byToken[k] # None
        /\ ~l.byName[l.byToken[k]].held /\ l.byName[l.byToken[k]].expiry = "never"
    BY ClaimedLocks DEF Claims, Temporary
  <2>2. l.byToken[k] # name  BY <2>1
  <2> QED  BY <1>0, <1>1, <1>2, <2>1, <2>2
<1>6. Marked(m, q, lf)  BY <1>2 DEF Claims, Marked
<1>7. Covered(m, q)
  <2> SUFFICES ASSUME NEW s \in Runs(q), NEW n \in q[s].covers
        PROVE  \/ m.byName[n].token \in q[s].tokens
               \/ \E root \in q[s].roots : root = n \/ (root \in Walk[n] /\ ~m.byName[root].zero)
    BY DEF Covered
  <2>1. n \in Names /\ q[s].roots \subseteq Names  BY RequestTypes DEF Claims, Runs
  <2> QED  BY <2>1, <1>2 DEF Claims, Covered
<1> QED  BY <1>4, <1>5, <1>6, <1>7 DEF Claims, m

-----------------------------------------------------------------------------
(* The steps. *)

LockInv == Sound(Now) /\ Claims(Now, request, known, left)

LEMMA BecomesNow ==
    ASSUME NEW l \in Table, Becomes(l)
    PROVE  Now' = l
BY DEF Table, Becomes, Now

\* What every call begins with.
LEMMA CollectedNow ==
    ASSUME LockConstants, LockInv
    PROVE  /\ Sound(Collected(Now)) /\ Claims(Collected(Now), request, known, left)
           /\ Collected(Now) \in Table
<1>1. Sound(Now) /\ Claims(Now, request, known, left)  BY DEF LockInv
<1>2. Sound(Collected(Now)) /\ Claims(Collected(Now), request, known, left)
  BY <1>1, CollectedIsSound
<1> QED  BY <1>2 DEF Sound

\* A step that makes a sound table with the claims of the requests after it.
LEMMA InvAfter ==
    ASSUME NEW l, Sound(l), Becomes(l), Claims(l, request', known', left')
    PROVE  LockInv'
<1>1. Now' = l  BY BecomesNow DEF Sound
<1>2. Sound(Now') /\ Claims(Now', request', known', left')  BY <1>1
<1> QED  BY <1>2 DEF LockInv

LEMMA LockInvInit ==
    ASSUME LockConstants, Init
    PROVE  LockInv
<1>1. \A n \in Names : Now.byName[n] = Absent  BY DEF Init, Now
<1>2. Absent.token = None /\ Absent.refs = 0 /\ ~Absent.held /\ Absent \in Entry
  BY DEF Absent, Entry
<1>3. Locked(Now) = {}  BY <1>1, <1>2 DEF Locked
<1>4. Now \in Table  BY <1>2 DEF Init, Now, Table
<1>5. Matched(Now)
  <2>1. \A k \in Tokens : Now.byToken[k] = None  BY DEF Init, Now
  <2>2. Absent.expiry = "never"  BY DEF Absent
  <2> QED  BY <1>1, <1>2, <1>3, <2>1, <2>2 DEF Matched
<1>6. Counted(Now)
  <2>1. \A n : Over({}, n) = {}  BY DEF Over
  <2> QED  BY <1>1, <1>2, <1>3, <2>1, FS_EmptySet DEF Counted
<1>7. Disjoint(Now)  BY <1>3 DEF Disjoint
<1>8. Shapes(request, known, left)  BY DEF Init, Shapes, Typed
<1>9. Runs(request) = {} /\ Checks(request) = {}  BY DEF Init, Runs, Checks, Idle
<1>10. \A n \in Names : ~Now.byName[n].held /\ n \notin left  BY <1>1, <1>2 DEF Init
<1> QED
  BY <1>4, <1>5, <1>6, <1>7, <1>8, <1>9, <1>10
     DEF LockInv, Sound, Claims, Apart, Temporary, Marked, Covered

LEMMA WriteUnconditionalKeepsInv ==
    ASSUME LockConstants, LockInv, NEW r \in Requests, NEW n \in Names, NEW m \in Names,
           WriteUnconditional(r, n, m)
    PROVE  LockInv'
<1> DEFINE l == Collected(Now)
           first(k) == Created(l, n, TRUE, "never", k)
           second(k, j) == Created(first(k), m, TRUE, "never", j)
<1>0. /\ Sound(l) /\ Claims(l, request, known, left)
      /\ request[r] = Idle /\ known' = known /\ left' = left
  BY CollectedNow DEF WriteUnconditional
<1> HIDE DEF l
<1>1. \/ Becomes(l) /\ request' = request
      \/ \E k \in Fresh(l) :
           /\ CanCreate(l, n, TRUE)
           /\ \/ n = m /\ Becomes(first(k)) /\ Proceeds(r, {n}, {k}, {})
              \/ Becomes(Unlocked(first(k), k)) /\ request' = request
              \/ /\ n # m /\ CanCreate(first(k), m, TRUE)
                 /\ \E j \in Fresh(first(k)) :
                      Becomes(second(k, j)) /\ Proceeds(r, {n, m}, {k, j}, {})
  BY DEF WriteUnconditional, l
<1>2. CASE Becomes(l) /\ request' = request
  BY <1>0, <1>2, InvAfter
<1>3. ASSUME NEW k \in Fresh(l), CanCreate(l, n, TRUE)
      PROVE  /\ Sound(first(k)) /\ Claims(first(k), request, known, left)
             /\ With(l, n, k, first(k)) /\ first(k).byName[n].expiry = "never"
             /\ k \in Tokens /\ l.byToken[k] = None /\ New(request, known, k)
             /\ first(k).byToken[k] = n /\ ~first(k).byName[n].held
  <2>1. k \in Tokens /\ l.byToken[k] = None /\ New(request, known, k)
    BY FreshIsNew DEF New
  <2>2. /\ Sound(first(k)) /\ With(l, n, k, first(k)) /\ first(k).byName[n].expiry = "never"
    <3> DEFINE e == "never"
               z == TRUE
    <3>1. z \in BOOLEAN /\ e \in {"never", "ahead", "past"} /\ CanCreate(l, n, z)  BY <1>3
    <3>2. first(k) = Created(l, n, z, e, k)  OBVIOUS
    <3> HIDE DEF e, z, first
    <3>3. Sound(first(k)) /\ With(l, n, k, first(k)) /\ first(k).byName[n].expiry = e
      BY <1>0, <2>1, <3>1, <3>2, CreatedIsSound
    <3> QED  BY <3>3 DEF e
  <2> HIDE DEF first
  <2>3. Claims(first(k), request, known, left)  BY <1>0, <2>1, <2>2, WithKeepsClaims
  <2>4. first(k).byToken[k] = n  BY <1>0, <2>1, <2>2 DEF With, Sound, Table
  <2>5. ~first(k).byName[n].held  BY <1>0, <2>2 DEF With, Sound, Matched
  <2> QED  BY <2>1, <2>2, <2>3, <2>4, <2>5
<1>4. ASSUME NEW k \in Fresh(l), CanCreate(l, n, TRUE), n = m, Becomes(first(k)),
             Proceeds(r, {n}, {k}, {})
      PROVE  LockInv'
  <2>1. request' = [request EXCEPT ![r] = [at |-> "running", covers |-> {n}, tokens |-> {k}, roots |-> {}]]
    BY <1>4 DEF Proceeds
  <2> HIDE DEF first
  <2>2. /\ Sound(first(k)) /\ Claims(first(k), request, known, left) /\ k \in Tokens
        /\ first(k).byName[n].token = k /\ first(k).byName[n].expiry = "never"
        /\ first(k).byToken[k] = n /\ ~first(k).byName[n].held /\ New(request, known, k) /\ n # None
    BY <1>3, <1>4 DEF With, LockConstants
  <2>3. Claims(first(k), request', known, left)  BY <1>0, <2>1, <2>2, BeginKeepsClaims
  <2> QED  BY <1>0, <1>4, <2>2, <2>3, InvAfter
<1>5. ASSUME NEW k \in Fresh(l), CanCreate(l, n, TRUE),
             Becomes(Unlocked(first(k), k)), request' = request
      PROVE  LockInv'
  <2> HIDE DEF first
  <2>1. /\ Sound(first(k)) /\ Claims(first(k), request, known, left) /\ k \in Tokens
        /\ first(k).byToken[k] = n /\ ~first(k).byName[n].held /\ New(request, known, k)
    BY <1>3, <1>5
  <2>2. CanUnlock(first(k), k) /\ \A q \in Runs(request) : k \notin request[q].tokens
    BY <2>1 DEF CanUnlock, New, LockConstants
  <2>3. Sound(Unlocked(first(k), k)) /\ Claims(Unlocked(first(k), k), request, known, left)
    BY <2>1, <2>2, UnlockedIsSound
  <2> QED  BY <1>0, <1>5, <2>3, InvAfter
<1>6. ASSUME NEW k \in Fresh(l), CanCreate(l, n, TRUE), n # m, CanCreate(first(k), m, TRUE),
             NEW j \in Fresh(first(k)), Becomes(second(k, j)), Proceeds(r, {n, m}, {k, j}, {})
      PROVE  LockInv'
  <2>1. request' = [request EXCEPT ![r] =
                      [at |-> "running", covers |-> {n, m}, tokens |-> {k, j}, roots |-> {}]]
    BY <1>6 DEF Proceeds
  <2>2. j \in Tokens /\ first(k).byToken[j] = None /\ New(request, known, j)
    BY FreshIsNew DEF New
  <2> DEFINE one == first(k)
             two == second(k, j)
  <2>3. /\ Sound(one) /\ Claims(one, request, known, left) /\ k \in Tokens
        /\ one.byName[n].token = k /\ one.byName[n].expiry = "never"
        /\ one.byToken[k] = n /\ ~one.byName[n].held /\ New(request, known, k) /\ n # None /\ m # None
    BY <1>3, <1>6 DEF With, LockConstants
  <2> HIDE DEF first
  <2>4. Sound(two) /\ With(one, m, j, two) /\ two.byName[m].expiry = "never"
    <3> DEFINE e == "never"
               z == TRUE
    <3>1. z \in BOOLEAN /\ e \in {"never", "ahead", "past"} /\ CanCreate(one, m, z)  BY <1>6
    <3>2. two = Created(one, m, z, e, j) /\ one.byToken[j] = None  BY <2>2
    <3> HIDE DEF e, z, one, two
    <3>3. Sound(two) /\ With(one, m, j, two) /\ two.byName[m].expiry = e
      BY <2>2, <2>3, <3>1, <3>2, CreatedIsSound
    <3> QED  BY <3>3 DEF e
  <2> HIDE DEF two
  <2>5. Claims(two, request, known, left)  BY <2>2, <2>3, <2>4, WithKeepsClaims
  <2>6. one.byToken \in [Tokens -> Names \cup {None}] /\ j # k
    BY <2>2, <2>3 DEF Sound, Table
  <2>7. two.byToken[j] = m /\ two.byToken[k] = n  BY <2>2, <2>3, <2>4, <2>6 DEF With
  <2>8. /\ two.byName[n].token = k /\ two.byName[n].expiry = "never" /\ ~two.byName[n].held
        /\ two.byName[m].token = j /\ ~two.byName[m].held
    BY <1>6, <2>3, <2>4 DEF With, Sound, Matched
  <2>9. Claims(two, request', known, left)
    <3>1. {n, m} \in SUBSET Names /\ {k, j} \in SUBSET Tokens  BY <2>2, <2>3
    <3>2. \A i \in {k, j} : /\ New(request, known, i) /\ two.byToken[i] # None
                            /\ ~two.byName[two.byToken[i]].held
                            /\ two.byName[two.byToken[i]].expiry = "never"
      BY <2>2, <2>3, <2>4, <2>7, <2>8
    <3>3. \A x \in {n, m} : two.byName[x].token \in {k, j}  BY <2>8
    <3> QED  BY <1>0, <2>1, <2>5, <3>1, <3>2, <3>3, BeginKeepsClaims
  <2> QED  BY <1>0, <1>6, <2>4, <2>9, InvAfter DEF two
<1> HIDE DEF first, second
<1> QED  BY <1>1, <1>2, <1>4, <1>5, <1>6

LEMMA WriteUnlockedKeepsInv ==
    ASSUME LockConstants, LockInv, NEW r \in Requests, WriteUnlocked(r)
    PROVE  LockInv'
<1>1. request' = [request EXCEPT ![r] =
                    [at |-> "running", covers |-> {}, tokens |-> {}, roots |-> {}]]
  BY DEF WriteUnlocked, Proceeds
<1>2. Sound(Now) /\ Claims(Now, request, known, left) /\ request[r] = Idle
  BY DEF LockInv, WriteUnlocked
<1>3. Claims(Now, request', known, left)  BY <1>1, <1>2, BeginKeepsClaims
<1>4. Now' = Now /\ known' = known /\ left' = left  BY DEF WriteUnlocked, locks, Now
<1> QED  BY <1>2, <1>3, <1>4 DEF LockInv

LEMMA WriteConditionalKeepsInv ==
    ASSUME LockConstants, LockInv, NEW r \in Requests, NEW covers \in SUBSET Names, NEW conditions,
           WriteConditional(r, covers, conditions)
    PROVE  LockInv'
<1> DEFINE l == Collected(Now)
<1>0. /\ Sound(l) /\ Claims(l, request, known, left)
      /\ request[r] = Idle /\ known' = known /\ left' = left /\ conditions \subseteq known
  BY CollectedNow DEF WriteConditional
<1> HIDE DEF l
<1>1. CASE Becomes(l) /\ request' = request
  BY <1>0, <1>1, InvAfter
<1>2. ASSUME NEW roots \in [covers -> Names], \A n \in covers : roots[n] \in Confirming(l, n, conditions),
             Becomes(Held(l, {roots[n] : n \in covers})), Proceeds(r, covers, {}, {roots[n] : n \in covers})
      PROVE  LockInv'
  <2> DEFINE taken == {roots[n] : n \in covers}
  <2>1. request' = [request EXCEPT ![r] =
                      [at |-> "running", covers |-> covers, tokens |-> {}, roots |-> taken]]
    BY <1>2 DEF Proceeds
  <2>2. ASSUME NEW n \in covers
        PROVE  /\ roots[n] \in Locked(l) /\ ~l.byName[roots[n]].held
               /\ l.byName[roots[n]].token \in known
               /\ roots[n] = n \/ (roots[n] \in Walk[n] /\ ~l.byName[roots[n]].zero)
    <3>1. roots[n] \in Confirming(l, n, conditions)  BY <1>2
    <3>2. PICK k \in conditions : l.byToken[k] # None /\ roots[n] = l.byToken[k]
      BY <3>1 DEF Confirming
    <3>3. k \in Tokens /\ k \in known /\ k # None
      BY <1>0 DEF Claims, Shapes, LockConstants
    <3>4. l.byToken[k] \in Names /\ l.byName[l.byToken[k]].token = k
      BY <1>0, <3>2, <3>3 DEF Sound, Table, Matched
    <3>5. ~l.byName[roots[n]].held /\ (n = roots[n] \/ (~l.byName[roots[n]].zero /\ roots[n] \in Walk[n]))
      BY <3>1 DEF Confirming
    <3> QED  BY <3>2, <3>3, <3>4, <3>5 DEF Locked
  <2>3. \A x \in taken : x \in Locked(l) /\ ~l.byName[x].held /\ l.byName[x].token \in known
    BY <2>2
  <2>4. \A n \in covers : \E root \in taken : root = n \/ (root \in Walk[n] /\ ~l.byName[root].zero)
    BY <2>2
  <2>5. Becomes(Held(l, taken))  BY <1>2
  <2> HIDE DEF taken
  <2>6. Sound(Held(l, taken)) /\ Claims(Held(l, taken), request', known, left)
    BY <1>0, <2>1, <2>3, <2>4, HoldKeepsClaims
  <2> QED  BY <1>0, <2>5, <2>6, InvAfter
<1> QED  BY <1>1, <1>2 DEF WriteConditional, l

LEMMA ReleaseKeepsInv ==
    ASSUME LockConstants, LockInv, NEW r \in Requests, Release(r)
    PROVE  LockInv'
<1> DEFINE q == request[r]
           after == [request EXCEPT ![r] = Idle]
<1>0. /\ r \in Runs(request) /\ request' = after /\ known' = known /\ left' = left
      /\ Sound(Now) /\ Claims(Now, request, known, left)
  BY DEF Release, Running, Runs, LockInv
<1>1. CASE q.tokens # {}
  <2>1. Becomes(UnlockedAll(Collected(Now), q.tokens))  BY <1>1 DEF Release
  <2>2. Sound(Collected(Now)) /\ Claims(Collected(Now), request, known, left)  BY CollectedNow
  <2>3. q.roots = {} /\ q.tokens \subseteq Tokens
    BY <1>0, <1>1, RequestTypes DEF Claims, Apart, Runs
  <2>4. left \cup q.roots = left  BY <2>3
  <2>5. Claims(Collected(Now), after, known, left)
    <3>1. Claims(Collected(Now), after, known,
                 IF r \in Runs(request) THEN left \cup q.roots ELSE left)
      BY <2>2, EndKeepsClaims
    <3> HIDE DEF after, q
    <3> QED  BY <1>0, <2>4, <3>1
  <2>6. \A s \in Runs(after) : q.tokens \cap after[s].tokens = {}
    <3>1. request \in [Requests -> {Idle} \cup RunningRequest \cup CheckingRequest]
      BY <1>0 DEF Claims, Shapes, Typed
    <3>2. \A s \in Runs(after) : s # r /\ s \in Runs(request) /\ after[s] = request[s]
      BY <1>0, <3>1 DEF Runs, Idle
    <3> QED  BY <1>0, <3>2 DEF Claims, Apart
  <2> HIDE DEF after, q
  <2>7. Sound(UnlockedAll(Collected(Now), q.tokens))
        /\ Claims(UnlockedAll(Collected(Now), q.tokens), after, known, left)
    BY <2>2, <2>3, <2>5, <2>6, UnlockedAllIsSound
  <2> QED  BY <1>0, <2>1, <2>7, InvAfter
<1>2. CASE q.tokens = {}
  <2>1. Becomes(Released(Now, q.roots))  BY <1>2 DEF Release
  <2>2. Sound(Released(Now, q.roots)) /\ Claims(Released(Now, q.roots), after, known, left)
    BY <1>0, <1>2, ReleasedKeepsClaims
  <2> HIDE DEF after, q
  <2> QED  BY <1>0, <2>1, <2>2, InvAfter
<1> QED  BY <1>1, <1>2

LEMMA DavLockKeepsInv ==
    ASSUME LockConstants, LockInv, NEW r \in Requests, NEW n \in Names, NEW zero \in BOOLEAN,
           NEW expiry \in {"never", "ahead"}, Lock(r, n, zero, expiry)
    PROVE  LockInv'
<1> DEFINE l == Collected(Now)
<1>0. /\ Sound(l) /\ Claims(l, request, known, left)
      /\ request[r] = Idle /\ known' = known /\ left' = left
  BY CollectedNow DEF Lock
<1> HIDE DEF l
<1>1. CASE Becomes(l) /\ request' = request
  BY <1>0, <1>1, InvAfter
<1>2. ASSUME NEW k \in Fresh(l), CanCreate(l, n, zero), Becomes(Created(l, n, zero, expiry, k)),
             request' = [request EXCEPT ![r] = [at |-> "checking", token |-> k]]
      PROVE  LockInv'
  <2>1. k \in Tokens /\ l.byToken[k] = None /\ New(request, known, k)
    BY FreshIsNew DEF New
  <2> DEFINE m == Created(l, n, zero, expiry, k)
  <2>2. expiry \in {"never", "ahead", "past"}  OBVIOUS
  <2>3. Sound(m) /\ With(l, n, k, m)  BY <1>0, <1>2, <2>1, <2>2, CreatedIsSound
  <2>4. Becomes(m)  BY <1>2
  <2> HIDE DEF m
  <2>5. Claims(m, request, known, left)  BY <1>0, <2>1, <2>3, WithKeepsClaims
  <2>6. Claims(m, request', known, left)  BY <1>0, <1>2, <2>1, <2>5, CheckKeepsClaims
  <2> QED  BY <1>0, <2>3, <2>4, <2>6, InvAfter
<1> QED  BY <1>1, <1>2 DEF Lock, l

\* The client knows a token that was in the hands of its request only.
LEMMA GivenKeepsClaims ==
    ASSUME NEW l, NEW q, NEW kn, NEW lf, Claims(l, q, kn, lf), NEW r \in Checks(q)
    PROVE  Claims(l, [q EXCEPT ![r] = Idle], kn \cup {q[r].token}, lf)
<1> DEFINE p == [q EXCEPT ![r] = Idle]
           jn == kn \cup {q[r].token}
<1>1. r \in Requests /\ r \notin Runs(q) /\ q[r].token \in Tokens
  BY RequestTypes DEF Claims, Checks, Runs
<1>2. /\ Typed(p) /\ \A s \in Requests \ {r} : p[s] = q[s]
      /\ Runs(p) = Runs(q) /\ Checks(p) = Checks(q) \ {r}
      /\ Runs(q) \subseteq Requests /\ Checks(q) \subseteq Requests
  <2>1. Idle.at = "idle"  BY DEF Idle
  <2>2. Typed(q)  BY DEF Claims, Shapes
  <2> QED  BY <1>1, <2>1, <2>2 DEF Typed, Runs, Checks
<1> HIDE DEF p
<1>3. Shapes(p, jn, lf)  BY <1>1, <1>2 DEF Claims, Shapes
<1>4. Apart(p, jn, lf)  BY <1>1, <1>2 DEF Claims, Apart
<1>5. Temporary(l, p)  BY <1>1, <1>2 DEF Claims, Temporary
<1>6. Marked(l, p, lf)  BY <1>1, <1>2 DEF Claims, Marked
<1>7. Covered(l, p)  BY <1>1, <1>2 DEF Claims, Covered
<1> QED  BY <1>3, <1>4, <1>5, <1>6, <1>7 DEF Claims, p

LEMMA LockEndsKeepsInv ==
    ASSUME LockConstants, LockInv, NEW r \in Requests, NEW exists \in BOOLEAN, LockEnds(r, exists)
    PROVE  LockInv'
<1> DEFINE k == request[r].token
           l == Collected(Now)
           after == [request EXCEPT ![r] = Idle]
<1>0. /\ r \in Checks(request) /\ r \notin Runs(request) /\ request' = after /\ left' = left
      /\ Sound(Now) /\ Claims(Now, request, known, left)
  BY DEF LockEnds, Checking, Checks, Runs, LockInv
<1>1. CASE exists
  <2>1. known' = known \cup {k} /\ Now' = Now  BY <1>1 DEF LockEnds, locks, Now
  <2>2. Claims(Now, after, known \cup {k}, left)  BY <1>0, GivenKeepsClaims
  <2>3. Sound(Now') /\ Claims(Now', request', known', left')
    <3> HIDE DEF after, k
    <3> QED  BY <1>0, <2>1, <2>2
  <2> QED  BY <2>3 DEF LockInv
<1>2. CASE ~exists
  <2>1. Becomes(IF CanUnlock(l, k) THEN Unlocked(l, k) ELSE l) /\ known' = known
    BY <1>2 DEF LockEnds
  <2>2. Sound(l) /\ Claims(l, request, known, left)  BY CollectedNow
  <2>3. k \in Tokens /\ \A s \in Runs(request) : k \notin request[s].tokens
    BY <1>0, RequestTypes DEF Claims, Apart
  <2> HIDE DEF l
  <2>4. Claims(l, after, known, left)
    <3>1. Claims(l, after, known,
                 IF r \in Runs(request) THEN left \cup request[r].roots ELSE left)
      BY <2>2, EndKeepsClaims
    <3> HIDE DEF after
    <3> QED  BY <1>0, <3>1
  <2>5. \A s \in Runs(after) : k \notin after[s].tokens
    <3>1. request \in [Requests -> {Idle} \cup RunningRequest \cup CheckingRequest]
      BY <1>0 DEF Claims, Shapes, Typed
    <3>2. \A s \in Runs(after) : s # r /\ s \in Runs(request) /\ after[s] = request[s]
      BY <1>0, <3>1 DEF Runs, Idle
    <3> QED  BY <2>3, <3>2
  <2> HIDE DEF after, k
  <2>6. CanUnlock(l, k) => Sound(Unlocked(l, k)) /\ Claims(Unlocked(l, k), after, known, left)
    BY <2>2, <2>3, <2>4, <2>5, UnlockedIsSound
  <2>7. CASE CanUnlock(l, k)
    BY <1>0, <2>1, <2>6, <2>7, InvAfter
  <2>8. CASE ~CanUnlock(l, k)
    BY <1>0, <2>1, <2>2, <2>4, <2>8, InvAfter
  <2> QED  BY <2>7, <2>8
<1> QED  BY <1>1, <1>2

LEMMA DropKeepsInv ==
    ASSUME LockInv, NEW r \in Requests, Drop(r)
    PROVE  LockInv'
<1> DEFINE after == [request EXCEPT ![r] = Idle]
           rest == IF r \in Runs(request) THEN left \cup request[r].roots ELSE left
<1>1. request' = after /\ left' = rest /\ known' = known /\ Now' = Now
  BY DEF Drop, Running, Runs, locks, Now
<1>2. Sound(Now) /\ Claims(Now, request, known, left)  BY DEF LockInv
<1>3. Claims(Now, after, known, rest)  BY <1>2, EndKeepsClaims
<1> HIDE DEF after, rest
<1>4. Sound(Now') /\ Claims(Now', request', known', left')  BY <1>1, <1>2, <1>3
<1> QED  BY <1>4 DEF LockInv

\* A token that clients know belongs to no request.
LEMMA KnownIsNobodys ==
    ASSUME NEW l, NEW q, NEW kn, NEW lf, Claims(l, q, kn, lf), NEW k \in kn
    PROVE  k \in Tokens /\ \A r \in Runs(q) : k \notin q[r].tokens
BY DEF Claims, Shapes, Apart

LEMMA RefreshKeepsInv ==
    ASSUME LockConstants, LockInv, NEW k \in known, NEW expiry \in {"never", "ahead"}, Refresh(k, expiry)
    PROVE  LockInv'
<1> DEFINE l == Collected(Now)
           n == l.byToken[k]
           m == [l EXCEPT !.byName[n].expiry = expiry]
<1>1. /\ Sound(l) /\ Claims(l, request, known, left)
      /\ request' = request /\ known' = known /\ left' = left
      /\ Becomes(IF n # None /\ ~l.byName[n].held THEN m ELSE l)
  BY CollectedNow DEF Refresh
<1> HIDE DEF l
<1>2. CASE n # None /\ ~l.byName[n].held
  <2>1. k \in Tokens /\ \A r \in Runs(request) : k \notin request[r].tokens
    BY <1>1, KnownIsNobodys
  <2>2. n \in Locked(l) /\ l.byName[n].token = k
    <3>1. n \in Names /\ l.byName[n].token = k  BY <1>1, <1>2, <2>1 DEF Sound, Table, Matched
    <3> QED  BY <2>1, <3>1 DEF Locked, LockConstants
  <2>3. expiry \in {"never", "ahead", "past"}  OBVIOUS
  <2>4. Sound(m) /\ Claims(m, request, known, left)
    <3> HIDE DEF n
    <3> QED  BY <1>1, <2>1, <2>2, <2>3, ExpiryKeepsClaims
  <2>5. Becomes(m)  BY <1>1, <1>2
  <2> HIDE DEF m, n
  <2> QED  BY <1>1, <2>4, <2>5, InvAfter
<1>3. CASE ~(n # None /\ ~l.byName[n].held)
  BY <1>1, <1>3, InvAfter
<1> QED  BY <1>2, <1>3

LEMMA UnlockKeepsInv ==
    ASSUME LockConstants, LockInv, NEW k \in known, Unlock(k)
    PROVE  LockInv'
<1> DEFINE l == Collected(Now)
<1>1. /\ Sound(l) /\ Claims(l, request, known, left)
      /\ request' = request /\ known' = known /\ left' = left
      /\ Becomes(IF CanUnlock(l, k) THEN Unlocked(l, k) ELSE l)
  BY CollectedNow DEF Unlock
<1> HIDE DEF l
<1>2. k \in Tokens /\ \A r \in Runs(request) : k \notin request[r].tokens
  BY <1>1, KnownIsNobodys
<1>3. CanUnlock(l, k) => Sound(Unlocked(l, k)) /\ Claims(Unlocked(l, k), request, known, left)
  BY <1>1, <1>2, UnlockedIsSound
<1>4. CASE CanUnlock(l, k)
  BY <1>1, <1>3, <1>4, InvAfter
<1>5. CASE ~CanUnlock(l, k)
  BY <1>1, <1>5, InvAfter
<1> QED  BY <1>4, <1>5

LEMMA ForgetKeepsInv ==
    ASSUME LockInv, NEW k \in known, Forget(k)
    PROVE  LockInv'
<1>1. Now' = Now /\ request' = request /\ left' = left /\ known' = known \ {k}
  BY DEF Forget, locks, Now
<1>2. Sound(Now) /\ Claims(Now, request, known, left)  BY DEF LockInv
<1>3. Claims(Now, request, known \ {k}, left)  BY <1>2 DEF Claims, Shapes, Apart
<1>4. Sound(Now') /\ Claims(Now', request', known', left')  BY <1>1, <1>2, <1>3
<1> QED  BY <1>4 DEF LockInv

LEMMA ElapseKeepsInv ==
    ASSUME LockConstants, LockInv, NEW n \in Names, Elapse(n)
    PROVE  LockInv'
<1> DEFINE l == Now
           m == [l EXCEPT !.byName[n].expiry = "past"]
<1>1. /\ Sound(l) /\ Claims(l, request, known, left)
      /\ request' = request /\ known' = known /\ left' = left
      /\ l.byName[n].expiry = "ahead" /\ Becomes(m)
  BY DEF Elapse, LockInv, Now, Becomes
<1> HIDE DEF l
<1>2. n \in Locked(l)  BY <1>1 DEF Sound, Matched
<1>3. \A r \in Runs(request) : l.byName[n].token \notin request[r].tokens
  BY <1>1, ClaimedLocks
<1>4. "past" \in {"never", "ahead", "past"}  OBVIOUS
<1>5. Sound(m) /\ Claims(m, request, known, left)
  BY <1>1, <1>2, <1>3, <1>4, ExpiryKeepsClaims
<1> HIDE DEF m
<1> QED  BY <1>1, <1>5, InvAfter

-----------------------------------------------------------------------------
LEMMA LockInvStep ==
    ASSUME LockConstants, LockInv, [Next]_vars
    PROVE  LockInv'
<1>1. ASSUME NEW r \in Requests, NEW n \in Names, NEW m \in Names, WriteUnconditional(r, n, m)
      PROVE  LockInv'
  BY <1>1, WriteUnconditionalKeepsInv
<1>2. ASSUME NEW r \in Requests, NEW covers \in {{}} \cup OneOrTwo(Names),
             NEW conditions, WriteConditional(r, covers, conditions)
      PROVE  LockInv'
  <2>1. covers \in SUBSET Names  BY DEF OneOrTwo
  <2> QED  BY <1>2, <2>1, WriteConditionalKeepsInv
<1>12. ASSUME NEW r \in Requests, WriteUnlocked(r)
       PROVE  LockInv'
  BY <1>12, WriteUnlockedKeepsInv
<1>3. ASSUME NEW r \in Requests, NEW n \in Names, NEW zero \in BOOLEAN,
             NEW expiry \in {"never", "ahead"}, Lock(r, n, zero, expiry)
      PROVE  LockInv'
  BY <1>3, DavLockKeepsInv
<1>4. ASSUME NEW r \in Requests, NEW exists \in BOOLEAN, LockEnds(r, exists)
      PROVE  LockInv'
  BY <1>4, LockEndsKeepsInv
<1>5. ASSUME NEW r \in Requests, Release(r)
      PROVE  LockInv'
  BY <1>5, ReleaseKeepsInv
<1>6. ASSUME NEW r \in Requests, Drop(r)
      PROVE  LockInv'
  BY <1>6, DropKeepsInv
<1>7. ASSUME NEW k \in known, NEW expiry \in {"never", "ahead"}, Refresh(k, expiry)
      PROVE  LockInv'
  BY <1>7, RefreshKeepsInv
<1>8. ASSUME NEW k \in known, Unlock(k)
      PROVE  LockInv'
  BY <1>8, UnlockKeepsInv
<1>9. ASSUME NEW k \in known, Forget(k)
      PROVE  LockInv'
  BY <1>9, ForgetKeepsInv
<1>10. ASSUME NEW n \in Names, Elapse(n)
       PROVE  LockInv'
  BY <1>10, ElapseKeepsInv
<1>11. CASE UNCHANGED vars
  <2>1. /\ Now' = Now /\ request' = request /\ known' = known /\ left' = left
    BY <1>11 DEF vars, Now
  <2> QED  BY <2>1 DEF LockInv
<1> QED
  BY <1>1, <1>2, <1>3, <1>4, <1>5, <1>6, <1>7, <1>8, <1>9, <1>10, <1>11, <1>12 DEF Next

-----------------------------------------------------------------------------
(* What the invariant says of the requests. *)

\* Two paths on which requests have locks: one of two locks over the same path is
\* on it, or above it and of unlimited depth.
Covers(l, root, n) == root = n \/ (root \in Walk[n] /\ ~l.byName[root].zero)

\* No path is under two locks.
LEMMA OneCovers ==
    ASSUME LockConstants, NEW l, Disjoint(l), NEW n \in Names,
           NEW a \in Locked(l), Covers(l, a, n), NEW b \in Locked(l), Covers(l, b, n)
    PROVE  a = b
<1>1. a \in Names /\ b \in Names /\ a \in Walk[n] /\ b \in Walk[n]
  BY WalkStarts DEF Locked, Covers, LockConstants
<1>2. SUFFICES ASSUME a # b PROVE FALSE  OBVIOUS
<1>3. CASE a = n
  BY <1>1, <1>2, <1>3 DEF Covers, Disjoint
<1>4. CASE b = n
  BY <1>1, <1>2, <1>4 DEF Covers, Disjoint
<1>5. CASE a # n /\ b # n
  <2>1. ~l.byName[a].zero /\ ~l.byName[b].zero  BY <1>5 DEF Covers
  <2>2. a \in Walk[b] \/ b \in Walk[a]  BY <1>1, WalkIsChain DEF LockConstants
  <2> QED  BY <1>2, <2>1, <2>2 DEF Disjoint
<1> QED  BY <1>3, <1>4, <1>5

\* Each path of a running request is under a lock of its own.
LEMMA EachHasItsLock ==
    ASSUME LockConstants, NEW l, Sound(l), NEW q, NEW kn, NEW lf, Claims(l, q, kn, lf),
           NEW r \in Runs(q), NEW n \in q[r].covers
    PROVE  /\ n \in Names
           /\ \E root \in Locked(l) :
                /\ Covers(l, root, n)
                /\ \/ l.byName[root].token \in q[r].tokens /\ ~l.byName[root].held
                   \/ root \in q[r].roots /\ l.byName[root].held
<1>1. /\ q[r].covers \subseteq Names /\ q[r].tokens \subseteq Tokens /\ q[r].roots \subseteq Names
  BY RequestTypes DEF Claims, Runs
<1>2. CASE l.byName[n].token \in q[r].tokens
  <2>1. l.byName[n].token \in Tokens /\ n \in Locked(l)
    BY <1>1, <1>2 DEF LockConstants, Locked
  <2>2. l.byToken[l.byName[n].token] = n  BY <2>1 DEF Sound, Matched
  <2>3. ~l.byName[n].held  BY <1>2, <2>2 DEF Claims, Temporary
  <2> QED  BY <1>1, <1>2, <2>1, <2>3 DEF Covers
<1>3. CASE \E root \in q[r].roots : root = n \/ (root \in Walk[n] /\ ~l.byName[root].zero)
  <2>1. PICK root \in q[r].roots : Covers(l, root, n)  BY <1>3 DEF Covers
  <2>2. root \in Names /\ l.byName[root].held  BY <1>1 DEF Claims, Marked
  <2>3. root \in Locked(l)  BY <2>2 DEF Sound, Matched
  <2> QED  BY <1>1, <2>1, <2>2, <2>3
<1> QED  BY <1>2, <1>3 DEF Claims, Covered

LEMMA InvImpliesLocksHold ==
    ASSUME LockConstants, LockInv
    PROVE  LocksHold
<1> DEFINE l == Now
<1>1. Sound(l) /\ Claims(l, request, known, left)  BY DEF LockInv
<1>2. /\ \A n \in Names : l.byName[n] = byName[n]
      /\ \A k \in Tokens : l.byToken[k] = byToken[k]
  BY DEF Now
<1>3. Runs(request) = Running /\ Checks(request) = Checking
  BY DEF Runs, Checks, Running, Checking
<1>4. RefsExact
  BY <1>1, <1>2 DEF Sound, Counted, Over, RefsExact
<1>5. LocksDisjoint
  <2>1. Locked(Now) \subseteq Names  BY DEF Locked
  <2> QED  BY <1>1, <1>2, <2>1 DEF Sound, Disjoint, LocksDisjoint
<1> HIDE DEF l
<1>6. OneWriter
  <2> SUFFICES ASSUME NEW r \in Runs(request), NEW s \in Runs(request), r # s,
                      NEW n \in request[r].covers, n \in request[s].covers
               PROVE  FALSE
    BY <1>3 DEF OneWriter
  <2>1. PICK a \in Locked(l) :
               /\ n \in Names /\ Covers(l, a, n)
               /\ \/ l.byName[a].token \in request[r].tokens /\ ~l.byName[a].held
                  \/ a \in request[r].roots /\ l.byName[a].held
    BY <1>1, EachHasItsLock
  <2>2. PICK b \in Locked(l) :
               /\ Covers(l, b, n)
               /\ \/ l.byName[b].token \in request[s].tokens /\ ~l.byName[b].held
                  \/ b \in request[s].roots /\ l.byName[b].held
    BY <1>1, EachHasItsLock
  <2>3. a = b  BY <1>1, <2>1, <2>2, OneCovers DEF Sound
  <2>4. /\ request[r].tokens \cap request[s].tokens = {}
        /\ request[r].roots \cap request[s].roots = {}
    BY <1>1 DEF Claims, Apart
  <2> QED  BY <2>1, <2>2, <2>3, <2>4
<1>7. {n \in Names : byName[n].held} = left \cup UNION {request[r].roots : r \in Running}
  <2>1. left \subseteq Names  BY <1>1 DEF Claims, Shapes
  <2>2. \A r \in Runs(request) : request[r].roots \subseteq Names
    BY <1>1, RequestTypes DEF Claims, Runs
  <2>3. \A n \in Names : byName[n].held <=> n \in left \/ \E r \in Running : n \in request[r].roots
    BY <1>1, <1>2, <1>3 DEF Claims, Marked
  <2> QED  BY <1>3, <2>1, <2>2, <2>3
<1>8. ASSUME NEW k \in Owned
      PROVE  byToken[k] # None \/ \E r \in Checking : request[r].token = k
  <2>1. CASE k \in UNION {request[r].tokens : r \in Running}
    <3>1. PICK r \in Runs(request) : k \in request[r].tokens  BY <2>1, <1>3
    <3>2. k \in Tokens  BY <1>1, <3>1, RequestTypes DEF Claims, Runs
    <3>3. l.byToken[k] # None  BY <1>1, <3>1 DEF Claims, Temporary
    <3> QED  BY <1>2, <3>2, <3>3
  <2>2. CASE k \in {request[r].token : r \in Checking}
    BY <2>2
  <2> QED  BY <2>1, <2>2 DEF Owned
<1>9. ASSUME NEW r \in Running, NEW n \in request[r].covers
      PROVE  \E root \in Locked(Now) : root = n \/ (root \in Walk[n] /\ ~byName[root].zero)
  <2>1. PICK root \in Locked(l) : Covers(l, root, n)
    BY <1>1, <1>3, EachHasItsLock
  <2>2. root \in Names  BY DEF Locked
  <2> QED  BY <1>2, <2>1, <2>2 DEF Covers, l
<1>10. HeldWhileRunning
  BY <1>7, <1>8, <1>9 DEF HeldWhileRunning
<1> QED  BY <1>4, <1>5, <1>6, <1>10 DEF LocksHold

\* The mount's locks are what its requests rely on: each entry counts the locks on
\* it and below it, no path is under two locks, no two write requests have asked
\* locks for the same path, and a request's locks stay over the paths it asked them
\* for until it gives them back, whatever expires, is refreshed or dropped in
\* between (lock.rs:97-183, 216-232, mod.rs:173-268).  Those are the paths a request
\* changes, save for an empty path and a tagged list (mod.rs:203-205, 226-248).
THEOREM LocksStayRight ==
    ASSUME LockConstants
    PROVE  Spec => []LocksHold
<1>1. Init => LockInv  BY LockInvInit
<1>2. LockInv /\ [Next]_vars => LockInv'  BY LockInvStep
<1>3. LockInv => LocksHold  BY InvImpliesLocksHold
<1> QED  BY <1>1, <1>2, <1>3, PTL DEF Spec

\* The lock table keeps its types and its two maps agree (lock.rs:36-68).
THEOREM LocksTypeCorrect ==
    ASSUME LockConstants
    PROVE  Spec => []TypeOK
<1>1. Init => LockInv  BY LockInvInit
<1>2. LockInv /\ [Next]_vars => LockInv'  BY LockInvStep
<1>3. LockInv => TypeOK
  <2> SUFFICES ASSUME LockInv PROVE TypeOK  OBVIOUS
  <2>1. Sound(Now) /\ Shapes(request, known, left)  BY DEF LockInv, Claims
  <2>2. /\ \A n \in Names : Now.byName[n] = byName[n] /\ byName[n] \in Entry
        /\ \A k \in Tokens : Now.byToken[k] = byToken[k]
    BY <2>1 DEF Now, Sound, Table
  <2>3. \A n \in Names : byName[n].token # None => byToken[byName[n].token] = n
    BY <2>1, <2>2 DEF Sound, Matched, Locked, Entry
  <2>4. \A k \in Tokens : byToken[k] # None => byName[byToken[k]].token = k
    <3>1. \A k \in Tokens : byToken[k] # None => byToken[k] \in Names
      BY <2>1, <2>2 DEF Sound, Table
    <3> QED  BY <2>1, <2>2, <3>1 DEF Sound, Matched
  <2> QED  BY <2>1, <2>2, <2>3, <2>4 DEF TypeOK, Shapes, Entry
<1> QED  BY <1>1, <1>2, <1>3, PTL DEF Spec

-----------------------------------------------------------------------------
(* The settings. *)

\* The stages of a change of the settings, and of one of the storage alone.
SettingStages == {"store", "cap", "remember", "drop", "answer", "refresh"}
SettingChanges ==
    [at : SettingStages, alone : BOOLEAN, asked : Document, wants : Document]
StorageChoices == [at : {"storeChoice", "choice"}, alone : {FALSE}, wants : Document]

\* Every document in hand is one, and has a cap.
SettingsTypes ==
    /\ readOnly \in BOOLEAN /\ mixed \in BOOLEAN
    /\ announced \in BOOLEAN /\ refreshed \in BOOLEAN
    /\ stored \in Document /\ memory \in Document /\ cap \in Int /\ memory.cap # 0
    /\ client \in [Clients -> {NoRequest} \cup SettingChanges \cup StorageChoices]
    /\ \A c \in UnderWay : client[c].wants.cap # 0

\* A request that met no other is the only one; so is each while mixed is off.
MeetNone ==
    /\ \A c, k \in UnderWay : client[c].alone \/ ~ mixed => c = k
    /\ ~ mixed => \A c \in UnderWay : client[c] \in SettingChanges => client[c].alone

\* What is stored is what is in memory and what the cache was told; nothing else
\* is pending when the announcers were told too.
DocumentKept == Normalized(stored) = memory /\ cap = memory.cap
AllSettled == DocumentKept /\ announced = memory.dlna /\ refreshed = memory.rutor

\* How far a request that meets no other has carried its settings.
Carried(c) ==
    LET r == client[c] IN
    /\ r.at = "store" /\ ~ mixed => AllSettled
    /\ r.at \in {"cap", "remember", "drop"} /\ r.alone => stored = r.wants
    /\ r.at \in {"remember", "drop"} /\ r.alone => cap = r.wants.cap
    /\ r.at = "drop" /\ r.alone => memory = r.wants
    /\ r.at \in {"store", "cap", "remember", "drop"} => r.wants = Normalized(r.asked)
    /\ r.at = "answer" /\ r.alone => DocumentKept /\ (~ readOnly => memory.dlna = r.asked.dlna)
    /\ r.at = "refresh" /\ r.alone =>
         DocumentKept /\ r.wants = memory /\ (~ readOnly => announced = memory.dlna)
    /\ r.at = "storeChoice" /\ ~ mixed =>
         AllSettled /\ r.wants = [memory EXCEPT !.json = r.wants.json]
    /\ r.at = "choice" /\ ~ mixed =>
         /\ stored = r.wants /\ r.wants = [memory EXCEPT !.json = r.wants.json]
         /\ cap = memory.cap /\ announced = memory.dlna /\ refreshed = memory.rutor

\* In read-only mode a request changes no document, it only tells the announcers.
OnlyTells ==
    readOnly =>
      /\ DocumentKept /\ refreshed = memory.rutor
      /\ \A c \in UnderWay :
           /\ client[c].at \in {"answer", "refresh"}
           /\ client[c].at = "refresh" => client[c].wants = memory

\* The strengthening: how far each request has come is known while it is alone.
SettingsInv ==
    /\ SettingsTypes /\ MeetNone /\ OnlyTells
    /\ \A c \in UnderWay : Carried(c)
    /\ UnderWay = {} /\ ~ mixed /\ ~ readOnly => AllSettled

\* A normalized document is one, differs in its cap only, and has one.
LEMMA NormalizedIs ==
    ASSUME NEW d \in Document
    PROVE  /\ Normalized(d) \in Document
           /\ Normalized(d).cap = IF d.cap = 0 THEN Defaults.cap ELSE d.cap
           /\ Normalized(d).dlna = d.dlna /\ Normalized(d).rutor = d.rutor
           /\ Normalized(d).json = d.json
           /\ Normalized(d).cap # 0 /\ (d.cap # 0 => Normalized(d) = d)
BY SettingsAssumption DEF Normalized, Document

\* Nothing under way is no request.
LEMMA NoRequestIs == NoRequest \notin SettingChanges /\ NoRequest \notin StorageChoices
<1>1. NoRequest.at = "idle"
  BY DEF NoRequest
<1> QED  BY <1>1 DEF SettingChanges, StorageChoices, SettingStages

\* Whose turn it is tells what kind of request it is.
LEMMA TurnIs ==
    ASSUME SettingsTypes, NEW c \in Clients
    PROVE  /\ client[c].at \in SettingStages =>
                client[c] \in SettingChanges /\ client[c] # NoRequest /\ c \in UnderWay
           /\ client[c].at \in {"storeChoice", "choice"} =>
                client[c] \in StorageChoices /\ client[c] # NoRequest /\ c \in UnderWay
<1>1. client[c] \in {NoRequest} \cup SettingChanges \cup StorageChoices
  BY DEF SettingsTypes
<1>2. NoRequest.at = "idle"
  BY DEF NoRequest
<1>3. client[c] \in SettingChanges => client[c].at \in SettingStages
  BY DEF SettingChanges
<1>4. client[c] \in StorageChoices => client[c].at \in {"storeChoice", "choice"}
  BY DEF StorageChoices
<1> QED  BY <1>1, <1>2, <1>3, <1>4 DEF SettingStages, UnderWay

\* What a start makes of the stored document.
LEMMA BootSettles ==
    ASSUME NEW d \in Document \cup {Unset}
    PROVE  LET b == IF d = Unset THEN [Defaults EXCEPT !.cap = FirstCap] ELSE d IN
           /\ b \in Document /\ Booted(d) \in Document /\ Booted(d).cap # 0
           /\ Booted(d) = Normalized(b)
<1> DEFINE b == IF d = Unset THEN [Defaults EXCEPT !.cap = FirstCap] ELSE d
<1>1. b \in Document
  BY SettingsAssumption DEF Document
<1> QED  BY <1>1, NormalizedIs DEF Booted

\* A start leaves every place with the same settings.
LEMMA SettingsStarts == SettingsInit => SettingsInv
<1> SUFFICES ASSUME SettingsInit PROVE SettingsInv
  OBVIOUS
<1>1. PICK d \in Documents \cup {Unset} : BootedWith(d)
  BY DEF SettingsInit
<1>2. d \in Document \cup {Unset}
  BY SettingsAssumption
<1>3. /\ stored \in Document /\ memory \in Document /\ memory.cap # 0
      /\ memory = Normalized(stored)
  BY <1>1, <1>2, BootSettles DEF BootedWith
<1>4. UnderWay = {}
  BY DEF SettingsInit, UnderWay
<1>5. AllSettled
  BY <1>1, <1>3 DEF AllSettled, DocumentKept, BootedWith
<1>6. SettingsTypes
  BY <1>1, <1>3, <1>4, SettingsAssumption DEF SettingsTypes, BootedWith, SettingsInit, Document
<1> QED  BY <1>4, <1>5, <1>6 DEF SettingsInv, MeetNone, OnlyTells, AllSettled

\* A request that meets others has carried nothing that counts.
LEMMA ApartCarries ==
    ASSUME NEW c \in Clients, mixed', ~ client'[c].alone,
           client'[c].at \in {"store", "cap", "remember", "drop"} =>
             client'[c].wants = Normalized(client'[c].asked)
    PROVE  Carried(c)'
BY DEF Carried, Normalized

\* A request goes one stage on, and the others stay.
LEMMA OneGoesOn ==
    ASSUME NEW c \in Clients, NEW r \in SettingChanges \cup StorageChoices, SettingsTypes, MeetNone,
           \A k \in UnderWay : Carried(k),
           client[c] # NoRequest, Goes(c, r), mixed' = mixed,
           r.wants.cap # 0, r.alone = client[c].alone,
           r \in SettingChanges <=> client[c] \in SettingChanges
    PROVE  /\ client' \in [Clients -> {NoRequest} \cup SettingChanges \cup StorageChoices]
           /\ UnderWay' = UnderWay /\ c \in UnderWay /\ client'[c] = r
           /\ \A k \in UnderWay' : client'[k].wants.cap # 0
           /\ MeetNone'
           /\ \A k \in UnderWay' \ {c} : client'[k] = client[k] /\ Carried(k)'
<1>1. /\ client' = [client EXCEPT ![c] = r] /\ client'[c] = r
      /\ client' \in [Clients -> {NoRequest} \cup SettingChanges \cup StorageChoices]
      /\ \A k \in Clients \ {c} : client'[k] = client[k]
  BY DEF Goes, SettingsTypes
<1>2. UnderWay' = UnderWay /\ c \in UnderWay
  BY <1>1, NoRequestIs DEF UnderWay, NoRequest
<1>3. MeetNone'
  BY <1>1, <1>2 DEF MeetNone
<1>4. ASSUME NEW k \in UnderWay \ {c}
      PROVE  Carried(k)'
  <2>1. mixed /\ ~ client[k].alone /\ k \in Clients
    BY <1>2 DEF MeetNone, UnderWay, SettingsTypes
  <2>2. client'[k] = client[k] /\ Carried(k)
    BY <1>1, <2>1
  <2> QED  BY <2>1, <2>2, ApartCarries DEF Carried
<1> QED  BY <1>1, <1>2, <1>3, <1>4 DEF SettingsTypes, UnderWay

\* A request is through, or fails.
LEMMA OneEnds ==
    ASSUME NEW c \in Clients, SettingsTypes, MeetNone, \A k \in UnderWay : Carried(k),
           client[c] # NoRequest, Goes(c, NoRequest),
           mixed' = mixed \/ mixed' = TRUE \/ client[c].alone
    PROVE  /\ client' \in [Clients -> {NoRequest} \cup SettingChanges \cup StorageChoices]
           /\ UnderWay' = UnderWay \ {c} /\ c \in UnderWay
           /\ \A k \in UnderWay' : client'[k].wants.cap # 0
           /\ MeetNone'
           /\ \A k \in UnderWay' : client'[k] = client[k] /\ Carried(k)'
           /\ client[c].alone \/ ~ mixed => UnderWay = {c} /\ UnderWay' = {}
<1>1. /\ client' = [client EXCEPT ![c] = NoRequest] /\ client'[c] = NoRequest
      /\ client' \in [Clients -> {NoRequest} \cup SettingChanges \cup StorageChoices]
      /\ \A k \in Clients \ {c} : client'[k] = client[k]
  BY DEF Goes, SettingsTypes
<1>2. UnderWay' = UnderWay \ {c} /\ c \in UnderWay
  BY <1>1 DEF UnderWay, NoRequest
<1>3. client[c].alone \/ ~ mixed => UnderWay = {c} /\ UnderWay' = {}
  BY <1>2 DEF MeetNone
<1>4. MeetNone'
  BY <1>1, <1>2, <1>3 DEF MeetNone, UnderWay
<1>5. ASSUME NEW k \in UnderWay'
      PROVE  Carried(k)'
  <2>1. mixed /\ ~ client[k].alone /\ ~ client[c].alone /\ k \in Clients /\ k # c
    BY <1>2, <1>3 DEF MeetNone, UnderWay, SettingsTypes
  <2>2. client'[k] = client[k] /\ Carried(k)
    BY <1>1, <1>2, <2>1
  <2>3. mixed'
    BY <2>1
  <2> QED  BY <2>1, <2>2, <2>3, ApartCarries DEF Carried
<1> QED  BY <1>1, <1>2, <1>3, <1>4, <1>5 DEF SettingsTypes, UnderWay

\* A request begins: alone, or it meets others and spoils their being alone.
LEMMA OneBegins ==
    ASSUME NEW c \in Clients, NEW r \in SettingChanges \cup StorageChoices, SettingsTypes, MeetNone,
           \A k \in UnderWay : Carried(k), Begins(c, r), r.wants.cap # 0,
           r \in SettingChanges => (r.alone <=> UnderWay = {}),
           r.at = "store" => r.wants = Normalized(r.asked)
    PROVE  /\ client' \in [Clients -> {NoRequest} \cup SettingChanges \cup StorageChoices]
           /\ UnderWay' = UnderWay \cup {c} /\ client'[c] = r /\ mixed' \in BOOLEAN
           /\ ~ mixed' => ~ mixed /\ UnderWay = {}
           /\ \A k \in UnderWay' : client'[k].wants.cap # 0
           /\ MeetNone'
           /\ \A k \in UnderWay : /\ client'[k] = [client[k] EXCEPT !.alone = FALSE]
                                  /\ Carried(k)'
<1>1. ASSUME NEW k \in UnderWay
      PROVE  /\ client'[k] = [client[k] EXCEPT !.alone = FALSE]
             /\ client'[k] \in SettingChanges \cup StorageChoices
             /\ client[k] \in SettingChanges => client'[k] \in SettingChanges
             /\ client'[k].wants = client[k].wants /\ client'[k].at = client[k].at
             /\ client[k] \in SettingChanges => client'[k].asked = client[k].asked
             /\ ~ client'[k].alone /\ k # c /\ k \in Clients
  <2>1. client'[k] = [client[k] EXCEPT !.alone = FALSE] /\ k # c /\ k \in Clients
    BY DEF Begins, UnderWay
  <2>2. client[k] \in SettingChanges \cup StorageChoices
    BY DEF UnderWay, SettingsTypes
  <2> QED  BY <2>1, <2>2 DEF SettingChanges, StorageChoices
<1>2. /\ client'[c] = r /\ \A k \in Clients \ ({c} \cup UnderWay) : client'[k] = NoRequest
      /\ c \notin UnderWay
  BY DEF Begins, UnderWay
<1>3. client' \in [Clients -> {NoRequest} \cup SettingChanges \cup StorageChoices]
  <2>1. \A k \in Clients : client'[k] \in {NoRequest} \cup SettingChanges \cup StorageChoices
    BY <1>1, <1>2
  <2>2. client' = [k \in Clients |-> client'[k]]
    BY DEF Begins
  <2> QED  BY <2>1, <2>2
<1>4. UnderWay' = UnderWay \cup {c}
  BY <1>1, <1>2, NoRequestIs DEF UnderWay, NoRequest
<1>5. mixed' \in BOOLEAN /\ (UnderWay # {} => mixed') /\ (mixed => mixed')
      /\ (~ mixed' => UnderWay = {} /\ ~ mixed)
  BY DEF Begins, SettingsTypes
<1>6. MeetNone'
  <2>1. ASSUME NEW k \in UnderWay', NEW l \in UnderWay', client'[k].alone \/ ~ mixed'
        PROVE  k = l
    <3>1. k = c
      BY <1>1, <1>4, <1>5, <2>1
    <3>2. UnderWay = {}
      BY <1>2, <1>5, <2>1, <3>1 DEF StorageChoices
    <3> QED  BY <1>4, <3>2
  <2>2. ASSUME ~ mixed', NEW k \in UnderWay', client'[k] \in SettingChanges
        PROVE  client'[k].alone
    BY <1>2, <1>4, <1>5, <2>2
  <2> QED  BY <2>1, <2>2 DEF MeetNone
<1>7. ASSUME NEW k \in UnderWay
      PROVE  Carried(k)'
  <2>1. client[k] \in SettingChanges \/ client[k].at \in {"storeChoice", "choice"}
    BY DEF UnderWay, SettingsTypes, StorageChoices
  <2> QED  BY <1>1, <1>5, <2>1, ApartCarries DEF Carried
<1>8. \A k \in UnderWay' : client'[k].wants.cap # 0
  BY <1>1, <1>2, <1>4 DEF SettingsTypes
<1> QED  BY <1>1, <1>2, <1>3, <1>4, <1>5, <1>6, <1>7, <1>8

\* Every step keeps it: a request that is alone is carried one place on, one that
\* meets others counts for nothing.
LEMMA SettingsSteps == SettingsInv /\ [SettingsNext]_settingsVars => SettingsInv'
<1> SUFFICES ASSUME SettingsInv, [SettingsNext]_settingsVars PROVE SettingsInv'
  OBVIOUS
<1> USE DEF SettingsInv
<1>0. CASE UNCHANGED settingsVars
  BY <1>0 DEF settingsVars, SettingsTypes, MeetNone, OnlyTells, UnderWay, Carried, DocumentKept, AllSettled, Normalized, NoRequest
<1>1. CASE Restart
  <2> USE <1>1
  <2>1. /\ memory' \in Document /\ memory'.cap # 0 /\ stored' \in Document
        /\ memory' = Normalized(stored')
    BY BootSettles, SettingsAssumption DEF Restart, SettingsTypes
  <2>2. UnderWay' = {}
    BY DEF Restart, UnderWay, NoRequest
  <2>3. AllSettled'
    <3>1. DocumentKept'
      BY <2>1 DEF Restart, DocumentKept, Normalized
    <3> QED  BY <3>1 DEF Restart, AllSettled
  <2>4. SettingsTypes'
    <3>1. client' \in [Clients -> {NoRequest} \cup SettingChanges \cup StorageChoices]
      BY DEF Restart, NoRequest
    <3> QED  BY <2>1, <2>2, <3>1 DEF Restart, SettingsTypes, Document
  <2> QED  BY <2>2, <2>3, <2>4 DEF MeetNone, OnlyTells, AllSettled
<1>2. ASSUME NEW c \in Clients, NEW d \in Documents \cup {Defaults}, Set(c, d)
      PROVE  SettingsInv'
  <2> DEFINE r == [at |-> IF readOnly THEN "answer" ELSE "store", alone |-> UnderWay = {},
                   asked |-> d, wants |-> Normalized(d)]
  <2>1. /\ r \in SettingChanges /\ r.wants.cap # 0 /\ r.wants = Normalized(r.asked)
        /\ r.at = IF readOnly THEN "answer" ELSE "store"
    <3>1. d \in Document
      BY SettingsAssumption
    <3>2. Normalized(d) \in Document /\ Normalized(d).cap # 0
      BY <3>1, NormalizedIs
    <3> HIDE DEF Normalized
    <3> QED  BY <3>1, <3>2 DEF SettingChanges, SettingStages
  <2>2. Begins(c, r) /\ UNCHANGED <<readOnly, stored, cap, memory, announced, refreshed>>
    BY <1>2 DEF Set
  <2> HIDE DEF r
  <2>3. r.alone <=> UnderWay = {}
    BY DEF r
  <2>4. /\ client' \in [Clients -> {NoRequest} \cup SettingChanges \cup StorageChoices]
        /\ UnderWay' = UnderWay \cup {c} /\ client'[c] = r /\ mixed' \in BOOLEAN
        /\ ~ mixed' => ~ mixed /\ UnderWay = {}
        /\ \A k \in UnderWay' : client'[k].wants.cap # 0
        /\ MeetNone'
        /\ \A k \in UnderWay : client'[k] = [client[k] EXCEPT !.alone = FALSE] /\ Carried(k)'
    BY <2>1, <2>2, <2>3, OneBegins
  <2>5. SettingsTypes'
    BY <2>2, <2>4 DEF SettingsTypes
  <2>6. DocumentKept' <=> DocumentKept
    BY <2>2 DEF DocumentKept, Normalized
  <2>7. OnlyTells'
    <3>1. ASSUME readOnly, NEW k \in UnderWay
          PROVE  /\ client'[k].at \in {"answer", "refresh"}
                 /\ client'[k].at = "refresh" => client'[k].wants = memory
      <4>1. client[k] \in SettingChanges
        BY <3>1 DEF SettingsTypes, OnlyTells, UnderWay, StorageChoices
      <4> QED  BY <2>4, <3>1, <4>1 DEF OnlyTells, SettingChanges
    <3> QED  BY <2>1, <2>2, <2>4, <2>6, <3>1 DEF OnlyTells
  <2>8. Carried(c)'
    <3>1. r.at = "store" => ~ readOnly
      BY <2>1
    <3>2. r.at = "answer" => readOnly
      BY <2>1
    <3>3. r.at \in {"store", "answer"}
      BY <2>1
    <3>4. ~ mixed' /\ r.at = "store" => AllSettled'
      BY <2>2, <2>4, <2>6, <3>1 DEF AllSettled
    <3>5. r.at = "answer" => DocumentKept' /\ readOnly'
      BY <2>2, <2>6, <3>2 DEF OnlyTells
    <3>6. client'[c].wants = Normalized(client'[c].asked)
      BY <2>1, <2>4
    <3>7. client'[c] = r
      BY <2>4
    <3> HIDE DEF SettingsInv
    <3> QED  BY <3>3, <3>4, <3>5, <3>6, <3>7 DEF Carried, Normalized
  <2> QED  BY <2>4, <2>5, <2>7, <2>8
<1>3. ASSUME NEW c \in Clients, NEW json \in BOOLEAN, Choose(c, json)
      PROVE  SettingsInv'
  <2> DEFINE r == [at |-> "storeChoice", alone |-> FALSE, wants |-> [memory EXCEPT !.json = json]]
  <2>1. r \in StorageChoices /\ r.wants.cap # 0 /\ r.at = "storeChoice"
        /\ r.wants = [memory EXCEPT !.json = r.wants.json]
    BY DEF StorageChoices, SettingsTypes, Document
  <2>2. /\ Begins(c, r) /\ UNCHANGED <<readOnly, stored, cap, memory, announced, refreshed>>
        /\ ~ readOnly
    BY <1>3 DEF Choose
  <2> HIDE DEF r
  <2>3. r \notin SettingChanges
    BY <2>1 DEF SettingChanges, SettingStages
  <2>4. /\ client' \in [Clients -> {NoRequest} \cup SettingChanges \cup StorageChoices]
        /\ UnderWay' = UnderWay \cup {c} /\ client'[c] = r /\ mixed' \in BOOLEAN
        /\ ~ mixed' => ~ mixed /\ UnderWay = {}
        /\ \A k \in UnderWay' : client'[k].wants.cap # 0
        /\ MeetNone'
        /\ \A k \in UnderWay : client'[k] = [client[k] EXCEPT !.alone = FALSE] /\ Carried(k)'
    BY <2>1, <2>2, <2>3, OneBegins
  <2>5. SettingsTypes'
    BY <2>2, <2>4 DEF SettingsTypes
  <2>6. ~ mixed' => AllSettled'
    <3>1. ~ mixed' => AllSettled
      BY <2>2, <2>4
    <3> QED  BY <2>2, <3>1 DEF AllSettled, DocumentKept, Normalized
  <2>7. Carried(c)'
    BY <2>1, <2>2, <2>4, <2>6 DEF Carried
  <2> QED  BY <2>2, <2>4, <2>5, <2>7 DEF OnlyTells
<1>4. ASSUME NEW c \in Clients, Store(c)
      PROVE  SettingsInv'
  <2> DEFINE r == [client[c] EXCEPT !.at = "cap"]
  <2>1. client[c] \in SettingChanges /\ client[c] # NoRequest /\ c \in UnderWay
    BY <1>4, TurnIs DEF Store, SettingStages
  <2>2. /\ r \in SettingChanges /\ r.at = "cap" /\ r.alone = client[c].alone
        /\ r.asked = client[c].asked /\ r.wants = client[c].wants
        /\ r.wants \in Document /\ r.wants.cap # 0
    BY <2>1 DEF SettingChanges, SettingStages, SettingsTypes
  <2>3. /\ Goes(c, r) /\ stored' = r.wants /\ client[c].at = "store"
        /\ UNCHANGED <<readOnly, cap, memory, announced, refreshed, mixed>>
    BY <1>4, <2>2 DEF Store
  <2> HIDE DEF r
  <2>4. /\ client' \in [Clients -> {NoRequest} \cup SettingChanges \cup StorageChoices]
        /\ UnderWay' = UnderWay /\ c \in UnderWay /\ client'[c] = r
        /\ \A k \in UnderWay' : client'[k].wants.cap # 0
        /\ MeetNone'
        /\ \A k \in UnderWay' \ {c} : client'[k] = client[k] /\ Carried(k)'
    BY <2>1, <2>2, <2>3, OneGoesOn
  <2>5. SettingsTypes'
    BY <2>2, <2>3, <2>4 DEF SettingsTypes
  <2>6. ~ readOnly
    BY <2>1, <2>3 DEF OnlyTells
  <2>7. Carried(c)'
    <3>1. r.wants = Normalized(r.asked)
      BY <2>1, <2>2, <2>3 DEF Carried
    <3> HIDE DEF SettingsInv
    <3> QED  BY <2>2, <2>3, <2>4, <3>1 DEF Carried, Normalized
  <2> QED  BY <2>3, <2>4, <2>5, <2>6, <2>7 DEF OnlyTells
<1>5. ASSUME NEW c \in Clients, StoreFails(c)
      PROVE  SettingsInv'
  <2>1. /\ client[c] # NoRequest /\ c \in UnderWay /\ Goes(c, NoRequest)
        /\ UNCHANGED <<readOnly, stored, cap, memory, announced, refreshed, mixed>>
        /\ client[c].at \in {"store", "storeChoice"}
    BY <1>5 DEF StoreFails, NoRequest, UnderWay
  <2>2. /\ client' \in [Clients -> {NoRequest} \cup SettingChanges \cup StorageChoices]
        /\ UnderWay' = UnderWay \ {c}
        /\ \A k \in UnderWay' : client'[k].wants.cap # 0
        /\ MeetNone'
        /\ \A k \in UnderWay' : client'[k] = client[k] /\ Carried(k)'
    BY <2>1, OneEnds
  <2>3. SettingsTypes'
    BY <2>1, <2>2 DEF SettingsTypes
  <2>4. ~ mixed => AllSettled
    BY <2>1 DEF Carried
  <2>5. (DocumentKept <=> DocumentKept') /\ (AllSettled <=> AllSettled')
    BY <2>1 DEF DocumentKept, AllSettled, Normalized
  <2>6. OnlyTells'
    BY <2>1, <2>2, <2>5 DEF OnlyTells
  <2> QED  BY <2>1, <2>2, <2>3, <2>4, <2>5, <2>6
<1>6. ASSUME NEW c \in Clients, Cap(c)
      PROVE  SettingsInv'
  <2> DEFINE r == [client[c] EXCEPT !.at = "remember"]
  <2>1. client[c] \in SettingChanges /\ client[c] # NoRequest /\ c \in UnderWay
    BY <1>6, TurnIs DEF Cap, SettingStages
  <2>2. /\ r \in SettingChanges /\ r.at = "remember" /\ r.alone = client[c].alone
        /\ r.asked = client[c].asked /\ r.wants = client[c].wants
        /\ r.wants \in Document /\ r.wants.cap # 0
    BY <2>1 DEF SettingChanges, SettingStages, SettingsTypes
  <2>3. /\ Goes(c, r) /\ cap' = r.wants.cap /\ client[c].at = "cap"
        /\ UNCHANGED <<readOnly, stored, memory, announced, refreshed, mixed>>
    BY <1>6, <2>2 DEF Cap
  <2> HIDE DEF r
  <2>4. /\ client' \in [Clients -> {NoRequest} \cup SettingChanges \cup StorageChoices]
        /\ UnderWay' = UnderWay /\ c \in UnderWay /\ client'[c] = r
        /\ \A k \in UnderWay' : client'[k].wants.cap # 0
        /\ MeetNone'
        /\ \A k \in UnderWay' \ {c} : client'[k] = client[k] /\ Carried(k)'
    BY <2>1, <2>2, <2>3, OneGoesOn
  <2>5. SettingsTypes'
    BY <2>2, <2>3, <2>4 DEF SettingsTypes, Document
  <2>6. ~ readOnly
    BY <2>1, <2>3 DEF OnlyTells
  <2>7. Carried(c)'
    <3>1. /\ r.wants = Normalized(r.asked)
          /\ r.alone => stored = r.wants
      BY <2>1, <2>2, <2>3 DEF Carried
    <3> HIDE DEF SettingsInv
    <3> QED  BY <2>2, <2>3, <2>4, <3>1 DEF Carried, Normalized
  <2> QED  BY <2>3, <2>4, <2>5, <2>6, <2>7 DEF OnlyTells
<1>7. ASSUME NEW c \in Clients, Remember(c)
      PROVE  SettingsInv'
  <2> DEFINE r == [client[c] EXCEPT !.at = "drop"]
  <2>1. client[c] \in SettingChanges /\ client[c] # NoRequest /\ c \in UnderWay
    BY <1>7, TurnIs DEF Remember, SettingStages
  <2>2. /\ r \in SettingChanges /\ r.at = "drop" /\ r.alone = client[c].alone
        /\ r.asked = client[c].asked /\ r.wants = client[c].wants
        /\ r.wants \in Document /\ r.wants.cap # 0
    BY <2>1 DEF SettingChanges, SettingStages, SettingsTypes
  <2>3. /\ Goes(c, r) /\ memory' = r.wants /\ client[c].at = "remember"
        /\ UNCHANGED <<readOnly, stored, cap, announced, refreshed, mixed>>
    BY <1>7, <2>2 DEF Remember
  <2> HIDE DEF r
  <2>4. /\ client' \in [Clients -> {NoRequest} \cup SettingChanges \cup StorageChoices]
        /\ UnderWay' = UnderWay /\ c \in UnderWay /\ client'[c] = r
        /\ \A k \in UnderWay' : client'[k].wants.cap # 0
        /\ MeetNone'
        /\ \A k \in UnderWay' \ {c} : client'[k] = client[k] /\ Carried(k)'
    BY <2>1, <2>2, <2>3, OneGoesOn
  <2>5. SettingsTypes'
    BY <2>2, <2>3, <2>4 DEF SettingsTypes
  <2>6. ~ readOnly
    BY <2>1, <2>3 DEF OnlyTells
  <2>7. Carried(c)'
    <3>1. /\ r.wants = Normalized(r.asked)
          /\ r.alone => stored = r.wants /\ cap = r.wants.cap
      BY <2>1, <2>2, <2>3 DEF Carried
    <3> HIDE DEF SettingsInv
    <3> QED  BY <2>2, <2>3, <2>4, <3>1 DEF Carried, Normalized
  <2> QED  BY <2>3, <2>4, <2>5, <2>6, <2>7 DEF OnlyTells
<1>8. ASSUME NEW c \in Clients, DropAll(c)
      PROVE  SettingsInv'
  <2> DEFINE r == [client[c] EXCEPT !.at = "answer"]
  <2>1. client[c] \in SettingChanges /\ client[c] # NoRequest /\ c \in UnderWay
    BY <1>8, TurnIs DEF DropAll, SettingStages
  <2>2. /\ r \in SettingChanges /\ r.at = "answer" /\ r.alone = client[c].alone
        /\ r.asked = client[c].asked /\ r.wants = client[c].wants
        /\ r.wants \in Document /\ r.wants.cap # 0
    BY <2>1 DEF SettingChanges, SettingStages, SettingsTypes
  <2>3. /\ client[c].at = "drop"
        /\ UNCHANGED <<readOnly, stored, cap, memory, announced, refreshed>>
        /\ \/ Goes(c, r) /\ mixed' = mixed
           \/ Goes(c, NoRequest) /\ mixed'
    BY <1>8, <2>2 DEF DropAll
  <2> HIDE DEF r
  <2>4. ~ readOnly
    BY <2>1, <2>3 DEF OnlyTells
  <2>5. CASE Goes(c, r) /\ mixed' = mixed
    <3>1. /\ client' \in [Clients -> {NoRequest} \cup SettingChanges \cup StorageChoices]
          /\ UnderWay' = UnderWay /\ c \in UnderWay /\ client'[c] = r
          /\ \A k \in UnderWay' : client'[k].wants.cap # 0
          /\ MeetNone'
          /\ \A k \in UnderWay' \ {c} : client'[k] = client[k] /\ Carried(k)'
      BY <2>1, <2>2, <2>5, OneGoesOn
    <3>2. SettingsTypes'
      BY <2>2, <2>3, <2>5, <3>1 DEF SettingsTypes
    <3>3. r.alone => DocumentKept /\ memory.dlna = r.asked.dlna
      <4>1. SUFFICES ASSUME r.alone PROVE DocumentKept /\ memory.dlna = r.asked.dlna
        OBVIOUS
      <4>2. /\ stored = r.wants /\ cap = r.wants.cap /\ memory = r.wants
            /\ r.wants = Normalized(r.asked)
        BY <2>1, <2>2, <2>3, <4>1 DEF Carried
      <4>3. r.asked \in Document
        BY <2>2 DEF SettingChanges
      <4> QED  BY <2>2, <4>2, <4>3, NormalizedIs DEF DocumentKept
    <3>4. DocumentKept' <=> DocumentKept
      BY <2>3 DEF DocumentKept, Normalized
    <3>5. Carried(c)'
      BY <2>1, <2>2, <2>3, <3>1, <3>3, <3>4 DEF Carried
    <3> QED  BY <2>3, <2>4, <3>1, <3>2, <3>5 DEF OnlyTells
  <2>6. CASE Goes(c, NoRequest) /\ mixed'
    <3>1. /\ client' \in [Clients -> {NoRequest} \cup SettingChanges \cup StorageChoices]
          /\ \A k \in UnderWay' : client'[k].wants.cap # 0
          /\ MeetNone'
          /\ \A k \in UnderWay' : Carried(k)'
      BY <2>1, <2>6, OneEnds DEF DropAll, SettingsTypes
    <3>2. SettingsTypes'
      BY <2>3, <2>6, <3>1, <1>8 DEF SettingsTypes, DropAll
    <3> QED  BY <2>3, <2>4, <2>6, <3>1, <3>2 DEF OnlyTells
  <2> QED  BY <2>3, <2>5, <2>6
<1>9. ASSUME NEW c \in Clients, Announce(c)
      PROVE  SettingsInv'
  <2> DEFINE r == [client[c] EXCEPT !.at = "refresh", !.wants = memory]
  <2>1. client[c] \in SettingChanges /\ client[c] # NoRequest /\ c \in UnderWay
    BY <1>9, TurnIs DEF Announce, SettingStages
  <2>2. /\ r \in SettingChanges /\ r.at = "refresh" /\ r.alone = client[c].alone
        /\ r.wants = memory /\ r.wants.cap # 0
    BY <2>1 DEF SettingChanges, SettingStages, SettingsTypes
  <2>3. /\ Goes(c, r) /\ announced' = client[c].asked.dlna /\ client[c].at = "answer"
        /\ UNCHANGED <<readOnly, stored, cap, memory, refreshed, mixed>>
    BY <1>9 DEF Announce
  <2> HIDE DEF r
  <2>4. /\ client' \in [Clients -> {NoRequest} \cup SettingChanges \cup StorageChoices]
        /\ UnderWay' = UnderWay /\ c \in UnderWay /\ client'[c] = r
        /\ \A k \in UnderWay' : client'[k].wants.cap # 0
        /\ MeetNone'
        /\ \A k \in UnderWay' \ {c} : client'[k] = client[k] /\ Carried(k)'
    BY <2>1, <2>2, <2>3, OneGoesOn
  <2>5. SettingsTypes'
    <3>1. client[c].asked.dlna \in BOOLEAN
      BY <2>1 DEF SettingChanges, Document
    <3> QED  BY <2>3, <2>4, <3>1 DEF SettingsTypes
  <2>6. DocumentKept' <=> DocumentKept
    BY <2>3 DEF DocumentKept, Normalized
  <2>7. Carried(c)'
    BY <2>1, <2>2, <2>3, <2>4, <2>6 DEF Carried
  <2>8. OnlyTells'
    BY <2>2, <2>3, <2>4, <2>6 DEF OnlyTells
  <2> QED  BY <2>3, <2>4, <2>5, <2>7, <2>8
<1>10. ASSUME NEW c \in Clients, RefreshIndex(c)
       PROVE  SettingsInv'
  <2>1. client[c] \in SettingChanges /\ client[c] # NoRequest /\ c \in UnderWay
    BY <1>10, TurnIs DEF RefreshIndex, SettingStages
  <2>2. /\ Goes(c, NoRequest) /\ client[c].at = "refresh" /\ refreshed' = client[c].wants.rutor
        /\ mixed' = (mixed /\ ~ client[c].alone)
        /\ UNCHANGED <<readOnly, stored, cap, memory, announced>>
    BY <1>10 DEF RefreshIndex
  <2>3. client[c].alone \in BOOLEAN /\ client[c].wants.rutor \in BOOLEAN
    BY <2>1 DEF SettingChanges, Document
  <2>4. mixed' = mixed \/ mixed' = TRUE \/ client[c].alone
    BY <2>2, <2>3 DEF SettingsTypes
  <2>5. /\ client' \in [Clients -> {NoRequest} \cup SettingChanges \cup StorageChoices]
        /\ UnderWay' = UnderWay \ {c}
        /\ \A k \in UnderWay' : client'[k].wants.cap # 0
        /\ MeetNone'
        /\ \A k \in UnderWay' : client'[k] = client[k] /\ Carried(k)'
    BY <2>1, <2>2, <2>4, OneEnds
  <2>6. SettingsTypes'
    BY <2>2, <2>3, <2>5 DEF SettingsTypes
  <2>7. DocumentKept' <=> DocumentKept
    BY <2>2 DEF DocumentKept, Normalized
  <2>8. OnlyTells'
    BY <2>1, <2>2, <2>5, <2>7 DEF OnlyTells
  <2>9. ~ mixed' /\ ~ readOnly => AllSettled'
    <3>1. SUFFICES ASSUME ~ mixed', ~ readOnly PROVE AllSettled'
      OBVIOUS
    <3>2. client[c].alone
      BY <2>1, <2>2, <3>1 DEF MeetNone
    <3>3. DocumentKept /\ client[c].wants = memory /\ announced = memory.dlna
      BY <2>1, <2>2, <3>1, <3>2 DEF Carried
    <3> QED  BY <2>2, <2>7, <3>3 DEF AllSettled
  <2> QED  BY <2>2, <2>5, <2>6, <2>8, <2>9
<1>11. ASSUME NEW c \in Clients, StoreChoice(c)
       PROVE  SettingsInv'
  <2> DEFINE r == [client[c] EXCEPT !.at = "choice"]
  <2>1. client[c] \in StorageChoices /\ client[c] # NoRequest /\ c \in UnderWay
    BY <1>11, TurnIs DEF StoreChoice
  <2>2. /\ r \in StorageChoices /\ r.at = "choice" /\ r.alone = client[c].alone /\ ~ r.alone
        /\ r.wants = client[c].wants /\ r.wants \in Document /\ r.wants.cap # 0
        /\ client[c] \notin SettingChanges /\ r \notin SettingChanges
    BY <2>1 DEF StorageChoices, SettingChanges, SettingStages, SettingsTypes
  <2>3. /\ Goes(c, r) /\ stored' = r.wants /\ client[c].at = "storeChoice"
        /\ UNCHANGED <<readOnly, cap, memory, announced, refreshed, mixed>>
    BY <1>11, <2>2 DEF StoreChoice
  <2> HIDE DEF r
  <2>4. /\ client' \in [Clients -> {NoRequest} \cup SettingChanges \cup StorageChoices]
        /\ UnderWay' = UnderWay /\ c \in UnderWay /\ client'[c] = r
        /\ \A k \in UnderWay' : client'[k].wants.cap # 0
        /\ MeetNone'
        /\ \A k \in UnderWay' \ {c} : client'[k] = client[k] /\ Carried(k)'
    BY <2>1, <2>2, <2>3, OneGoesOn
  <2>5. SettingsTypes'
    BY <2>2, <2>3, <2>4 DEF SettingsTypes
  <2>6. ~ readOnly
    BY <2>1, <2>3 DEF OnlyTells
  <2>7. Carried(c)'
    BY <2>1, <2>2, <2>3, <2>4 DEF Carried, AllSettled, DocumentKept
  <2> QED  BY <2>3, <2>4, <2>5, <2>6, <2>7 DEF OnlyTells
<1>12. ASSUME NEW c \in Clients, RememberChoice(c)
       PROVE  SettingsInv'
  <2>1. client[c] \in StorageChoices /\ client[c] # NoRequest /\ c \in UnderWay
    BY <1>12, TurnIs DEF RememberChoice
  <2>2. /\ Goes(c, NoRequest) /\ client[c].at = "choice" /\ memory' = client[c].wants
        /\ UNCHANGED <<readOnly, stored, cap, announced, refreshed, mixed>>
    BY <1>12 DEF RememberChoice
  <2>3. /\ client' \in [Clients -> {NoRequest} \cup SettingChanges \cup StorageChoices]
        /\ UnderWay' = UnderWay \ {c}
        /\ \A k \in UnderWay' : client'[k].wants.cap # 0
        /\ MeetNone'
        /\ \A k \in UnderWay' : client'[k] = client[k] /\ Carried(k)'
    BY <2>1, <2>2, OneEnds
  <2>4. client[c].wants \in Document /\ client[c].wants.cap # 0
    BY <2>1 DEF StorageChoices, SettingsTypes
  <2>5. SettingsTypes'
    BY <2>2, <2>3, <2>4 DEF SettingsTypes
  <2>6. ~ readOnly
    BY <2>1, <2>2 DEF OnlyTells
  <2>7. ~ mixed => AllSettled'
    <3>1. SUFFICES ASSUME ~ mixed PROVE AllSettled'
      OBVIOUS
    <3>2. /\ stored = client[c].wants /\ client[c].wants = [memory EXCEPT !.json = client[c].wants.json]
          /\ cap = memory.cap /\ announced = memory.dlna /\ refreshed = memory.rutor
      BY <2>1, <2>2, <3>1 DEF Carried
    <3>3. /\ client[c].wants.cap = memory.cap /\ client[c].wants.dlna = memory.dlna
          /\ client[c].wants.rutor = memory.rutor
      BY <3>2 DEF SettingsTypes, Document
    <3>4. Normalized(stored') = memory'
      BY <2>2, <2>4, <3>2, NormalizedIs
    <3> QED  BY <2>2, <3>2, <3>3, <3>4 DEF AllSettled, DocumentKept, Normalized
  <2> QED  BY <2>2, <2>3, <2>5, <2>6, <2>7 DEF OnlyTells
<1> QED
  BY <1>0, <1>1, <1>2, <1>3, <1>4, <1>5, <1>6, <1>7, <1>8, <1>9, <1>10, <1>11, <1>12
     DEF SettingsNext

\* Whatever requests did to one another, the next change made alone, and a
\* restart, leave every place with the same settings, for any number of
\* requests and any settings (lib.rs:318-333, 358-388, app.rs:669-691).
THEOREM SettingsStayRight == SettingsSpec => []SettingsRight
<1>1. SettingsInv => SettingsRight
  <2>1. SettingsInv /\ readOnly => ReadOnlyKeeps
    BY DEF SettingsInv, OnlyTells, DocumentKept, ReadOnlyKeeps
  <2> QED  BY <2>1 DEF SettingsInv, SettingsRight, OneAlonePutsRight, ReadOnlyKeeps, AllSettled, DocumentKept
<1> QED  BY <1>1, SettingsStarts, SettingsSteps, PTL DEF SettingsSpec

-----------------------------------------------------------------------------
(* The data directory. *)

\* The orders in which a restore clears and moves the files.
LEMMA FilesAre ==
    /\ Len(StateFiles) = 3 /\ Len(ClearOrder) = 5 /\ Len(MoveOrder) = 4
    /\ DOMAIN StateFiles = 1 .. 3
    /\ StateFiles[1] = "accs.db" /\ StateFiles[2] = "server.pem" /\ StateFiles[3] = "server.key"
    /\ ClearOrder[1] = Database /\ ClearOrder[2] = Journal
    /\ ClearOrder[3] = "accs.db" /\ ClearOrder[4] = "server.pem" /\ ClearOrder[5] = "server.key"
    /\ MoveOrder[1] = Database
    /\ MoveOrder[2] = "accs.db" /\ MoveOrder[3] = "server.pem" /\ MoveOrder[4] = "server.key"
    /\ FileNames = {Database, Journal, "accs.db", "server.pem", "server.key"}
    /\ Database \notin {Journal, "accs.db", "server.pem", "server.key"}
    /\ Journal \notin {"accs.db", "server.pem", "server.key"}
BY DEF StateFiles, ClearOrder, MoveOrder, FileNames, Database, Journal

\* What a file may hold, and what an archive does.
FileContents == {Missing} \cup Nat \cup Commits
Archives == {a \in [FileNames -> FileContents] : a[Database] \in Commits}

\* The directory, the archives and the command under way.
DirTypes ==
    /\ dir \in [FileNames -> FileContents]
    /\ dir[Database] \in {Missing} \cup Commits /\ dir[Journal] \in {Missing} \cup Commits
    /\ backup \in {Missing} \cup Archives /\ restored \in {Missing} \cup Archives
    /\ made \in Nat
    /\ command \in {NoCommand} \cup [at : {"copying"}, next : 1 .. 4, staged : Archives]
                     \cup [at : {"clearing"}, next : 1 .. 6, staged : Archives]
                     \cup [at : {"moving"}, next : 1 .. 5, staged : Archives]

\* A file that was moved in is the archive's.
MovedIn(name) ==
    IF name = Database
      THEN dir[name] # Missing /\ dir[name].data = command.staged[name].data
      ELSE dir[name] = command.staged[name]

\* How far a restore has come, and that it is alone.
RestoreIsAlone ==
    /\ Restoring => server = "down" /\ restored = Missing
    /\ command.at = "clearing" =>
         \A i \in 1 .. 5 : i < command.next => dir[ClearOrder[i]] = Missing
    /\ command.at = "moving" =>
         /\ dir[Journal] = Missing
         /\ \A i \in 1 .. 4 : IF i < command.next THEN MovedIn(MoveOrder[i])
                                                  ELSE dir[MoveOrder[i]] = Missing

\* A server that runs has its database, and its certificate once it has made one.
ServesFiles ==
    /\ server # "down" => dir[Database] # Missing /\ restored = Missing
    /\ server = "certified" => dir["server.pem"] # Missing

\* The strengthening: a restore has cleared the files before its place, and moved
\* those before it once it moves.
DirInv == DirTypes /\ RestoreIsAlone /\ ServesFiles /\ Coherent /\ RestoredIsBackup

\* It holds of an empty directory.
LEMMA DirStarts == DirInit => DirInv
BY FilesAre DEF DirInit, DirInv, DirTypes, RestoreIsAlone, ServesFiles, Coherent, RestoredIsBackup,
                NoFiles, NoCommand, Restoring, FileContents

\* Every step of the server, of the commands and of a kill keeps it.
LEMMA DirSteps == DirInv /\ [DirNext]_dirVars => DirInv'
<1> SUFFICES ASSUME DirInv, [DirNext]_dirVars PROVE DirInv'
  OBVIOUS
<1> USE DEF DirInv
<1>0. CASE UNCHANGED dirVars
  BY <1>0 DEF dirVars, DirTypes, RestoreIsAlone, ServesFiles, Coherent, RestoredIsBackup, Restoring, MovedIn, Readable
<1>1. CASE OpenState
  <2>1. DirTypes'
    BY <1>1, FilesAre DEF OpenState, Write, DirTypes, FileContents, Commits
  <2>2. RestoreIsAlone'
    BY <1>1 DEF OpenState, RestoreIsAlone, Restoring
  <2>3. ServesFiles' /\ Coherent' /\ RestoredIsBackup'
    BY <1>1, FilesAre, DirAssumption DEF OpenState, Write, ServesFiles, Coherent, RestoredIsBackup, Commits, DirTypes
  <2> QED  BY <2>1, <2>2, <2>3
<1>2. CASE LoadPair
  BY <1>2 DEF LoadPair, Usable, DirTypes, RestoreIsAlone, Restoring, MovedIn, ServesFiles, Coherent, RestoredIsBackup, Readable
<1>3. CASE WriteCertificate
  <2>1. DirTypes'
    BY <1>3, FilesAre DEF WriteCertificate, Write, File, DirTypes, FileContents
  <2>2. RestoreIsAlone'
    BY <1>3 DEF WriteCertificate, RestoreIsAlone, Restoring
  <2>3. ServesFiles' /\ Coherent' /\ RestoredIsBackup'
    BY <1>3, FilesAre, DirAssumption DEF WriteCertificate, Write, File, ServesFiles, Coherent, RestoredIsBackup, DirTypes
  <2> QED  BY <2>1, <2>2, <2>3
<1>4. CASE WriteKey
  <2>1. DirTypes'
    BY <1>4, FilesAre DEF WriteKey, Write, File, DirTypes, FileContents
  <2>2. RestoreIsAlone'
    BY <1>4 DEF WriteKey, RestoreIsAlone, Restoring
  <2>3. ServesFiles' /\ Coherent' /\ RestoredIsBackup'
    BY <1>4, FilesAre, DirAssumption DEF WriteKey, Write, File, ServesFiles, Coherent, RestoredIsBackup, DirTypes
  <2> QED  BY <2>1, <2>2, <2>3
<1>5. CASE CommitData
  <2>1. dir[Database] \in Commits /\ Readable \in Nat
    BY <1>5 DEF CommitData, ServesFiles, DirTypes, Readable, Commits
  <2>2. DirTypes'
    BY <1>5, <2>1, FilesAre DEF CommitData, Write, File, DirTypes, FileContents, Commits
  <2>3. RestoreIsAlone'
    BY <1>5 DEF CommitData, RestoreIsAlone, Restoring
  <2>4. ServesFiles' /\ Coherent' /\ RestoredIsBackup'
    BY <1>5, <2>1, FilesAre, DirAssumption DEF CommitData, Write, File, ServesFiles, Coherent, RestoredIsBackup, DirTypes
  <2> QED  BY <2>2, <2>3, <2>4
<1>6. CASE Checkpoint
  <2>1. dir[Database] \in Commits /\ dir[Journal] \in Commits /\ Readable \in Nat
    BY <1>6 DEF Checkpoint, ServesFiles, DirTypes, Readable, Commits
  <2>2. [dir[Database] EXCEPT !.data = Readable] \in Commits
        /\ [dir[Database] EXCEPT !.data = Readable].life = dir[Database].life
    BY <2>1 DEF Commits
  <2>3. /\ server = "up" /\ UNCHANGED <<command, backup, restored, made>>
        /\ server' \in {"up", "down"}
        /\ dir' \in [FileNames -> FileContents]
        /\ dir'[Database] = [dir[Database] EXCEPT !.data = Readable]
        /\ dir'[Journal] \in {Missing, dir[Journal]}
        /\ \A n \in FileNames \ {Database, Journal} : dir'[n] = dir[n]
    <3>1. CASE Write(File(Database, [dir[Database] EXCEPT !.data = Readable])) /\ server' = "up"
      <4>1. dir' = [n \in FileNames |->
                      IF n = Database THEN [dir[Database] EXCEPT !.data = Readable] ELSE dir[n]]
        BY <3>1 DEF Write, File
      <4> QED  BY <1>6, <2>2, <3>1, <4>1, FilesAre DEF Checkpoint, DirTypes, FileContents
    <3>2. CASE /\ Write([n \in {Database, Journal} |->
                      IF n = Database THEN [dir[Database] EXCEPT !.data = Readable] ELSE Missing])
               /\ server' = "down"
      <4>1. dir' = [n \in FileNames |->
                      IF n = Database THEN [dir[Database] EXCEPT !.data = Readable]
                      ELSE IF n = Journal THEN Missing ELSE dir[n]]
        BY <3>2, FilesAre DEF Write
      <4> QED  BY <1>6, <2>2, <3>2, <4>1, FilesAre DEF Checkpoint, DirTypes, FileContents
    <3> QED  BY <1>6, <3>1, <3>2 DEF Checkpoint
  <2>4. DirTypes'
    BY <2>1, <2>2, <2>3 DEF DirTypes
  <2>5. restored = Missing /\ ~ Restoring /\ dir["server.pem"] = dir["server.key"]
    BY <2>3 DEF ServesFiles, RestoreIsAlone, Coherent
  <2>6. RestoreIsAlone'
    BY <2>3, <2>5 DEF RestoreIsAlone, Restoring
  <2>7. dir'[Database] # Missing
    BY <2>2, <2>3, DirAssumption
  <2>8. ServesFiles' /\ Coherent' /\ RestoredIsBackup'
    BY <2>2, <2>3, <2>5, <2>7, FilesAre DEF ServesFiles, Coherent, RestoredIsBackup
  <2> QED  BY <2>4, <2>6, <2>8
<1>7. CASE Killed
  BY <1>7 DEF Killed, DirTypes, RestoreIsAlone, Restoring, MovedIn, ServesFiles, Coherent, RestoredIsBackup, Readable
<1>8. CASE Snapshot
  <2>1. [NoFiles EXCEPT ![Database] = [life |-> 0, data |-> Readable]] \in Archives
    BY <1>8, FilesAre DEF Snapshot, NoFiles, Archives, DirTypes, FileContents, Commits, Readable
  <2>2. DirTypes'
    BY <1>8, <2>1 DEF Snapshot, DirTypes
  <2> QED  BY <1>8, <2>2 DEF Snapshot, RestoreIsAlone, Restoring, ServesFiles, Coherent, RestoredIsBackup, Readable
<1>9. CASE CopyFile
  <2>1. command \in [at : {"copying"}, next : 1 .. 4, staged : Archives]
    BY <1>9 DEF CopyFile, DirTypes, NoCommand
  <2>2. command.next \in 1 .. 3 /\ StateFiles[command.next] \in FileNames \ {Database}
    BY <1>9, <2>1, FilesAre DEF CopyFile
  <2> DEFINE name == StateFiles[command.next]
             staged == [command.staged EXCEPT ![name] = dir[name]]
  <2>3. staged \in Archives
    <3>1. name \in FileNames \ {Database} /\ dir[name] \in FileContents
      BY <2>2 DEF DirTypes
    <3>2. command.staged \in Archives
      BY <2>1
    <3> HIDE DEF name
    <3>3. command.staged \in [FileNames -> FileContents] /\ command.staged[Database] \in Commits
      BY <3>2 DEF Archives
    <3>4. Database \in FileNames /\ Database # name
      BY <3>1, FilesAre
    <3>5. staged \in [FileNames -> FileContents] /\ staged[Database] = command.staged[Database]
      BY <3>1, <3>3, <3>4
    <3> HIDE DEF staged
    <3> QED  BY <3>3, <3>5 DEF Archives
  <2>4. command' \in [at : {"copying"}, next : 1 .. 4, staged : Archives]
    <3>1. command' = [command EXCEPT !.next = @ + 1, !.staged = staged]
      BY <1>9, <2>1 DEF CopyFile
    <3> HIDE DEF staged
    <3>2. PICK i \in 1 .. 4, old \in Archives :
            command = [at |-> "copying", next |-> i, staged |-> old]
      BY <2>1
    <3>3. command' = [at |-> "copying", next |-> i + 1, staged |-> staged]
      BY <3>1, <3>2
    <3>4. i + 1 \in 1 .. 4
      BY <2>2, <3>2
    <3> QED  BY <2>3, <3>3, <3>4
  <2>5. DirTypes' /\ command'.at = "copying"
    BY <1>9, <2>4 DEF CopyFile, DirTypes
  <2> QED  BY <1>9, <2>5 DEF CopyFile, RestoreIsAlone, Restoring, ServesFiles, Coherent, RestoredIsBackup, Readable
<1>10. CASE Persist
  <2>1. command.staged \in Archives
    BY <1>10 DEF Persist, DirTypes, NoCommand
  <2> QED  BY <1>10, <2>1 DEF Persist, DirTypes, NoCommand, RestoreIsAlone, Restoring, ServesFiles, Coherent, RestoredIsBackup, Readable
<1>11. ASSUME NEW force \in BOOLEAN, Unpack(force)
       PROVE  DirInv'
  <2>1. DirTypes'
    BY <1>11 DEF Unpack, DirTypes
  <2> QED  BY <1>11, <2>1 DEF Unpack, RestoreIsAlone, Restoring, ServesFiles, Coherent, RestoredIsBackup, Readable
<1>12. CASE ClearFile
  <2>1. command \in [at : {"clearing"}, next : 1 .. 6, staged : Archives]
    BY <1>12 DEF ClearFile, DirTypes, NoCommand
  <2>2. server = "down" /\ restored = Missing
    BY <1>12 DEF ClearFile, RestoreIsAlone, Restoring
  <2>3. CASE command.next <= 5
    <3>1. /\ Write(File(ClearOrder[command.next], Missing))
          /\ command' = [command EXCEPT !.next = @ + 1]
          /\ UNCHANGED <<server, backup, restored, made>>
      BY <1>12, <2>3, FilesAre DEF ClearFile
    <3>2. command.next \in 1 .. 5 /\ ClearOrder[command.next] \in FileNames
      BY <2>1, <2>3, FilesAre
    <3>3. /\ command' \in [at : {"clearing"}, next : 1 .. 6, staged : Archives]
          /\ command'.at = "clearing" /\ command'.next = command.next + 1
      BY <2>1, <3>1, <3>2
    <3>4. dir' = [n \in FileNames |-> IF n = ClearOrder[command.next] THEN Missing ELSE dir[n]]
      BY <3>1 DEF Write, File
    <3>5. DirTypes'
      BY <3>1, <3>3, <3>4, FilesAre DEF DirTypes, FileContents
    <3>6. \A i \in 1 .. 5 : i < command'.next => dir'[ClearOrder[i]] = Missing
      BY <1>12, <2>1, <3>2, <3>3, <3>4, FilesAre DEF RestoreIsAlone, ClearFile
    <3>7. RestoreIsAlone'
      BY <2>2, <3>1, <3>3, <3>6 DEF RestoreIsAlone, Restoring
    <3> QED  BY <2>2, <3>1, <3>4, <3>5, <3>7, FilesAre DEF ServesFiles, Coherent, RestoredIsBackup
  <2>4. CASE command.next = 6
    <3>1. command' = [command EXCEPT !.at = "moving", !.next = 1] /\ UNCHANGED <<dir, server, backup, restored, made>>
      BY <1>12, <2>4, FilesAre DEF ClearFile
    <3>2. /\ command' \in [at : {"moving"}, next : 1 .. 5, staged : Archives]
          /\ command'.at = "moving" /\ command'.next = 1
      <4>1. command = [at |-> "clearing", next |-> command.next, staged |-> command.staged]
            /\ command.staged \in Archives
        BY <2>1
      <4>2. command' = [at |-> "moving", next |-> 1, staged |-> command.staged]
        BY <3>1, <4>1
      <4> QED  BY <4>1, <4>2
    <3>3. DirTypes'
      BY <3>1, <3>2 DEF DirTypes
    <3>4. \A i \in 1 .. 5 : dir[ClearOrder[i]] = Missing
      BY <1>12, <2>4 DEF RestoreIsAlone, ClearFile
    <3>5. dir[Journal] = Missing /\ \A i \in 1 .. 4 : dir[MoveOrder[i]] = Missing
      BY <3>4, FilesAre
    <3>6. RestoreIsAlone'
      BY <2>2, <3>1, <3>2, <3>5 DEF RestoreIsAlone, Restoring
    <3> QED  BY <2>2, <3>1, <3>3, <3>6 DEF ServesFiles, Coherent, RestoredIsBackup
  <2> QED  BY <2>1, <2>3, <2>4
<1>13. CASE MoveIn
  <2> DEFINE name == MoveOrder[command.next]
             moved == command.staged[name]
  <2>1. /\ command \in [at : {"moving"}, next : 1 .. 5, staged : Archives]
        /\ command.next \in 1 .. 4 /\ command.at = "moving"
    BY <1>13, FilesAre DEF MoveIn, DirTypes, NoCommand
  <2>2. server = "down" /\ restored = Missing /\ dir[Journal] = Missing
    BY <2>1 DEF RestoreIsAlone, Restoring
  <2>3. /\ command' \in [at : {"moving"}, next : 1 .. 5, staged : Archives]
        /\ command'.at = "moving" /\ command'.next = command.next + 1
        /\ command'.staged = command.staged
    BY <1>13, <2>1 DEF MoveIn
  <2>4. /\ command.staged \in [FileNames -> FileContents] /\ command.staged[Database] \in Commits
        /\ name \in FileNames \ {Journal} /\ (name = Database <=> command.next = 1)
    BY <2>1, FilesAre DEF Archives
  <2>5. UNCHANGED <<server, backup, restored>>
    BY <1>13 DEF MoveIn
  <2>6. /\ dir' \in [FileNames -> FileContents] /\ dir'[Database] \in {Missing} \cup Commits
        /\ \A n \in FileNames \ {name} : dir'[n] = dir[n]
        /\ made' \in Nat
        /\ IF name = Database THEN dir'[name] # Missing /\ dir'[name].data = moved.data
                              ELSE dir'[name] = moved
    <3>1. CASE name = Database
      <4> DEFINE new == [moved EXCEPT !.life = made + 1]
      <4>1. new \in Commits /\ new.data = moved.data /\ made + 1 \in Nat
        BY <2>4, <3>1 DEF Commits, DirTypes
      <4>2. made' = made + 1 /\ dir' = [n \in FileNames |-> IF n = Database THEN new ELSE dir[n]]
        BY <1>13, <2>4, <3>1, DirAssumption DEF MoveIn, Write, File
      <4>3. new \in FileContents /\ new # Missing
        BY <4>1, DirAssumption DEF FileContents
      <4>4. dir \in [FileNames -> FileContents]
        BY DEF DirTypes
      <4>5. moved.data = command.staged[name].data
        OBVIOUS
      <4> HIDE DEF new, name, moved
      <4> QED  BY <2>4, <3>1, <4>1, <4>2, <4>3, <4>4
    <3>2. CASE name # Database /\ moved = Missing
      <4>1. Write(<<>>) /\ made' = made
        BY <1>13, <3>2 DEF MoveIn
      <4>2. dir' = [n \in FileNames |-> dir[n]]
        BY <4>1 DEF Write
      <4>3. dir[name] = Missing
        BY <2>1 DEF RestoreIsAlone
      <4> QED  BY <2>4, <3>2, <4>1, <4>2, <4>3 DEF DirTypes
    <3>3. CASE name # Database /\ moved # Missing
      <4>1. Write(File(name, moved)) /\ made' = made
        BY <1>13, <3>3 DEF MoveIn
      <4>2. dir' = [n \in FileNames |-> IF n = name THEN moved ELSE dir[n]]
        BY <4>1 DEF Write, File
      <4> QED  BY <2>4, <3>3, <4>1, <4>2, FilesAre DEF DirTypes
    <3> QED  BY <3>1, <3>2, <3>3
  <2>7. DirTypes'
    BY <2>2, <2>3, <2>4, <2>5, <2>6, FilesAre DEF DirTypes
  <2>8. dir'[Journal] = Missing
    BY <2>2, <2>4, <2>6, FilesAre
  <2>9. ASSUME NEW i \in 1 .. 4
        PROVE  IF i < command'.next THEN MovedIn(MoveOrder[i])' ELSE dir'[MoveOrder[i]] = Missing
    <3>1. CASE i = command.next
      BY <2>3, <2>6, <3>1 DEF MovedIn
    <3>2. CASE i # command.next
      <4>1. MoveOrder[i] # name /\ MoveOrder[i] \in FileNames
        BY <2>1, <3>2, FilesAre
      <4>2. IF i < command.next THEN MovedIn(MoveOrder[i]) ELSE dir[MoveOrder[i]] = Missing
        BY <2>1 DEF RestoreIsAlone
      <4> QED  BY <2>1, <2>3, <2>6, <3>2, <4>1, <4>2 DEF MovedIn
    <3> QED  BY <3>1, <3>2
  <2>10. RestoreIsAlone'
    BY <2>2, <2>3, <2>5, <2>8, <2>9 DEF RestoreIsAlone, Restoring
  <2> QED  BY <2>2, <2>5, <2>7, <2>8, <2>10 DEF ServesFiles, Coherent, RestoredIsBackup
<1>14. CASE RestoreDone
  <2>1. /\ command \in [at : {"moving"}, next : 1 .. 5, staged : Archives] /\ command.next = 5
        /\ command.at = "moving"
    BY <1>14, FilesAre DEF RestoreDone, DirTypes, NoCommand
  <2>2. /\ server = "down" /\ dir[Journal] = Missing
        /\ \A i \in 1 .. 4 : MovedIn(MoveOrder[i])
    BY <2>1 DEF RestoreIsAlone, Restoring
  <2>3. restored' = command.staged /\ command' = NoCommand /\ UNCHANGED <<dir, server, backup, made>>
    BY <1>14 DEF RestoreDone
  <2>4. DirTypes'
    BY <2>1, <2>3 DEF DirTypes
  <2>5. RestoredIsBackup'
    <3>1. MovedIn(Database) /\ MovedIn("accs.db") /\ MovedIn("server.pem") /\ MovedIn("server.key")
      BY <2>2, FilesAre
    <3> QED  BY <2>2, <2>3, <3>1, FilesAre DEF RestoredIsBackup, MovedIn, Readable
  <2> QED  BY <2>2, <2>3, <2>4, <2>5 DEF RestoreIsAlone, Restoring, NoCommand, ServesFiles, Coherent
<1>15. CASE SetPassword
  <2>1. DirTypes'
    BY <1>15, FilesAre DEF SetPassword, Write, File, DirTypes, FileContents
  <2>2. RestoreIsAlone'
    BY <1>15 DEF SetPassword, RestoreIsAlone, Restoring
  <2>3. ServesFiles' /\ Coherent' /\ RestoredIsBackup'
    BY <1>15, FilesAre, DirAssumption DEF SetPassword, Write, File, ServesFiles, Coherent, RestoredIsBackup, DirTypes
  <2> QED  BY <2>1, <2>2, <2>3
<1>16. CASE CommandFails
  BY <1>16 DEF CommandFails, DirTypes, NoCommand, RestoreIsAlone, Restoring, ServesFiles, Coherent, RestoredIsBackup, Readable
<1> QED
  BY <1>0, <1>1, <1>2, <1>3, <1>4, <1>5, <1>6, <1>7, <1>8, <1>9, <1>10, <1>11, <1>12, <1>13,
     <1>14, <1>15, <1>16 DEF DirNext

\* Wherever the server, a backup or a restore was cut off, a journal lies beside
\* its own database, a server that is up has the key of its certificate, and a
\* restored directory is the backup and nothing else, for any number of commits
\* and of lives of the files (maintenance.rs:133-200, tls.rs:78-93).
THEOREM DirStaysRight == DirSpec => []DirRight
<1>1. DirInv => DirRight
  BY DEF DirInv, DirRight
<1> QED  BY <1>1, DirStarts, DirSteps, PTL DEF DirSpec

-----------------------------------------------------------------------------
(* The watched directory. *)

\* What the watcher holds: the file it read is still there, and the one it is to
\* delete is one whose torrent was admitted.
WatcherKnows ==
    \/ watcher.at \in {"sleeps", "looks"}
    \/ watcher.at = "loads" /\ watcher.path \in Paths
    \/ /\ watcher.at = "read" /\ watcher.path \in Paths
       /\ torrentFile[watcher.path] = watcher.bytes
    \/ /\ watcher.at = "added" /\ watcher.path \in Paths
       /\ \/ torrentFile[watcher.path] = NotThere
          \/ torrentFile[watcher.path].content \in admitted

\* What was admitted is saved, if anything is, and nothing was lost so far that was.
AutoloadInv ==
    /\ WatcherKnows /\ DOMAIN torrentFile = Paths
    /\ lost \subseteq admitted
    /\ persists => admitted \subseteq saved /\ lost = {}

\* It holds at the start.
LEMMA AutoloadStarts == AutoloadInit => AutoloadInv
BY DEF AutoloadInit, AutoloadInv, WatcherKnows, Sleeps

\* The watcher goes on to the next file, or sleeps.
LEMMA ContinueAt ==
    ASSUME NEW listed
    PROVE  Continue(listed).at \in {"sleeps", "looks"}
BY DEF Continue, Sleeps, Looks

\* Every step keeps it, as long as nobody else touches the file it is loading.
LEMMA AutoloadSteps ==
    ASSUME Untouched, AutoloadInv, [AutoloadNext]_autoloadVars
    PROVE  AutoloadInv'
<1> USE DEF AutoloadInv
<1>0. CASE UNCHANGED autoloadVars
  BY <1>0 DEF autoloadVars, WatcherKnows
<1>1. ASSUME NEW p \in Paths, NEW c \in Contents, NEW whole \in BOOLEAN, Put(p, c, whole)
      PROVE  AutoloadInv'
  BY <1>1 DEF Put, Loads, WatcherKnows
<1>2. ASSUME NEW p \in Paths, TakeAway(p)
      PROVE  AutoloadInv'
  BY <1>2 DEF TakeAway, Loads, WatcherKnows
<1>3. ASSUME NEW p \in Paths, Look(p)
      PROVE  AutoloadInv'
  BY <1>3, ContinueAt DEF Look, WatcherKnows
<1>4. CASE Poll
  BY <1>4 DEF Poll, Looks, WatcherKnows
<1>5. CASE Wakes
  BY <1>5 DEF Wakes, Sleeps, WatcherKnows
<1>6. CASE ReadFile
  BY <1>6, ContinueAt DEF ReadFile, WatcherKnows
<1>7. CASE AddMetainfo
  BY <1>7, ContinueAt DEF AddMetainfo, PersistTorrent, WatcherKnows
<1>8. CASE Delete
  <2>1. watcher.path \in Paths
        /\ (torrentFile[watcher.path] = NotThere \/ torrentFile[watcher.path].content \in admitted)
    BY <1>8 DEF Delete, WatcherKnows
  <2> QED  BY <1>8, <2>1, ContinueAt DEF Delete, WatcherKnows
<1> QED  BY <1>0, <1>1, <1>2, <1>3, <1>4, <1>5, <1>6, <1>7, <1>8 DEF AutoloadNext

\* A .torrent file is deleted only when its torrent was added, and unless the
\* server is read-only that one is saved, for any number of files and whatever
\* else fails, as long as nobody else touches the file between the second look
\* and the delete (autoload.rs:26-74, lib.rs:560-575).
THEOREM DeletedIsAlwaysSaved ==
    ASSUME Untouched PROVE AutoloadSpec => []DeletedIsSaved
<1>1. AutoloadInv => DeletedIsSaved
  BY DEF AutoloadInv, DeletedIsSaved
<1> QED  BY <1>1, AutoloadStarts, AutoloadSteps, PTL DEF AutoloadSpec

-----------------------------------------------------------------------------
(* The Rutor database. *)

\* The file, the part and the tasks, and what no search works on.
RutorTypes ==
    /\ on \in BOOLEAN /\ site \in Versions
    /\ rutorFile \in [copy : Copies, fresh : BOOLEAN] /\ part \in Copies
    /\ updater \in [at : {"none", "check", "write", "rename", "load", "sleep"},
                    first : BOOLEAN, has : Copies]
    /\ stray \in [at : {"none", "write", "part", "file", "rename", "load"},
                  first : BOOLEAN, has : Copies]
    /\ strayed \in BOOLEAN
    /\ on <=> updater.at # "none"
    /\ loaded \notin {Cut, 0}

\* A step of an aborted task is noted, and a task behind its first round has
\* loaded what the file holds.
UpdaterFollows ==
    /\ stray.at # "none" => strayed
    /\ ~ on /\ ~ strayed => loaded = NoCopy
    /\ updater.at = "sleep" => ~ updater.first
    /\ (updater.at \in {"check", "write", "rename", "sleep"} /\ ~ updater.first /\ ~ strayed
        /\ rutorFile.copy \notin {NoCopy, Cut, 0}) => loaded = rutorFile.copy
    /\ updater.at = "rename" /\ ~ strayed => part = updater.has

\* The strengthening.
RutorInv == RutorTypes /\ UpdaterFollows

\* A load takes a copy that decodes.
LEMMA LoadTakes ==
    ASSUME NEW copy, loaded \notin {Cut, 0}
    PROVE  /\ Loaded(copy) \notin {Cut, 0}
           /\ copy \notin {NoCopy, Cut, 0} => Loaded(copy) = copy
BY DEF Loaded

\* What a copy may be.
LEMMA CopiesAre == Cut \in Copies /\ NoCopy \in Copies /\ Versions \subseteq Copies /\ Cut # 0 /\ NoCopy \notin {Cut, 0}
               /\ NoTask.at = "none" /\ NoTask.first = FALSE /\ NoTask.has = NoCopy
BY RutorAssumption DEF Cut, Copies, NoTask

\* It holds at the start.
LEMMA RutorStarts == RutorInit => RutorInv
BY CopiesAre DEF RutorInit, RutorInv, RutorTypes, UpdaterFollows, NoTask

\* A round that took nothing goes on.
LEMMA OtherwiseIs ==
    ASSUME RutorTypes
    PROVE  /\ Otherwise \in [at : {"load", "sleep"}, first : BOOLEAN, has : Copies]
           /\ Otherwise.at = (IF updater.first THEN "load" ELSE "sleep")
           /\ Otherwise.first = updater.first
BY CopiesAre DEF RutorTypes, Otherwise

\* Every step keeps it.
LEMMA RutorSteps == RutorInv /\ [RutorNext]_rutorVars => RutorInv'
<1> SUFFICES ASSUME RutorInv, [RutorNext]_rutorVars PROVE RutorInv'
  OBVIOUS
<1> USE DEF RutorInv
<1>0. CASE UNCHANGED rutorVars
  BY <1>0 DEF rutorVars, RutorTypes, UpdaterFollows
<1>1. ASSUME NEW enabled \in BOOLEAN, Switch(enabled)
      PROVE  RutorInv'
  <2>1. stray' = stray \/ (stray' = updater /\ updater.at \in {"write", "rename", "load"})
    BY <1>1 DEF Switch
  <2>2. /\ updater' \in [at : {"none", "check"}, first : BOOLEAN, has : Copies]
        /\ updater'.at = IF enabled THEN "check" ELSE "none"
        /\ updater'.first = enabled
    BY <1>1, CopiesAre DEF Switch, NoTask
  <2>3. stray' \in [at : {"none", "write", "part", "file", "rename", "load"},
                    first : BOOLEAN, has : Copies]
    BY <2>1 DEF RutorTypes
  <2>4. stray'.at # "none" => strayed'
    BY <1>1, CopiesAre DEF Switch
  <2>5. RutorTypes'
    BY <1>1, <2>2, <2>3, CopiesAre DEF Switch, RutorTypes
  <2> QED  BY <1>1, <2>2, <2>4, <2>5 DEF Switch, UpdaterFollows
<1>2. CASE StrayWrite
  <2>1. strayed
    BY <1>2 DEF StrayWrite, UpdaterFollows
  <2>2. RutorTypes'
    BY <1>2, CopiesAre DEF StrayWrite, RutorTypes, NoTask
  <2> QED  BY <1>2, <2>1, <2>2 DEF StrayWrite, UpdaterFollows
<1>3. CASE StrayRename
  <2>1. strayed
    BY <1>3 DEF StrayRename, UpdaterFollows
  <2>2. RutorTypes'
    <3>1. rutorFile' \in [copy : Copies, fresh : BOOLEAN] /\ part' \in Copies
      <4>1. CASE part = NoCopy
        BY <1>3, <4>1 DEF StrayRename, RutorTypes
      <4>2. CASE part # NoCopy
        <5>1. rutorFile' = [copy |-> part, fresh |-> TRUE] /\ part' = NoCopy /\ part \in Copies
          BY <1>3, <4>2 DEF StrayRename, RutorTypes
        <5> QED  BY <5>1, CopiesAre
      <4> QED  BY <4>1, <4>2
    <3>2. stray' \in [at : {"none"}, first : BOOLEAN, has : Copies]
      BY <1>3, CopiesAre DEF StrayRename, NoTask
    <3> QED  BY <1>3, <3>1, <3>2 DEF StrayRename, RutorTypes
  <2> QED  BY <1>3, <2>1, <2>2 DEF StrayRename, UpdaterFollows
<1>4. CASE StrayLoad
  <2>1. strayed
    BY <1>4 DEF StrayLoad, UpdaterFollows
  <2>2. RutorTypes'
    BY <1>4, CopiesAre, LoadTakes DEF StrayLoad, RutorTypes, NoTask
  <2> QED  BY <1>4, <2>1, <2>2 DEF StrayLoad, UpdaterFollows
<1>5. CASE CheckSite
  <2>1. \/ updater' = Otherwise
        \/ /\ updater' = [updater EXCEPT !.at = "write", !.has = site]
           /\ updater'.at = "write" /\ updater'.first = updater.first
    BY <1>5 DEF CheckSite, RutorTypes
  <2>2. updater' \in [at : {"write", "load", "sleep"}, first : BOOLEAN, has : Copies]
    BY <2>1, OtherwiseIs, CopiesAre DEF RutorTypes
  <2>3. RutorTypes'
    BY <1>5, <2>2 DEF CheckSite, RutorTypes
  <2> QED  BY <1>5, <2>1, <2>3, OtherwiseIs DEF CheckSite, UpdaterFollows
<1>6. CASE WritePart
  <2>1. \/ part' = updater.has /\ updater' = [updater EXCEPT !.at = "rename"]
           /\ updater'.at = "rename" /\ updater'.first = updater.first /\ updater'.has = updater.has
        \/ part' \in {part, Cut} /\ updater' = Otherwise
    BY <1>6 DEF WritePart, RutorTypes
  <2>2. updater' \in [at : {"rename", "load", "sleep"}, first : BOOLEAN, has : Copies]
        /\ part' \in Copies
    BY <2>1, OtherwiseIs, CopiesAre DEF RutorTypes
  <2>3. RutorTypes'
    BY <1>6, <2>2 DEF WritePart, RutorTypes
  <2> QED  BY <1>6, <2>1, <2>3, OtherwiseIs DEF WritePart, UpdaterFollows
<1>7. CASE RenamePart
  <2>1. CASE updater' = Otherwise /\ UNCHANGED <<rutorFile, part, stray>>
    <3>1. RutorTypes'
      BY <1>7, <2>1, OtherwiseIs DEF RenamePart, RutorTypes
    <3> QED  BY <1>7, <2>1, <3>1, OtherwiseIs DEF RenamePart, UpdaterFollows
  <2>2. CASE /\ rutorFile' = [copy |-> part, fresh |-> TRUE] /\ part' = NoCopy
             /\ updater' = [updater EXCEPT !.at = "load", !.first = FALSE]
             /\ stray' = IF stray.at = "part" THEN [stray EXCEPT !.at = "file"] ELSE stray
    <3>1. updater' \in [at : {"load"}, first : BOOLEAN, has : Copies]
      BY <2>2 DEF RutorTypes
    <3>2. /\ stray' \in [at : {"none", "write", "part", "file", "rename", "load"},
                         first : BOOLEAN, has : Copies]
          /\ stray'.at # "none" => stray.at # "none"
      BY <2>2 DEF RutorTypes
    <3>3. RutorTypes'
      BY <1>7, <2>2, <3>1, <3>2, CopiesAre DEF RenamePart, RutorTypes
    <3> QED  BY <1>7, <2>2, <3>1, <3>2, <3>3 DEF RenamePart, UpdaterFollows
  <2> QED  BY <1>7, <2>1, <2>2 DEF RenamePart
<1>8. CASE Load
  <2>1. updater' \in [at : {"sleep"}, first : {FALSE}, has : Copies]
    BY <1>8, CopiesAre DEF Load, NoTask
  <2>2. RutorTypes'
    BY <1>8, <2>1, LoadTakes DEF Load, RutorTypes
  <2> QED  BY <1>8, <2>1, <2>2, LoadTakes DEF Load, RutorTypes, UpdaterFollows
<1>9. CASE Wake
  <2>1. updater' \in [at : {"check"}, first : {FALSE}, has : Copies]
    BY <1>9, CopiesAre DEF Wake, NoTask
  <2>2. rutorFile' \in [copy : Copies, fresh : BOOLEAN] /\ rutorFile'.copy = rutorFile.copy
    BY <1>9 DEF Wake, RutorTypes
  <2>3. RutorTypes'
    BY <1>9, <2>1, <2>2 DEF Wake, RutorTypes
  <2> QED  BY <1>9, <2>1, <2>2, <2>3 DEF Wake, RutorTypes, UpdaterFollows
<1>10. ASSUME NEW copy \in Versions, Publish(copy)
       PROVE  RutorInv'
  BY <1>10 DEF Publish, RutorTypes, UpdaterFollows
<1>11. CASE ServerRestarts
  <2>1. NoTask \in [at : {"none"}, first : BOOLEAN, has : Copies]
    BY CopiesAre DEF NoTask
  <2> QED  BY <1>11, <2>1, CopiesAre DEF ServerRestarts, RutorTypes, UpdaterFollows
<1> QED
  BY <1>0, <1>1, <1>2, <1>3, <1>4, <1>5, <1>6, <1>7, <1>8, <1>9, <1>10, <1>11 DEF RutorNext

\* Switched off, the Rutor index is forgotten; once the updater sleeps, searches
\* find what the file holds; only a whole download takes the file's place, and no
\* search works on a copy that does not decode: for any number of copies of the
\* site (service.rs:18-20, 54-61, rutor.rs:57-106).
THEOREM RutorStaysRight == RutorSpec => []RutorRight
<1>1. RutorInv => RutorRight
  BY DEF RutorInv, RutorTypes, UpdaterFollows, RutorRight, Forgotten, LoadedIsStored, RenamesWhole, FoundIsWhole
<1> QED  BY <1>1, RutorStarts, RutorSteps, PTL DEF RutorSpec

-----------------------------------------------------------------------------
(* What a server says of itself. *)

\* A notice is one, and names an address its listeners reach.
NoticeRight(n) ==
    /\ n = [type |-> n.type, ip |-> n.ip, port |-> n.port, way |-> n.way, at |-> n.at]
    /\ \E i \in host : \E a \in i.addresses :
         /\ UsableInterface(i) /\ a.ip = n.ip
         /\ IF n.way = "alive" THEN a.kind # "link" ELSE a.net = n.way

\* With no server, or one that is stopping, whatever is still being sent is excused;
\* with no server, whatever is believed is.
SsdpExcuses ==
    /\ (port = Silent \/ stopping) => \A n \in notices : Fact(n) \in excused
    /\ port = Silent => believed \subseteq excused

\* A service that is not announced is believed only where that is excused, and none
\* is when there is no server.
BonjourExcuses ==
    /\ \A s \in Services : (responder[s] = -1 /\ believed[s] > 0) => s \in excused
    /\ port = Silent => \A s \in Services : responder[s] = -1

AnnounceInv ==
    /\ host \in Hosts /\ speaks \in Protocols
    /\ port \in Ports \cup {Silent}
    /\ stopping \in BOOLEAN /\ (stopping => port # Silent)
    /\ responder \in [Services -> -1 .. 4]
    /\ \A n \in notices : NoticeRight(n)
    /\ speaks = "ssdp" => SsdpExcuses /\ responder = [s \in Services |-> -1]
    /\ speaks = "bonjour" => BonjourExcuses /\ DOMAIN believed = Services /\ notices = {}

LEMMA AnnounceStarts == AnnounceInit => AnnounceInv
<1> SUFFICES ASSUME AnnounceInit PROVE AnnounceInv
  OBVIOUS
<1>1. responder \in [Services -> -1 .. 4] /\ \A s \in Services : responder[s] = -1
  BY DEF AnnounceInit
<1>2. speaks = "ssdp" => SsdpExcuses
  BY DEF AnnounceInit, SsdpExcuses
<1>3. speaks = "bonjour" => BonjourExcuses /\ DOMAIN believed = Services /\ notices = {}
  <2> HAVE speaks = "bonjour"
  <2>1. believed = [s \in Services |-> 0]
    BY DEF AnnounceInit
  <2> QED  BY <1>1, <2>1 DEF BonjourExcuses, AnnounceInit
<1> QED  BY <1>1, <1>2, <1>3 DEF AnnounceInit, AnnounceInv

\* A search is answered with addresses of the network it came from.
LEMMA AnswersReach ==
    ASSUME AnnounceInv, NEW search, NEW net \in Nets, NEW t, NEW ip \in AnswerIps(net)
    PROVE  NoticeRight(Notice(t, ip, net))
<1>1. PICK i \in host : UsableInterface(i) /\ \E a \in i.addresses : a.net = net /\ a.ip = ip
  BY DEF AnswerIps, SsdpInterfaces
<1>2. net # "alive"
  BY AnnouncementConstants DEF Nets, AnnounceInv
<1> QED  BY <1>1, <1>2 DEF NoticeRight, Notice

LEMMA AliveReaches ==
    ASSUME NEW t, NEW ip \in AliveIps
    PROVE  NoticeRight(Notice(t, ip, "alive"))
<1>1. PICK i \in host : UsableInterface(i) /\ \E a \in i.addresses : a.kind # "link" /\ a.ip = ip
  BY DEF AliveIps, SsdpInterfaces
<1> QED  BY <1>1 DEF NoticeRight, Notice

LEMMA AnnounceSteps == AnnounceInv /\ [AnnounceNext]_announceVars => AnnounceInv'
<1> SUFFICES ASSUME AnnounceInv, [AnnounceNext]_announceVars
             PROVE  AnnounceInv'
  OBVIOUS
<1>a. ASSUME UNCHANGED <<host, notices>>
      PROVE  \A n \in notices' : NoticeRight(n)'
  BY <1>a DEF AnnounceInv, NoticeRight, UsableInterface
<1>b. ASSUME UNCHANGED host, NEW n, NoticeRight(n)
      PROVE  NoticeRight(n)'
  BY <1>b DEF NoticeRight, UsableInterface
<1>0. CASE UNCHANGED announceVars
  BY <1>0, <1>a DEF announceVars, AnnounceInv, SsdpExcuses, BonjourExcuses
<1>1. ASSUME NEW p \in Ports, SsdpStart(p)
      PROVE  AnnounceInv'
  <2>1. p # Silent
    BY AnnouncementConstants
  <2>2. ~ stopping
    BY <1>1 DEF SsdpStart, AnnounceInv
  <2> QED  BY <1>1, <1>a, <2>1, <2>2 DEF SsdpStart, AnnounceInv, SsdpExcuses
<1>2. ASSUME NEW p \in Ports, BonjourStart(p)
      PROVE  AnnounceInv'
  <2>1. p # Silent
    BY AnnouncementConstants
  <2>2. responder' \in [Services -> -1 .. 4]
    BY <1>2 DEF BonjourStart
  <2>3. BonjourExcuses'
    BY <1>2, <2>1 DEF BonjourStart, AnnounceInv, BonjourExcuses
  <2> QED  BY <1>2, <1>a, <2>1, <2>2, <2>3 DEF BonjourStart, AnnounceInv
<1>3. CASE Advertise
  <2>1. \A n \in notices' : NoticeRight(n)
    BY <1>3, AliveReaches DEF Advertise, AnnounceInv
  <2>2. \A n \in notices' : NoticeRight(n)'
    BY <1>3, <1>b, <2>1 DEF Advertise
  <2> QED  BY <1>3, <2>2 DEF Advertise, AnnounceInv, SsdpExcuses
<1>4. ASSUME NEW search \in Searches, NEW net \in Nets, Search(search, net)
      PROVE  AnnounceInv'
  <2>1. \A n \in notices' : NoticeRight(n)
    BY <1>4, AnswersReach DEF Search, AnnounceInv
  <2>2. \A n \in notices' : NoticeRight(n)'
    BY <1>4, <1>b, <2>1 DEF Search
  <2> QED  BY <1>4, <2>2 DEF Search, AnnounceInv, SsdpExcuses
<1>5. ASSUME NEW n \in notices, Due(n)
      PROVE  AnnounceInv'
  <2> DEFINE m == [n EXCEPT !.at = "sending"]
  <2>1. n = [type |-> n.type, ip |-> n.ip, port |-> n.port, way |-> n.way, at |-> n.at]
    BY DEF AnnounceInv, NoticeRight
  <2>2. m = [type |-> n.type, ip |-> n.ip, port |-> n.port, way |-> n.way, at |-> "sending"]
    BY <2>1
  <2> HIDE DEF m
  <2>3. Fact(m) = Fact(n) /\ NoticeRight(m)
    BY <2>2 DEF Fact, NoticeRight, AnnounceInv
  <2>4. notices' = (notices \ {n}) \cup {m}
    BY <1>5 DEF Due, m
  <2>5. \A k \in notices' : NoticeRight(k)'
    BY <1>5, <1>b, <2>3, <2>4 DEF Due, AnnounceInv
  <2>6. speaks = "ssdp" => SsdpExcuses'
    BY <1>5, <2>3, <2>4 DEF Due, AnnounceInv, SsdpExcuses, Fact
  <2> QED  BY <1>5, <2>5, <2>6 DEF Due, AnnounceInv, BonjourExcuses
<1>6. ASSUME NEW n \in notices, Sent(n)
      PROVE  AnnounceInv'
  <2>1. \A k \in notices' : NoticeRight(k)'
    BY <1>6, <1>b DEF Sent, AnnounceInv
  <2>2. speaks = "ssdp" => SsdpExcuses'
    BY <1>6 DEF Sent, AnnounceInv, SsdpExcuses, Fact
  <2> QED  BY <1>6, <2>1, <2>2 DEF Sent, AnnounceInv
<1>7. CASE SsdpStop
  <2>1. notices' \subseteq notices /\ \A n \in notices' : Fact(n) \in excused'
    BY <1>7 DEF SsdpStop, Sending
  <2>2. \A k \in notices' : NoticeRight(k)'
    BY <1>7, <1>b, <2>1 DEF SsdpStop, AnnounceInv
  <2> QED  BY <1>7, <2>1, <2>2 DEF SsdpStop, AnnounceInv, SsdpExcuses, Fact
<1>8. CASE Goodbyes
  <2>1. excused \subseteq excused' /\ believed' \subseteq excused'
    BY <1>8 DEF Goodbyes
  <2> QED  BY <1>8, <1>a, <2>1 DEF Goodbyes, AnnounceInv, SsdpExcuses, Fact
<1>9. ASSUME NEW fact \in believed, MaxAge(fact)
      PROVE  AnnounceInv'
  BY <1>9, <1>a DEF MaxAge, AnnounceInv, SsdpExcuses, Fact
<1>10. ASSUME NEW s \in Services, AnnounceService(s)
       PROVE  AnnounceInv'
  <2>1. responder' \in [Services -> -1 .. 4] /\ responder'[s] # -1
        /\ \A z \in Services \ {s} : responder'[z] = responder[z]
    BY <1>10 DEF AnnounceService, AnnounceInv
  <2>2. responder[s] # -1
    BY <1>10 DEF AnnounceService
  <2>3. speaks = "bonjour" => DOMAIN believed' = Services
                              /\ \A z \in Services \ {s} : believed'[z] = believed[z]
    BY <1>10 DEF AnnounceService, AnnounceInv
  <2>4. speaks = "bonjour" => BonjourExcuses'
    BY <1>10, <2>1, <2>2, <2>3 DEF AnnounceService, AnnounceInv, BonjourExcuses
  <2>5. speaks # "ssdp"
    BY <2>2 DEF AnnounceInv
  <2> QED  BY <1>10, <1>a, <2>1, <2>3, <2>4, <2>5 DEF AnnounceService, AnnounceInv
<1>11. ASSUME NEW s \in Services, NEW about, Ask(s, about)
       PROVE  AnnounceInv'
  <2>1. responder[s] # -1
    BY <1>11 DEF Ask
  <2>2. speaks # "ssdp"
    BY <2>1 DEF AnnounceInv
  <2>3. speaks = "bonjour" => DOMAIN believed' = Services
                              /\ \A z \in Services \ {s} : believed'[z] = believed[z]
    BY <1>11 DEF Ask, AnnounceInv
  <2>4. speaks = "bonjour" => BonjourExcuses'
    BY <1>11, <2>1, <2>3 DEF Ask, AnnounceInv, BonjourExcuses
  <2> QED  BY <1>11, <1>a, <2>2, <2>3, <2>4 DEF Ask, AnnounceInv
<1>12. ASSUME NEW s \in Services, Unregister(s)
       PROVE  AnnounceInv'
  <2>1. responder' \in [Services -> -1 .. 4]
        /\ \A z \in Services : responder'[z] = IF z = s THEN -1 ELSE responder[z]
    BY <1>12 DEF Unregister, AnnounceInv
  <2>2. /\ DOMAIN believed' = Services
        /\ \A z \in Services \ {s} : believed'[z] = believed[z]
        /\ excused \subseteq excused'
        /\ believed'[s] = 0 \/ s \in excused'
    BY <1>12 DEF Unregister, AnnounceInv
  <2>3. BonjourExcuses'
    BY <1>12, <2>1, <2>2 DEF Unregister, AnnounceInv, BonjourExcuses
  <2> QED  BY <1>12, <1>a, <2>1, <2>2, <2>3 DEF Unregister, AnnounceInv
<1>13. CASE Passes
  <2>1. DOMAIN believed' = Services
    BY <1>13 DEF Passes
  <2>2. \A s \in Services : believed'[s] > 0 => believed[s] > 0
    BY <1>13 DEF Passes
  <2>3. BonjourExcuses'
    BY <1>13, <2>2 DEF Passes, AnnounceInv, BonjourExcuses
  <2> QED  BY <1>13, <1>a, <2>1, <2>3 DEF Passes, AnnounceInv
<1>14. CASE BonjourStop
  BY <1>14, <1>a DEF BonjourStop, AnnounceInv, BonjourExcuses
<1>15. CASE Unregistered
  BY <1>15, <1>a DEF Unregistered, AnnounceInv, BonjourExcuses
<1> QED
  BY <1>0, <1>1, <1>2, <1>3, <1>4, <1>5, <1>6, <1>7, <1>8, <1>9, <1>10, <1>11, <1>12, <1>13,
     <1>14, <1>15 DEF AnnounceNext

\* After the goodbyes nobody believes in a server that is gone, but for what was
\* being sent when it stopped and for goodbyes that were lost, and nobody is sent to
\* an address it was not heard from: for any interfaces, any number of types and of
\* services, and a record of any lifetime (ssdp.rs:187-200, 231-239, 335-345,
\* bonjour.rs:96-99, 309-321).
THEOREM AnnouncedStaysRight == AnnounceSpec => []AnnouncedRight
<1>1. AnnounceInv => AnnouncedRight
  <2> SUFFICES ASSUME AnnounceInv PROVE AnnouncedRight
    OBVIOUS
  <2>1. Reachable
    BY DEF AnnounceInv, NoticeRight, Reachable
  <2>2. Silenced
    <3>1. speaks \in {"ssdp", "bonjour"}
      BY AnnouncementConstants DEF AnnounceInv
    <3>2. CASE speaks = "ssdp"
      BY <3>2 DEF AnnounceInv, Silenced, HeldFacts, SsdpExcuses
    <3>3. CASE speaks = "bonjour"
      BY <3>3 DEF AnnounceInv, Silenced, HeldFacts, BonjourExcuses
    <3> QED  BY <3>1, <3>2, <3>3
  <2> QED  BY <2>1, <2>2 DEF AnnouncedRight
<1> QED  BY <1>1, AnnounceStarts, AnnounceSteps, PTL DEF AnnounceSpec

=============================================================================
