------------------------------- MODULE Launch -------------------------------
(***************************************************************************)
(* How the options of a start are put together (crates/rustorr-server/src/ *)
(* config.rs) and what main.rs does with them: a service command, or the   *)
(* log and the server.                                                     *)
(*                                                                         *)
(* An option is known by what it was given in each of its places: the      *)
(* command line, the RUSTORR_ variable, the TS_ variable of TorrServer's   *)
(* image.  Options that are read alike stand for one another: "dir" is     *)
(* every option with a value, "readOnly" every switch.  The parser itself  *)
(* (clap) is external: the command line beats the variable, the last value *)
(* of a flag counts, and a list flag collects its values.                  *)
(***************************************************************************)
EXTENDS Integers, Sequences

CONSTANTS
    Starts,     \* what may be given: [dir, readOnly, listen, port, ip, size, addr,
                \* proxy, mode, command, logSize], None where nothing is
    Width,      \* of the number of bytes: 64 in the code
    Shifts,     \* unit -> its power of two: kib is 10 in the code
    LogLimit,   \* 100 MiB in the code
    None

VARIABLES given, stage, config, log, reached

launchVars == <<given, stage, config, log, reached>>

-----------------------------------------------------------------------------
(* config.rs: the places of an option. *)

\* torrserver_env_args: a TS_ variable becomes a flag before those of the command
\* line, unless it is empty or the Rustorr variable is set.
Taken(theirs, ours) == theirs \notin {None, "empty"} /\ ours = None

Value(o, default) ==
    IF o.line # None THEN o.line
    ELSE IF Taken(o.theirs, o.ours) THEN o.theirs
    ELSE IF o.ours # None THEN o.ours ELSE default

Switched(o) == o.line \/ (Taken(o.theirs, o.ours) /\ o.theirs = "1") \/ o.ours = "on"

\* --listen, or --port and --ip in its place (apply_matrix_listen).
Port(g) == IF g.port.line # None THEN g.port.line
           ELSE IF Taken(g.port.theirs, g.listen.ours) THEN g.port.theirs ELSE None
Ips(g) == (IF Taken(g.ip.theirs, g.listen.ours) THEN <<g.ip.theirs>> ELSE <<>>) \o g.ip.line
Listen(g) ==
    LET port == IF Port(g) = None THEN "8090" ELSE Port(g)
    IN  IF Ips(g) # <<>> THEN [i \in DOMAIN Ips(g) |-> [ip |-> Ips(g)[i], port |-> port]]
        ELSE IF Port(g) # None THEN <<[ip |-> "any", port |-> port]>>
        ELSE IF g.listen.line # <<>> THEN g.listen.line
        ELSE IF g.listen.ours # None THEN g.listen.ours
        ELSE <<[ip |-> "any", port |-> "8090"]>>

\* Faulty variant: the product is not checked.
SizeFails_Wraps(s) == s # None /\ s.unit \notin DOMAIN Shifts

\* parse_size: a decimal unit, a number too large, and a product too large.
SizeFails(s) ==
    /\ s # None
    /\ \/ s.unit \notin DOMAIN Shifts
       \/ s.number >= 2 ^ Width
       \/ s.number * 2 ^ Shifts[s.unit] >= 2 ^ Width
Size(s) == IF s = None THEN None ELSE (s.number * 2 ^ Shifts[s.unit]) % 2 ^ Width

\* parse_torrent_addr: [HOST]:PORT; the port replaces that of --peer-port.
AddrFails(a) == a # None /\ a.port = None

\* engine_proxy, for run: nothing, a refusal, or the URL as it is.
Mode(m) == IF m \in {"peers", "full"} THEN m ELSE "tracker"
Proxy(url, mode) ==
    IF url \in {None, "empty"} THEN None
    ELSE IF url # "socks5" \/ Mode(mode) = "tracker" THEN "refused" ELSE url

\* maintenance.rs: a server bound to every address is asked on loopback.
FirstListen(listen) == IF listen = <<>> THEN [ip |-> "lo", port |-> "8090"] ELSE listen[1]
Target(listen) ==
    LET first == FirstListen(listen)
    IN  [first EXCEPT !.ip = IF @ = "any" THEN "lo" ELSE @]

-----------------------------------------------------------------------------
TypeOK ==
    /\ stage \in {"parse", "log", "command", "run", "served", "refused"}
    /\ stage = "parse" => config = None
    /\ log \in Nat \cup {None}

Init ==
    /\ given \in Starts
    /\ stage = "parse" /\ config = None /\ reached = None
    /\ log = given.logSize

\* from_env_and_args: a value that does not parse ends the program.
Parse ==
    /\ stage = "parse"
    /\ IF SizeFails(given.size) \/ AddrFails(given.addr)
       THEN stage' = "refused" /\ UNCHANGED config
       ELSE /\ config' = [dir |-> Value(given.dir, "data"),
                          readOnly |-> Switched(given.readOnly),
                          listen |-> Listen(given), size |-> Size(given.size),
                          proxy |-> Proxy(given.proxy, given.mode)]
            /\ stage' = IF given.command = None THEN "log" ELSE "command"
    /\ UNCHANGED <<given, log, reached>>

\* The log file is appended to, after one that grew to the limit is removed.
OpenLog ==
    /\ stage = "log"
    /\ \/ stage' = "run" /\ log' = IF log # None /\ log >= LogLimit THEN 0
                                   ELSE IF log = None THEN 0 ELSE log
       \/ stage' = "refused" /\ UNCHANGED log
    /\ UNCHANGED <<given, config, reached>>

\* run: the proxy is refused before the engine starts.
Run ==
    /\ stage = "run"
    /\ stage' = IF config.proxy = "refused" THEN "refused" ELSE "served"
    /\ UNCHANGED <<given, config, log, reached>>

\* `health`, given what the server was given: the address it asks.
Health ==
    /\ stage = "command" /\ given.command = "health"
    /\ reached = None
    /\ reached' = Target(config.listen)
    /\ UNCHANGED <<given, stage, config, log>>

Next == Parse \/ OpenLog \/ Run \/ Health

Spec == Init /\ [][Next]_launchVars

-----------------------------------------------------------------------------
(* Properties. *)

\* What the environment of the image says never changes an option the command
\* line or Rustorr's own variable gives (config.rs:205-208); --port and --ip of
\* the image's variables are the exception for --listen.
GivenCounts ==
    config # None =>
      /\ \A o \in {given.dir} : o.line # None => config.dir = o.line
      /\ given.dir.line = None /\ given.dir.ours # None => config.dir = given.dir.ours
      /\ given.readOnly.ours = "off" => config.readOnly = given.readOnly.line
      /\ given.listen.ours # None /\ given.port.line = None /\ given.ip.line = <<>> =>
           config.listen = IF given.listen.line # <<>> THEN given.listen.line
                           ELSE given.listen.ours

\* A server that runs has a size that is the one asked for (config.rs:489-491),
\* and never sends its traffic past a proxy it was told to use (417-440).
AsAsked ==
    /\ config # None /\ given.size # None =>
         config.size \div 2 ^ Shifts[given.size.unit] = given.size.number
    /\ stage = "served" /\ given.proxy \notin {None, "empty"} => config.proxy = given.proxy

\* The health check of a container asks an address the server of that container
\* listens on, whichever way the address was given (maintenance.rs:44-53, 234-239).
HealthReaches ==
    reached # None =>
      \E i \in DOMAIN config.listen :
        /\ config.listen[i].port = reached.port
        /\ config.listen[i].ip \in {reached.ip, "any"}

LaunchRight == GivenCounts /\ AsAsked /\ HealthReaches
=============================================================================
