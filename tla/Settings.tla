------------------------------ MODULE Settings ------------------------------
(***************************************************************************)
(* The settings and the places that follow them: the database, the cap of  *)
(* the cache, the copy in memory, the announcers and the Rutor refresher.  *)
(* A request goes through them one after another without any lock over the *)
(* whole (crates/rustorr-lifecycle/src/lib.rs set_settings,                *)
(* set_storage_preferences; client.rs settings; crates/rustorr-http/src/   *)
(* app.rs settings; settings_api.rs set_storage).                          *)
(***************************************************************************)
EXTENDS Integers, FiniteSets

CONSTANTS
    Clients,    \* requests that may be under way together
    Documents,  \* what a client may set: [cap, dlna, rutor, json]
    Defaults,   \* Settings::default(), one of them
    ReadOnly,   \* subset of BOOLEAN: how the server may have been started
    FirstCap,   \* --cache-size, for a directory without settings
    Unset

\* serde and Settings::normalized: whole numbers, and a default cap that is one.
Document == [cap : Int, dlna : BOOLEAN, rutor : BOOLEAN, json : BOOLEAN]

ASSUME SettingsAssumption ==
    /\ Documents \subseteq Document /\ Defaults \in Document /\ Unset \notin Document
    /\ Defaults.cap # 0 /\ FirstCap \in Int /\ ReadOnly \subseteq BOOLEAN

VARIABLES
    readOnly,
    stored,     \* the document of the database
    cap,        \* of the cache
    memory,     \* TorrentCoordinator.settings
    announced,  \* whether DLNA was last told to run
    refreshed,  \* whether the Rutor refresher was last told to run
    client,     \* client -> its request, or NoRequest
    mixed       \* two requests were under way together, or one failed, since
                \* the last one that was alone from its start to its end

settingsVars == <<readOnly, stored, cap, memory, announced, refreshed, client, mixed>>

NoRequest == [at |-> "idle"]
UnderWay == {c \in Clients : client[c] # NoRequest}
Goes(c, at) == client' = [client EXCEPT ![c] = at]

\* Settings::normalized, as far as the cap goes: none is 64 MiB.
Normalized(d) == [d EXCEPT !.cap = IF @ = 0 THEN Defaults.cap ELSE @]

SettingsTypeOK ==
    /\ stored \in Document
    /\ memory.cap # 0
    /\ announced \in BOOLEAN /\ refreshed \in BOOLEAN /\ mixed \in BOOLEAN

\* TorrentCoordinator::new: a document that cannot be read gives way to the
\* defaults with the cap of the command line, in read-only mode too.
Booted(document) ==
    Normalized(IF document = Unset THEN [Defaults EXCEPT !.cap = FirstCap] ELSE document)

BootedWith(document) ==
    /\ stored = IF document = Unset THEN [Defaults EXCEPT !.cap = FirstCap] ELSE document
    /\ memory = Booted(document)
    /\ cap = memory.cap
    /\ announced = memory.dlna /\ refreshed = memory.rutor

SettingsInit ==
    /\ readOnly \in ReadOnly
    /\ \E document \in Documents \cup {Unset} : BootedWith(document)
    /\ client = [c \in Clients |-> NoRequest]
    /\ mixed = FALSE

-----------------------------------------------------------------------------
(* POST /settings: "set" with a document, "def" for the defaults. *)

\* Requests that meet spoil the registers until one is alone.
Begins(c, request) ==
    /\ client[c] = NoRequest
    /\ client' = [k \in Clients |->
         IF k = c THEN request ELSE IF client[k] = NoRequest THEN NoRequest
         ELSE [client[k] EXCEPT !.alone = FALSE]]
    /\ mixed' = (mixed \/ UnderWay # {})

Set(c, document) ==
    /\ Begins(c, [at |-> IF readOnly THEN "answer" ELSE "store", alone |-> UnderWay = {},
                  asked |-> document, wants |-> Normalized(document)])
    /\ UNCHANGED <<readOnly, stored, cap, memory, announced, refreshed>>

\* set_settings: the database may refuse, this or a choice (below), and then
\* nothing has changed.
Store(c) ==
    /\ client[c].at = "store"
    /\ stored' = client[c].wants
    /\ Goes(c, [client[c] EXCEPT !.at = "cap"])
    /\ UNCHANGED <<readOnly, cap, memory, announced, refreshed, mixed>>

StoreFails(c) ==
    /\ client[c].at \in {"store", "storeChoice"}
    /\ Goes(c, NoRequest)
    /\ UNCHANGED <<readOnly, stored, cap, memory, announced, refreshed, mixed>>

Cap(c) ==
    /\ client[c].at = "cap"
    /\ cap' = client[c].wants.cap
    /\ Goes(c, [client[c] EXCEPT !.at = "remember"])
    /\ UNCHANGED <<readOnly, stored, memory, announced, refreshed, mixed>>

Remember(c) ==
    /\ client[c].at = "remember"
    /\ memory' = client[c].wants
    /\ Goes(c, [client[c] EXCEPT !.at = "drop"])
    /\ UNCHANGED <<readOnly, stored, cap, announced, refreshed, mixed>>

\* drop_all_live and evict_to_cap (Coordinator): an error is answered at once,
\* and the announcers and the refresher are not told.
DropAll(c) ==
    /\ client[c].at = "drop"
    /\ \/ Goes(c, [client[c] EXCEPT !.at = "answer"]) /\ UNCHANGED mixed
       \/ Goes(c, NoRequest) /\ mixed' = TRUE
    /\ UNCHANGED <<readOnly, stored, cap, memory, announced, refreshed>>

\* The settings in effect are read back; the announcers are told what the request
\* said of DLNA.
Announce(c) ==
    /\ client[c].at = "answer"
    /\ announced' = client[c].asked.dlna
    /\ Goes(c, [client[c] EXCEPT !.at = "refresh", !.wants = memory])
    /\ UNCHANGED <<readOnly, stored, cap, memory, refreshed, mixed>>

\* The refresher follows what was read back; the request is through.
RefreshIndex(c) ==
    /\ client[c].at = "refresh"
    /\ refreshed' = client[c].wants.rutor
    /\ Goes(c, NoRequest)
    /\ mixed' = (mixed /\ ~ client[c].alone)
    /\ UNCHANGED <<readOnly, stored, cap, memory, announced>>

-----------------------------------------------------------------------------
(* POST /storage/settings: one flag, read and written back with the rest. *)

Choose(c, json) ==
    /\ ~ readOnly
    /\ Begins(c, [at |-> "storeChoice", alone |-> FALSE, wants |-> [memory EXCEPT !.json = json]])
    /\ UNCHANGED <<readOnly, stored, cap, memory, announced, refreshed>>

StoreChoice(c) ==
    /\ client[c].at = "storeChoice"
    /\ stored' = client[c].wants
    /\ Goes(c, [client[c] EXCEPT !.at = "choice"])
    /\ UNCHANGED <<readOnly, cap, memory, announced, refreshed, mixed>>

\* Faulty variant: the copy in memory is left for the next start.
RememberChoice_Stored(c) ==
    /\ client[c].at = "choice"
    /\ Goes(c, NoRequest)
    /\ UNCHANGED <<readOnly, stored, cap, memory, announced, refreshed, mixed>>

RememberChoice(c) ==
    /\ client[c].at = "choice"
    /\ memory' = client[c].wants
    /\ Goes(c, NoRequest)
    /\ UNCHANGED <<readOnly, stored, cap, announced, refreshed, mixed>>

-----------------------------------------------------------------------------
\* The process ends and starts again, at any point.
Restart ==
    /\ memory' = Booted(stored)
    /\ cap' = memory'.cap
    /\ announced' = memory'.dlna /\ refreshed' = memory'.rutor
    /\ client' = [c \in Clients |-> NoRequest]
    /\ mixed' = FALSE
    /\ UNCHANGED <<readOnly, stored>>

SettingsNext ==
    \/ \E c \in Clients :
         \/ \E document \in Documents \cup {Defaults} : Set(c, document)
         \/ Store(c) \/ StoreFails(c) \/ Cap(c) \/ Remember(c) \/ DropAll(c)
         \/ Announce(c) \/ RefreshIndex(c)
         \/ \E json \in BOOLEAN : Choose(c, json)
         \/ StoreChoice(c) \/ RememberChoice(c)
    \/ Restart

SettingsSpec == SettingsInit /\ [][SettingsNext]_settingsVars

-----------------------------------------------------------------------------
(* Properties. *)

\* Whatever requests did to one another, the next change that is made alone, and
\* a restart, leave every place with the same settings (lib.rs:318-333,
\* app.rs:669-691).
OneAlonePutsRight ==
    UnderWay = {} /\ ~ mixed /\ ~ readOnly =>
      /\ Normalized(stored) = memory
      /\ cap = memory.cap
      /\ announced = memory.dlna
      /\ refreshed = memory.rutor

\* In read-only mode no request changes the settings (lib.rs:245-248).
ReadOnlyKeeps == readOnly => Normalized(stored) = memory /\ cap = memory.cap /\ refreshed = memory.rutor

SettingsRight == OneAlonePutsRight /\ ReadOnlyKeeps
=============================================================================
