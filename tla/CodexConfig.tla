----------------------------- MODULE CodexConfig -----------------------------
(***************************************************************************)
(* The pure part of src/src/modules/codex_integration/config.rs: what      *)
(* connecting and disconnecting do to the text of Codex's config.toml, and *)
(* how the text and the restoration snapshot are compared.                 *)
(*                                                                         *)
(* A document is the value of four keys; everything else in the file is    *)
(* carried along untouched by toml_edit and behaves like "chatgpt", a key  *)
(* TokenSaver reads and never writes.                                      *)
(***************************************************************************)
EXTENDS Naturals

CONSTANTS
  UserUrls,   \* the base URLs a user writes
  Endpoints,  \* the loopback endpoints of TokenSaver: a port and a capability
  CallUrls,   \* the native realtime call URLs TokenSaver derives
  CallFor,    \* the call URL derived from a value of chatgpt_base_url
  WsUrl,      \* DEFAULT_REALTIME_WS_BASE_URL
  Absent,     \* the key is not in the document
  NonString,  \* the key has a value that is not a string
  NoFile,     \* config.toml does not exist
  NoSnapshot  \* codex-config-snapshot.json does not exist

ASSUME CodexConfigAssumption ==
  /\ CallFor \in [UserUrls \cup {Absent} -> CallUrls]
  /\ WsUrl \notin {Absent, NonString}
  /\ {Absent, NonString} \cap (UserUrls \cup Endpoints \cup CallUrls) = {}
  /\ Endpoints \cap (UserUrls \cup CallUrls) = {}
  /\ WsUrl \notin Endpoints
  /\ Absent # NonString

Keys == {"openai", "chatgpt", "call", "ws"}
Realtime == {"call", "ws"}

\* What a user can have written under a key, and what can be found there.
UserValues == UserUrls \cup {Absent, NonString}
Values == UserValues \cup Endpoints \cup CallUrls \cup {WsUrl}

\* chatgpt_base_url is never written, and each managed key only gets its own
\* kind of value.
Docs ==
  {d \in [Keys -> Values] :
     /\ d["openai"] \in UserValues \cup Endpoints
     /\ d["chatgpt"] \in UserValues
     /\ d["call"] \in UserValues \cup CallUrls
     /\ d["ws"] \in UserValues \cup {WsUrl}}

Files == Docs \cup {NoFile}

EmptyDoc == [k \in Keys |-> Absent]

\* A file that is not there is read as an empty document.
DocOf(file) == IF file = NoFile THEN EmptyDoc ELSE file

\* OriginalOpenAiBaseUrl, and the keys TokenSaver set with their values; a
\* realtime key the user had is not in the domain of "installed".
Installations ==
  UNION {[K \cup {"openai"} -> Values] : K \in SUBSET Realtime}

Snapshots ==
  [original : UserUrls \cup {Absent} \cup Endpoints, installed : Installations]

-----------------------------------------------------------------------------

ASSUME CodexConfigSentinels == NoFile \notin Docs /\ NoSnapshot \notin Snapshots

Overlay(doc, f) == [k \in Keys |-> IF k \in DOMAIN f THEN f[k] ELSE doc[k]]

\* connect_config_text fails on a managed key whose value is not a string.
Connectable(doc) == doc["openai"] # NonString /\ doc["chatgpt"] # NonString

Installed(doc, endpoint) ==
  [k \in {"openai"} \cup {r \in Realtime : doc[r] = Absent} |->
     IF k = "openai" THEN endpoint
     ELSE IF k = "call" THEN CallFor[doc["chatgpt"]] ELSE WsUrl]

SnapshotOf(doc, endpoint) ==
  [original |-> doc["openai"], installed |-> Installed(doc, endpoint)]

ConnectText(doc, endpoint) == Overlay(doc, Installed(doc, endpoint))

EndpointOf(snap) == snap.installed["openai"]

\* validate_owned_values with expect_installed = true.
OwnedIntact(doc, snap) ==
  \A k \in DOMAIN snap.installed : doc[k] = snap.installed[k]

\* Mutant: removes the realtime keys it did not install as well.
DisconnectTextAllKeys(doc, snap) ==
  [k \in Keys |-> IF k = "openai" THEN snap.original
                  ELSE IF k \in Realtime THEN Absent ELSE doc[k]]

DisconnectText(doc, snap) ==
  [k \in Keys |-> IF k = "openai" THEN snap.original
                  ELSE IF k \in DOMAIN snap.installed THEN Absent ELSE doc[k]]

\* A realtime key with a value that is not a string passes for an absent one.
Withdrawn(doc, snap) ==
  /\ doc["openai"] = snap.original
  /\ \A k \in Realtime \cap DOMAIN snap.installed : doc[k] \in {Absent, NonString}

\* Mutant: a drifted file counts as one that was never connected.
ConnectionStateNoDrift(file, snap) ==
  IF file = NoFile THEN "Drifted"
  ELSE IF OwnedIntact(file, snap) THEN "Connected" ELSE "NotConnected"

\* connection_state_file followed by connection_state_text.
ConnectionState(file, snap) ==
  IF file = NoFile THEN "Drifted"
  ELSE IF OwnedIntact(file, snap) THEN "Connected"
  ELSE IF file["openai"] = NonString THEN "Error"
  ELSE IF Withdrawn(file, snap) THEN "NotConnected" ELSE "Drifted"
=============================================================================
