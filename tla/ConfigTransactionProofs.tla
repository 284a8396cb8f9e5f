----------------------- MODULE ConfigTransactionProofs -----------------------
(***************************************************************************)
(* Proofs about ConfigTransaction, for every set of URLs and endpoints:    *)
(* its invariants; that it implements ConfigLease where CODEX_HOME stays   *)
(* the same, nobody writes config.toml between a read and its write, and   *)
(* the user writes no URL that TokenSaver would derive; that it implements *)
(* CodexLink where CODEX_HOME stays the same; and the invariant that       *)
(* MCConfigWorlds checks of a second instance.                             *)
(***************************************************************************)
EXTENDS MCConfigWorlds, TLAPS

\* An empty document and the two texts TokenSaver writes are documents.
LEMMA EmptyDocType == EmptyDoc \in Docs
  BY DEF EmptyDoc, Docs, Values, UserValues, Keys

LEMMA DocOfType == ASSUME NEW file \in Files PROVE DocOf(file) \in Docs
  BY EmptyDocType DEF DocOf, Files

LEMMA ConnectTextType ==
  ASSUME NEW d \in Docs, Connectable(d), NEW e \in Endpoints
  PROVE  /\ ConnectText(d, e) \in Docs
         /\ ConnectText(d, e)["openai"] = e
         /\ SnapshotOf(d, e) \in Snapshots
         /\ EndpointOf(SnapshotOf(d, e)) = e
         /\ SnapshotOf(d, e).original = d["openai"]
  <1> DEFINE f == Installed(d, e)
  <1>1. CallFor[d["chatgpt"]] \in CallUrls
    BY CodexConfigAssumption DEF Docs, Connectable, UserValues
  <1>2. /\ DOMAIN f = {"openai"} \cup {r \in Realtime : d[r] = Absent}
        /\ f["openai"] = e
        /\ "call" \in DOMAIN f => f["call"] = CallFor[d["chatgpt"]]
        /\ "ws" \in DOMAIN f => f["ws"] = WsUrl
    BY DEF Installed, Realtime
  <1>3. f \in [DOMAIN f -> Values]
    BY <1>1, <1>2 DEF Installed, Realtime, Values
  <1>4. f \in Installations
    <2>1. \E K \in SUBSET Realtime : DOMAIN f = K \cup {"openai"}
      BY <1>2
    <2> QED BY <2>1, <1>3 DEF Installations
  <1>5. ConnectText(d, e) = [k \in Keys |-> IF k \in DOMAIN f THEN f[k] ELSE d[k]]
    BY DEF ConnectText, Overlay
  <1>6. ConnectText(d, e) \in Docs
    BY <1>1, <1>2, <1>3, <1>5 DEF Docs, Keys, Values, Realtime
  <1>7. SnapshotOf(d, e) = [original |-> d["openai"], installed |-> f]
    BY DEF SnapshotOf
  <1>8. d["openai"] \in UserUrls \cup {Absent} \cup Endpoints
    BY DEF Docs, Connectable, UserValues
  <1> HIDE DEF f
  <1> QED
    BY <1>2, <1>4, <1>5, <1>6, <1>7, <1>8 DEF Snapshots, EndpointOf, Keys

LEMMA DisconnectTextType ==
  ASSUME NEW d \in Docs, NEW s \in Snapshots
  PROVE  DisconnectText(d, s) \in Docs /\ DisconnectText(d, s)["openai"] = s.original
  BY DEF DisconnectText, Docs, Snapshots, Keys, Values, UserValues

LEMMA EditType ==
  ASSUME NEW d \in Docs, NEW k \in Keys, NEW v \in UserValues
  PROVE  [d EXCEPT ![k] = v] \in Docs
  BY DEF Docs, Keys, Values, UserValues

\* Connecting and disconnecting are inverse: the document TokenSaver writes counts
\* as connected, the one it found as not connected, and a restoration undoes every
\* key TokenSaver set and keeps all the others as they are by then, so that with
\* nothing edited in between the document is the one it found
\* (connect_config_text, disconnect_config_text, connection_state_text).
THEOREM RoundTrip ==
  ASSUME NEW d \in Docs, Connectable(d), NEW e \in Endpoints
  PROVE  LET s == SnapshotOf(d, e)
         IN  /\ ConnectionState(ConnectText(d, e), s) = "Connected"
             /\ d["openai"] # e => ConnectionState(d, s) = "NotConnected"
             /\ DisconnectText(ConnectText(d, e), s) = d
             /\ \A now \in Docs : \A k \in Keys :
                  DisconnectText(now, s)[k] =
                    IF k \in DOMAIN s.installed THEN d[k] ELSE now[k]
  <1> DEFINE s == SnapshotOf(d, e)
             f == Installed(d, e)
             t == ConnectText(d, e)
  <1>1. /\ DOMAIN f = {"openai"} \cup {r \in Realtime : d[r] = Absent}
        /\ f["openai"] = e
    BY DEF Installed
  <1>2. s.original = d["openai"] /\ s.installed = f
    BY DEF SnapshotOf
  <1>3. t = [k \in Keys |-> IF k \in DOMAIN f THEN f[k] ELSE d[k]] /\ t \in Docs
    BY ConnectTextType DEF ConnectText, Overlay
  <1>4. t # NoFile /\ d # NoFile
    BY <1>3, CodexConfigSentinels
  <1>5. d \in [Keys -> Values]
    BY DEF Docs
  <1> HIDE DEF s, f, t
  <1>6. ASSUME NEW now \in Docs, NEW k \in Keys
        PROVE  DisconnectText(now, s)[k] = IF k \in DOMAIN s.installed THEN d[k] ELSE now[k]
    BY <1>1, <1>2, <1>6 DEF DisconnectText, Realtime
  <1>7. ConnectionState(t, s) = "Connected"
    <2>1. DOMAIN f \subseteq Keys
      BY <1>1 DEF Keys, Realtime
    <2>2. OwnedIntact(t, s)
      BY <1>2, <1>3, <2>1 DEF OwnedIntact
    <2> QED BY <1>4, <2>2 DEF ConnectionState
  <1>8. ASSUME d["openai"] # e PROVE ConnectionState(d, s) = "NotConnected"
    <2>1. ~OwnedIntact(d, s)
      BY <1>1, <1>2, <1>8 DEF OwnedIntact
    <2>2. Withdrawn(d, s)
      BY <1>1, <1>2 DEF Withdrawn, Realtime
    <2> QED BY <1>4, <2>1, <2>2 DEF ConnectionState, Connectable
  <1>9. DisconnectText(t, s) = d
    <2>1. DisconnectText(t, s) \in [Keys -> {DisconnectText(t, s)[k] : k \in Keys}]
      BY DEF DisconnectText
    <2>2. \A k \in Keys : DisconnectText(t, s)[k] = d[k]
      BY <1>2, <1>3, <1>6
    <2> QED BY <1>5, <2>1, <2>2
  <1> QED BY <1>6, <1>7, <1>8, <1>9 DEF s, t

-----------------------------------------------------------------------------
(* Types *)

\* What the operation under way has read or prepared is of the right kind.
OpInv ==
  /\ op.pc \in {"bind", "inspect", "discard", "read", "save", "write", "rollback"}
       => op.endpoint \in Endpoints /\ serving = None
  /\ op.pc \in {"save", "write"} => op.seen \in Files /\ Connectable(DocOf(op.seen))
  /\ op.pc \in {"restore", "put", "forget"} => snapshot # NoSnapshot /\ serving # None
  /\ op.pc = "put" => op.seen \in Docs
  /\ op.pc \in {"idle", "restore"} => op.seen = None
  /\ op.pc = "inspect" => snapshot # NoSnapshot

TypeInv == TypeOK /\ OpInv

LEMMA TypeInvStep == TypeInv /\ [Next]_vars => TypeInv'
  <1> SUFFICES ASSUME TypeInv, [Next]_vars PROVE TypeInv'
    OBVIOUS
  <1> USE DEF TypeInv, TypeOK, OpInv, At, Goto, Return, Idle
  <1>1. ASSUME NEW e \in Endpoints, BeginConnect(e) PROVE TypeInv'
    BY <1>1 DEF BeginConnect
  <1>2. CASE Bind
    BY <1>2 DEF Bind
  <1>3. CASE Inspect
    BY <1>3 DEF Inspect
  <1>4. CASE Discard
    BY <1>4 DEF Discard
  <1>5. CASE Read
    BY <1>5 DEF Read
  <1>6. CASE Save
    <2>1. CASE op' = Idle /\ UNCHANGED snapshot
      BY <1>6, <2>1 DEF Save
    <2>2. CASE snapshot' = SnapshotOf(DocOf(op.seen), op.endpoint) /\ Goto("write", op.endpoint, op.seen)
      <3>1. snapshot' \in Snapshots
        BY <1>6, <2>2, DocOfType, ConnectTextType DEF Save
      <3> QED BY <1>6, <2>2, <3>1 DEF Save
    <2> QED BY <1>6, <2>1, <2>2 DEF Save
  <1>7. CASE Write
    <2>1. ConnectText(DocOf(op.seen), op.endpoint) \in Docs
      BY <1>7, DocOfType, ConnectTextType DEF Write
    <2> QED BY <1>7, <2>1 DEF Write, Files
  <1>8. CASE Rollback
    BY <1>8 DEF Rollback
  <1>9. CASE BeginDisconnect
    BY <1>9 DEF BeginDisconnect
  <1>10. CASE Restore
    BY <1>10 DEF Restore, Files
  <1>11. CASE Put
    <2>1. DisconnectText(op.seen, snapshot) \in Docs
      BY <1>11, DisconnectTextType DEF Put
    <2> QED BY <1>11, <2>1 DEF Put, Files
  <1>12. CASE Forget
    BY <1>12 DEF Forget
  <1>13. CASE Crash
    BY <1>13 DEF Crash
  <1>14. ASSUME NEW k \in Keys, NEW v \in UserValues, UserEdit(k, v) PROVE TypeInv'
    <2>1. config' \in Docs
      BY <1>14, DocOfType, EditType DEF UserEdit
    <2> QED BY <1>14, <2>1 DEF UserEdit, Files
  <1>15. CASE UserDelete
    BY <1>15 DEF UserDelete, Files
  <1>16. CASE UNCHANGED vars
    BY <1>16 DEF vars
  <1> QED
    BY <1>1, <1>2, <1>3, <1>4, <1>5, <1>6, <1>7, <1>8, <1>9, <1>10, <1>11, <1>12,
       <1>13, <1>14, <1>15, <1>16 DEF Next, Connect, Disconnect, Environment

LEMMA TypeInvHolds == Spec => []TypeInv
  <1>1. Init => TypeInv
    BY DEF Init, TypeInv, TypeOK, OpInv, Idle, UserDocs, Files
  <1> QED BY <1>1, TypeInvStep, PTL DEF Spec

\* The files, the live connection and the transaction under way always have
\* the shapes that TypeOK gives them.
THEOREM TypeCorrect == Spec => []TypeOK
  <1>1. TypeInv => TypeOK
    BY DEF TypeInv
  <1> QED BY <1>1, TypeInvHolds, PTL

-----------------------------------------------------------------------------
(* Safety *)

\* A snapshot is on disk in the steps that count on one, and in no other.
ServedInv ==
  /\ ServedHasSnapshot
  /\ op.pc \in {"read", "save"} => snapshot = NoSnapshot
  /\ op.pc \in {"discard", "write", "rollback"} => snapshot # NoSnapshot
  /\ op.pc = "write" => EndpointOf(snapshot) = op.endpoint

LEMMA ServedInvStep == TypeInv /\ ServedInv /\ [Next]_vars => ServedInv'
  <1> SUFFICES ASSUME TypeInv, ServedInv, [Next]_vars PROVE ServedInv'
    OBVIOUS
  <1> USE DEF TypeInv, TypeOK, OpInv, At, Goto, Return, Idle, ServedInv, ServedHasSnapshot
  <1>1. ASSUME NEW e \in Endpoints, BeginConnect(e) PROVE ServedInv'
    BY <1>1 DEF BeginConnect
  <1>2. CASE Bind
    BY <1>2 DEF Bind
  <1>3. CASE Inspect
    BY <1>3 DEF Inspect
  <1>4. CASE Discard
    BY <1>4 DEF Discard
  <1>5. CASE Read
    BY <1>5 DEF Read
  <1>6. CASE Save
    <2>1. CASE op' = Idle /\ UNCHANGED snapshot
      BY <1>6, <2>1 DEF Save
    <2>2. CASE snapshot' = SnapshotOf(DocOf(op.seen), op.endpoint) /\ Goto("write", op.endpoint, op.seen)
      <3>1. /\ SnapshotOf(DocOf(op.seen), op.endpoint) \in Snapshots
            /\ EndpointOf(SnapshotOf(DocOf(op.seen), op.endpoint)) = op.endpoint
        BY <1>6, DocOfType, ConnectTextType DEF Save
      <3> QED BY <1>6, <2>2, <3>1, CodexConfigSentinels DEF Save
    <2> QED BY <1>6, <2>1, <2>2 DEF Save
  <1>7. CASE Write
    BY <1>7 DEF Write
  <1>8. CASE Rollback
    BY <1>8 DEF Rollback
  <1>9. CASE BeginDisconnect
    BY <1>9 DEF BeginDisconnect
  <1>10. CASE Restore
    BY <1>10 DEF Restore
  <1>11. CASE Put
    BY <1>11 DEF Put
  <1>12. CASE Forget
    BY <1>12 DEF Forget
  <1>13. CASE Crash
    BY <1>13 DEF Crash
  <1>14. ASSUME NEW k \in Keys, NEW v \in UserValues, UserEdit(k, v) PROVE ServedInv'
    BY <1>14 DEF UserEdit
  <1>15. CASE UserDelete
    BY <1>15 DEF UserDelete
  <1>16. CASE UNCHANGED vars
    BY <1>16 DEF vars
  <1> QED
    BY <1>1, <1>2, <1>3, <1>4, <1>5, <1>6, <1>7, <1>8, <1>9, <1>10, <1>11, <1>12,
       <1>13, <1>14, <1>15, <1>16 DEF Next, Connect, Disconnect, Environment

LEMMA ServedInvHolds == Spec => []ServedInv
  <1>1. Init => ServedInv
    BY DEF Init, ServedInv, ServedHasSnapshot, Idle
  <1> QED BY <1>1, ServedInvStep, TypeInvHolds, PTL DEF Spec

\* A live connection can always be undone: its snapshot is on disk, whatever
\* fails, crashes, or is edited, and whichever Codex home is resolved.
THEOREM ServedHasSnapshotHolds == Spec => []ServedHasSnapshot
  <1>1. ServedInv => ServedHasSnapshot
    BY DEF ServedInv
  <1> QED BY <1>1, ServedInvHolds, PTL

\* What is known of config.toml as long as CODEX_HOME stays the same.  No
\* endpoint is ever taken for the user's own value, and where a transaction
\* is about to remove or has just written a snapshot, config.toml does not
\* depend on another one.
SafeInv ==
  /\ elsewhere = NoFile
  /\ Restorable
  /\ snapshot # NoSnapshot => snapshot.original \notin Endpoints
  /\ op.pc \in {"discard", "write", "rollback", "forget"} => ~Managed(config)
  /\ op.pc \in {"save", "write"} => ~Managed(op.seen)

LEMMA NoFileNotManaged == ~Managed(NoFile)
  BY CodexConfigAssumption DEF Managed, DocOf, EmptyDoc, Keys

\* No edit of a user makes config.toml point at TokenSaver.
LEMMA EditManaged ==
  ASSUME TypeOK, NEW k \in Keys, NEW v \in UserValues, UserEdit(k, v)
  PROVE  Managed(config') => Managed(config) /\ DocOf(config')["openai"] = DocOf(config)["openai"]
  <1>1. config' = [DocOf(config) EXCEPT ![k] = v] /\ DocOf(config) \in Docs
    BY DocOfType DEF UserEdit, TypeOK
  <1>2. DocOf(config') = config'
    BY <1>1, EditType, CodexConfigSentinels DEF DocOf
  <1>3. v \notin Endpoints
    BY CodexConfigAssumption DEF UserValues
  <1> QED BY <1>1, <1>2, <1>3 DEF Managed, Docs, Keys

\* The condition under which connect throws an old snapshot away.
LEMMA NotConnectedNotManaged ==
  ASSUME TypeOK, SafeInv, snapshot # NoSnapshot,
         ConnectionState(config, snapshot) = "NotConnected"
  PROVE  ~Managed(config)
  <1>1. config # NoFile /\ config["openai"] = snapshot.original
    BY DEF ConnectionState, Withdrawn
  <1> QED BY <1>1 DEF Managed, DocOf, SafeInv

LEMMA SafeInvStep ==
  TypeInv /\ ServedInv /\ SafeInv /\ ~HomeMoves /\ [Next]_vars => SafeInv'
  <1> SUFFICES ASSUME TypeInv, ServedInv, SafeInv, ~HomeMoves, [Next]_vars PROVE SafeInv'
    OBVIOUS
  <1> USE DEF TypeInv, TypeOK, OpInv, At, Goto, Return, Idle, ServedInv, SafeInv, Restorable
  <1>0. ~Managed(NoFile)
    BY NoFileNotManaged
  <1>1. ASSUME NEW e \in Endpoints, BeginConnect(e) PROVE SafeInv'
    BY <1>1 DEF BeginConnect, Managed
  <1>2. CASE Bind
    BY <1>2 DEF Bind, Managed
  <1>3. CASE Inspect
    BY <1>3, NotConnectedNotManaged DEF Inspect, Managed
  <1>4. CASE Discard
    BY <1>4, <1>0 DEF Discard, Managed
  <1>5. CASE Read
    BY <1>5 DEF Read, Managed
  <1>6. CASE Save
    <2>1. CASE op' = Idle /\ UNCHANGED snapshot
      BY <1>6, <2>1 DEF Save, Managed
    <2>2. CASE snapshot' = SnapshotOf(DocOf(op.seen), op.endpoint) /\ Goto("write", op.endpoint, op.seen)
      <3>1. /\ snapshot'.original = DocOf(op.seen)["openai"]
            /\ EndpointOf(snapshot') = op.endpoint
            /\ snapshot' # NoSnapshot
        BY <1>6, <2>2, DocOfType, ConnectTextType, CodexConfigSentinels DEF Save
      <3>2. ~Managed(op.seen) /\ ~Managed(config)
        BY <1>6 DEF Save
      <3> QED BY <1>6, <2>2, <3>1, <3>2, <1>0 DEF Save, Managed
    <2> QED BY <1>6, <2>1, <2>2 DEF Save
  <1>7. CASE Write
    <2>1. CASE config' = ConnectText(DocOf(op.seen), op.endpoint) /\ Return
      <3>1. config' \in Docs /\ config'["openai"] = op.endpoint
        BY <1>7, <2>1, DocOfType, ConnectTextType DEF Write
      <3>2. DocOf(config')["openai"] = op.endpoint
        BY <3>1, CodexConfigSentinels DEF DocOf
      <3> QED BY <1>7, <2>1, <3>2, <1>0 DEF Write, Managed
    <2> QED BY <1>7, <2>1 DEF Write, Managed
  <1>8. CASE Rollback
    BY <1>8, <1>0 DEF Rollback, Managed
  <1>9. CASE BeginDisconnect
    BY <1>9 DEF BeginDisconnect, Managed
  <1>10. CASE Restore
    BY <1>10 DEF Restore, Managed
  <1>11. CASE Put
    <2>1. CASE config' = DisconnectText(op.seen, snapshot) /\ Goto("forget", None, None)
      <3>1. config' \in Docs /\ config'["openai"] = snapshot.original
        BY <1>11, <2>1, DisconnectTextType DEF Put
      <3>2. ~Managed(config')
        BY <1>11, <3>1, CodexConfigSentinels DEF Managed, DocOf, Put
      <3> QED BY <1>11, <2>1, <3>2, <1>0 DEF Put, Managed
    <2> QED BY <1>11, <2>1 DEF Put, Managed
  <1>12. CASE Forget
    BY <1>12, <1>0 DEF Forget, Managed
  <1>13. CASE Crash
    BY <1>13 DEF Crash, Managed
  <1>14. ASSUME NEW k \in Keys, NEW v \in UserValues, UserEdit(k, v) PROVE SafeInv'
    <2>1. Managed(config') => Managed(config) /\ DocOf(config')["openai"] = DocOf(config)["openai"]
      BY <1>14, EditManaged
    <2> QED BY <1>14, <2>1, <1>0 DEF UserEdit, Managed
  <1>15. CASE UserDelete
    BY <1>15, <1>0 DEF UserDelete, Managed
  <1>16. CASE UNCHANGED vars
    BY <1>16 DEF vars, Managed
  <1> QED
    BY <1>1, <1>2, <1>3, <1>4, <1>5, <1>6, <1>7, <1>8, <1>9, <1>10, <1>11, <1>12,
       <1>13, <1>14, <1>15, <1>16 DEF Next, Connect, Disconnect, Environment

LEMMA SafeInvHolds == ASSUME ~HomeMoves PROVE Spec => []SafeInv
  <1>1. Init => SafeInv
    <2> SUFFICES ASSUME Init PROVE SafeInv
      OBVIOUS
    <2>1. ~Managed(config) /\ ~Managed(elsewhere)
      BY NoFileNotManaged DEF Init, UserDocs, Managed, DocOf
    <2> QED BY <2>1 DEF Init, SafeInv, Restorable, Idle
  <1>2. TypeInv /\ ServedInv /\ SafeInv /\ [Next]_vars => SafeInv'
    BY SafeInvStep
  <1> QED BY <1>1, <1>2, TypeInvHolds, ServedInvHolds, PTL DEF Spec

\* As long as CODEX_HOME names one directory, no sequence of crashes, failed
\* file operations and edits (between a read and its write too) leaves Codex
\* pointed at an endpoint with nothing to undo it.
THEOREM RestorableHolds == ASSUME ~HomeMoves PROVE Spec => []Restorable
  <1>1. SafeInv => Restorable
    BY DEF SafeInv
  <1>2. Spec => []SafeInv
    BY SafeInvHolds
  <1> QED BY <1>1, <1>2, PTL

\* And while a connection is live, Codex is pointed at it or at no endpoint.
THEOREM PointsAtServedHolds == ASSUME ~HomeMoves PROVE Spec => []PointsAtServed
  <1>1. TypeInv /\ ServedInv /\ SafeInv => PointsAtServed
    <2> SUFFICES ASSUME TypeInv, ServedInv, SafeInv, serving # None, Managed(config)
                 PROVE  config["openai"] = serving
      BY DEF PointsAtServed
    <2>1. config # NoFile /\ DocOf(config) = config
      BY NoFileNotManaged DEF DocOf
    <2> QED BY <2>1 DEF SafeInv, Restorable, ServedInv, ServedHasSnapshot
  <1>2. Spec => []SafeInv
    BY SafeInvHolds
  <1> QED BY <1>1, <1>2, TypeInvHolds, ServedInvHolds, PTL

-----------------------------------------------------------------------------
(* The text that is replaced *)

\* Whoever is about to write holds what config.toml says now.
SeenInv == op.pc \in {"save", "write", "put"} => op.seen = config

LEMMA SeenInvStep == ASSUME ~EditsRace PROVE TypeInv /\ SeenInv /\ [Next]_vars => SeenInv'
  <1> SUFFICES ASSUME TypeInv, SeenInv, [Next]_vars PROVE SeenInv'
    OBVIOUS
  <1> USE DEF SeenInv, TypeInv, TypeOK, OpInv, At, Goto, Return, Idle
  <1>1. CASE Connect
    BY <1>1 DEF Connect, BeginConnect, Bind, Inspect, Discard, Read, Save, Write, Rollback
  <1>2. CASE Disconnect
    BY <1>2 DEF Disconnect, BeginDisconnect, Restore, Put, Forget
  <1>3. CASE Crash
    BY <1>3 DEF Crash
  <1>4. ASSUME MayEdit, UNCHANGED op PROVE SeenInv'
    <2>1. op.pc \notin {"save", "write", "put"}
      BY <1>4, ConfigTransactionAssumption DEF MayEdit, Files
    <2> QED BY <1>4, <2>1
  <1>5. ASSUME NEW k \in Keys, NEW v \in UserValues, UserEdit(k, v) PROVE SeenInv'
    BY <1>4, <1>5 DEF UserEdit
  <1>6. CASE UserDelete
    BY <1>4, <1>6 DEF UserDelete
  <1>7. CASE UNCHANGED vars
    BY <1>7 DEF vars
  <1> QED BY <1>1, <1>2, <1>3, <1>5, <1>6, <1>7 DEF Next, Environment

\* Where nobody writes config.toml between TokenSaver's read and its rename, what
\* TokenSaver replaces is the text it checked, whatever fails or crashes: the
\* race that MCConfigRace shows is the only way to lose an edit.
THEOREM ReplacesWhatItReadHolds == ASSUME ~EditsRace PROVE Spec => ReplacesWhatItRead
  <1>1. Init => SeenInv
    BY DEF Init, SeenInv, Idle
  <1>2. Spec => []SeenInv
    BY <1>1, SeenInvStep, TypeInvHolds, PTL DEF Spec
  <1>3. SeenInv => (op.pc \in {"write", "put"} /\ op'.seen = None /\ config' # config /\ op' # op
                     => config = op.seen)
    BY DEF SeenInv
  <1> QED BY <1>2, <1>3, PTL DEF ReplacesWhatItRead

-----------------------------------------------------------------------------
(* The refinement *)

\* What TokenSaver installs under some key.
Lendable == Endpoints \cup CallUrls \cup {WsUrl}

\* The conditions of the refinement.
Undisturbed == ~HomeMoves /\ ~EditsRace /\ UserUrls \cap (CallUrls \cup {WsUrl}) = {}

\* A snapshot lends what TokenSaver derives; a text that was read is still what
\* config.toml says; and where a snapshot is about to be put to use or removed,
\* nothing is lent.
LeaseInv ==
  /\ snapshot # NoSnapshot =>
       \A k \in DOMAIN snapshot.installed : snapshot.installed[k] \in Lendable
  /\ op.pc \in {"save", "write", "put"} => op.seen = config
  /\ op.pc = "write" => snapshot = SnapshotOf(doc, op.endpoint) /\ Connectable(doc)
  /\ op.pc = "put" => OwnedIntact(config, snapshot)
  /\ op.pc \in {"discard", "write", "rollback", "forget"} => Lent = {}

Inv == TypeInv /\ ServedInv /\ SafeInv /\ LeaseInv

-----------------------------------------------------------------------------
(* Values, documents and snapshots *)

LEMMA UsersAreNotLendable ==
  ASSUME Undisturbed PROVE UserValues \cap Lendable = {}
BY CodexConfigAssumption DEF Undisturbed, UserValues, Lendable

LEMMA DocType == ASSUME Inv PROVE doc \in Docs
BY DocOfType DEF Inv, TypeInv, TypeOK, doc

LEMMA SnapshotParts ==
  ASSUME Inv, snapshot # NoSnapshot
  PROVE  /\ "openai" \in DOMAIN snapshot.installed
         /\ DOMAIN snapshot.installed \subseteq Keys
         /\ DOMAIN snapshot.installed \subseteq Realtime \cup {"openai"}
         /\ \A k \in DOMAIN snapshot.installed : snapshot.installed[k] \in Lendable
         /\ snapshot.original \in UserUrls \cup {Absent}
<1>1. snapshot \in Snapshots /\ snapshot.original \notin Endpoints
  BY DEF Inv, TypeInv, TypeOK, SafeInv
<1>2. PICK K \in SUBSET Realtime : snapshot.installed \in [K \cup {"openai"} -> Values]
  BY <1>1 DEF Snapshots, Installations
<1>3. snapshot.original \in UserUrls \cup {Absent}
  BY <1>1 DEF Snapshots
<1> QED
  BY <1>2, <1>3 DEF Inv, LeaseInv, Realtime, Keys

LEMMA InstalledFacts ==
  ASSUME NEW d \in Docs, Connectable(d), NEW e \in Endpoints
  PROVE  /\ DOMAIN Installed(d, e) = {"openai"} \cup {r \in Realtime : d[r] = Absent}
         /\ DOMAIN Installed(d, e) \subseteq Keys
         /\ \A k \in DOMAIN Installed(d, e) : Installed(d, e)[k] \in Lendable
         /\ SnapshotOf(d, e).installed = Installed(d, e)
         /\ SnapshotOf(d, e).original = d["openai"]
         /\ \A k \in Keys : ConnectText(d, e)[k] = IF k \in DOMAIN Installed(d, e)
                                                   THEN Installed(d, e)[k] ELSE d[k]
<1>1. CallFor[d["chatgpt"]] \in CallUrls
  BY CodexConfigAssumption DEF Docs, Connectable, UserValues
<1> QED
  BY <1>1 DEF Installed, Realtime, Keys, Lendable, SnapshotOf, ConnectText, Overlay

\* Nothing is lent of a document in which every installed key holds something of
\* the user's.
LEMMA NothingLent ==
  ASSUME Undisturbed, Inv, snapshot # NoSnapshot,
         \A k \in DOMAIN snapshot.installed : doc[k] \in UserValues
  PROVE  Lent = {}
BY SnapshotParts, UsersAreNotLendable DEF Lent

-----------------------------------------------------------------------------
(* The invariant *)

\* TokenSaver never derives the absence of a value.
LEMMA AbsentIsNotLendable == Absent \notin Lendable
BY CodexConfigAssumption DEF Lendable

\* Before config.toml is written, none of what the new snapshot installs is there.
LEMMA InstalledNow ==
  ASSUME NEW d \in Docs, Connectable(d), NEW e \in Endpoints, d["openai"] \notin Endpoints
  PROVE  \A k \in DOMAIN SnapshotOf(d, e).installed : d[k] # SnapshotOf(d, e).installed[k]
<1> SUFFICES ASSUME NEW k \in DOMAIN Installed(d, e) PROVE d[k] # Installed(d, e)[k]
  BY InstalledFacts
<1>1. Installed(d, e)[k] \in Lendable
  BY InstalledFacts
<1>2. CASE k = "openai"
  BY <1>2 DEF Installed
<1>3. CASE k \in Realtime /\ d[k] = Absent
  BY <1>1, <1>3, AbsentIsNotLendable
<1> QED
  BY <1>2, <1>3, InstalledFacts

\* config.toml and the snapshot as they are: what is lent stays as it is.
LEMMA LentKept == ASSUME UNCHANGED <<config, snapshot>> PROVE Lent' = Lent
BY DEF Lent, doc

LEMMA LeaseInvInit == Init => LeaseInv
BY DEF Init, LeaseInv, Idle

\* A user's edit takes back the key it sets and leaves the others.
LEMMA EditDoc ==
  ASSUME Undisturbed, Inv, NEW k \in Keys, NEW v \in UserValues, UserEdit(k, v)
  PROVE  /\ op.seen = None
         /\ doc' = [doc EXCEPT ![k] = v]
         /\ Lent' = Lent \ {k}
<1>1. op.seen = None
  BY DEF UserEdit, MayEdit, Undisturbed
<1>2. config' = [doc EXCEPT ![k] = v] /\ config' \in Docs
  BY DocType, EditType DEF UserEdit, doc
<1>3. doc' = [doc EXCEPT ![k] = v]
  BY <1>2, CodexConfigSentinels DEF doc, DocOf
<1>4. \A j \in Keys : doc'[j] = IF j = k THEN v ELSE doc[j]
  BY <1>3, DocType DEF Docs
<1>5. Lent' = Lent \ {k}
  <2>1. CASE snapshot = NoSnapshot
    BY <2>1 DEF Lent, UserEdit
  <2>2. CASE snapshot # NoSnapshot
    BY <1>4, <2>2, SnapshotParts, UsersAreNotLendable DEF Lent, UserEdit
  <2> QED
    BY <2>1, <2>2
<1> QED
  BY <1>1, <1>3, <1>5

LEMMA DeleteDoc ==
  ASSUME Undisturbed, Inv, UserDelete
  PROVE  op.seen = None /\ doc' = EmptyDoc /\ Lent' = {}
<1>1. op.seen = None
  BY DEF UserDelete, MayEdit, Undisturbed
<1>2. doc' = EmptyDoc
  BY DEF UserDelete, doc, DocOf
<1>3. Lent' = {}
  <2>1. CASE snapshot = NoSnapshot
    BY <2>1 DEF Lent, UserDelete
  <2>2. CASE snapshot # NoSnapshot
    BY <1>2, <2>2, SnapshotParts, AbsentIsNotLendable DEF Lent, UserDelete, EmptyDoc
  <2> QED
    BY <2>1, <2>2
<1> QED
  BY <1>1, <1>2, <1>3

\* Restoring gives every key back.
LEMMA PutDoc ==
  ASSUME Undisturbed, Inv, At("put"), config' = DisconnectText(op.seen, snapshot),
         UNCHANGED snapshot
  PROVE  /\ snapshot # NoSnapshot
         /\ doc' = DisconnectText(doc, snapshot)
         /\ Lent = DOMAIN snapshot.installed
         /\ Lent' = {}
<1>1. /\ snapshot # NoSnapshot /\ snapshot \in Snapshots
      /\ op.seen = config /\ config \in Docs /\ OwnedIntact(config, snapshot)
  BY DEF Inv, TypeInv, TypeOK, OpInv, LeaseInv, At
<1>2. doc = config
  BY <1>1, CodexConfigSentinels DEF doc, DocOf
<1>3. doc' = DisconnectText(doc, snapshot)
  BY <1>1, <1>2, DisconnectTextType, CodexConfigSentinels DEF doc, DocOf
<1>4. Lent = DOMAIN snapshot.installed
  BY <1>1, <1>2 DEF Lent, OwnedIntact
<1>5. \A k \in DOMAIN snapshot.installed : doc'[k] \in UserValues
  BY <1>1, <1>3, SnapshotParts DEF DisconnectText, UserValues
<1>6. Lent' = {}
  BY <1>1, <1>5, SnapshotParts, UsersAreNotLendable DEF Lent
<1> QED
  BY <1>1, <1>3, <1>4, <1>6

\* Writing lends every key the snapshot installs.
LEMMA WriteDoc ==
  ASSUME Undisturbed, Inv, At("write"), config' = ConnectText(DocOf(op.seen), op.endpoint),
         UNCHANGED snapshot
  PROVE  /\ snapshot # NoSnapshot
         /\ snapshot = SnapshotOf(doc, op.endpoint) /\ Connectable(doc)
         /\ op.endpoint \in Endpoints
         /\ doc' = ConnectText(doc, op.endpoint)
         /\ Lent = {}
         /\ Lent' = DOMAIN Installed(doc, op.endpoint)
<1>1. /\ snapshot # NoSnapshot /\ op.endpoint \in Endpoints
      /\ snapshot = SnapshotOf(doc, op.endpoint) /\ Connectable(doc)
      /\ op.seen = config /\ Lent = {}
  BY DEF Inv, TypeInv, OpInv, ServedInv, LeaseInv, At
<1>2. doc' = ConnectText(doc, op.endpoint)
  BY <1>1, DocType, ConnectTextType, CodexConfigSentinels DEF doc, DocOf
<1>3. Lent' = DOMAIN Installed(doc, op.endpoint)
  <2> DEFINE f == Installed(doc, op.endpoint)
  <2>1. snapshot.installed = f /\ \A k \in DOMAIN f : ConnectText(doc, op.endpoint)[k] = f[k]
    BY <1>1, DocType, InstalledFacts
  <2> HIDE DEF f
  <2>2. Lent' = DOMAIN f
    BY <1>1, <1>2, <2>1 DEF Lent
  <2> QED
    BY <2>2 DEF f
<1> QED
  BY <1>1, <1>2, <1>3

LEMMA LeaseInvStep ==
  ASSUME Undisturbed, Inv, [Next]_vars PROVE LeaseInv'
<1> USE DEF At, Goto, Return, Idle
<1>0. /\ LeaseInv /\ OpInv /\ op \in [pc : {op.pc}, endpoint : {op.endpoint}, seen : {op.seen}]
  BY DEF Inv, TypeInv, TypeOK
<1>1. ASSUME NEW e \in Endpoints, BeginConnect(e) PROVE LeaseInv'
  BY <1>0, <1>1 DEF BeginConnect, LeaseInv
<1>2. CASE Bind
  BY <1>0, <1>2 DEF Bind, LeaseInv
<1>3. CASE Inspect
  <2>1. CASE ConnectionState(config, snapshot) = "NotConnected" /\ snapshot # NoSnapshot
    <3>1. config # NoFile /\ Withdrawn(config, snapshot)
      BY <2>1 DEF ConnectionState
    <3>2. doc = config
      BY <3>1 DEF doc, DocOf
    <3>3. Lent = {}
      BY <2>1, <3>1, <3>2, SnapshotParts, NothingLent DEF Withdrawn, UserValues, Realtime
    <3> QED
      BY <1>0, <1>3, <3>3, LentKept DEF Inspect, LeaseInv
  <2> QED
    BY <1>0, <1>3, <2>1 DEF Inspect, LeaseInv, OpInv
<1>4. CASE Discard
  BY <1>0, <1>4 DEF Discard, LeaseInv
<1>5. CASE Read
  BY <1>0, <1>5 DEF Read, LeaseInv
<1>6. CASE Save
  <2>1. CASE Goto("write", op.endpoint, op.seen) /\ snapshot' = SnapshotOf(DocOf(op.seen), op.endpoint)
    <3>1. /\ op.seen = config /\ Connectable(doc) /\ op.endpoint \in Endpoints
          /\ doc["openai"] \notin Endpoints /\ UNCHANGED config
      BY <1>0, <1>6 DEF Save, LeaseInv, OpInv, Inv, SafeInv, Managed, doc
    <3>2. snapshot' = SnapshotOf(doc, op.endpoint) /\ doc' = doc
      BY <2>1, <3>1 DEF doc
    <3>3. \A k \in DOMAIN snapshot'.installed :
            doc[k] # snapshot'.installed[k] /\ snapshot'.installed[k] \in Lendable
      <4> DEFINE s == SnapshotOf(doc, op.endpoint)
      <4>1. doc \in Docs
        BY DocType
      <4>2. \A k \in DOMAIN s.installed : doc[k] # s.installed[k]
        BY <3>1, <4>1, InstalledNow
      <4>3. \A k \in DOMAIN s.installed : s.installed[k] \in Lendable
        BY <3>1, <4>1, InstalledFacts
      <4> HIDE DEF s
      <4>4. snapshot' = s
        BY <3>2 DEF s
      <4> QED
        BY <4>2, <4>3, <4>4
    <3>4. Lent' = {}
      BY <3>2, <3>3 DEF Lent
    <3> QED
      BY <2>1, <3>1, <3>2, <3>3, <3>4 DEF LeaseInv
  <2> QED
    BY <1>0, <1>6, <2>1 DEF Save, LeaseInv
<1>7. CASE Write
  <2>1. CASE Return
    BY <1>0, <1>7, <2>1 DEF Write, LeaseInv
  <2> QED
    BY <1>0, <1>7, <2>1, LentKept DEF Write, LeaseInv
<1>8. CASE Rollback
  BY <1>0, <1>8 DEF Rollback, LeaseInv
<1>9. CASE BeginDisconnect
  BY <1>0, <1>9 DEF BeginDisconnect, LeaseInv
<1>10. CASE Restore
  BY <1>0, <1>10 DEF Restore, LeaseInv
<1>11. CASE Put
  <2>1. CASE config' = DisconnectText(op.seen, snapshot) /\ Goto("forget", None, None)
    BY <1>0, <1>11, <2>1, PutDoc DEF Put, LeaseInv
  <2> QED
    BY <1>0, <1>11, <2>1 DEF Put, LeaseInv
<1>12. CASE Forget
  BY <1>0, <1>12 DEF Forget, LeaseInv
<1>13. CASE Crash
  BY <1>0, <1>13 DEF Crash, LeaseInv
<1>14. ASSUME op.seen = None, Lent = {} => Lent' = {}, UNCHANGED <<snapshot, op>> PROVE LeaseInv'
  <2>1. op.pc \notin {"save", "write", "put"}
    BY <1>0, <1>14, ConfigTransactionAssumption DEF OpInv, Files
  <2> QED
    BY <1>0, <1>14, <2>1 DEF LeaseInv
<1>15. ASSUME NEW k \in Keys, NEW v \in UserValues, UserEdit(k, v) PROVE LeaseInv'
  BY <1>14, <1>15, EditDoc DEF UserEdit
<1>16. CASE UserDelete
  BY <1>14, <1>16, DeleteDoc DEF UserDelete
<1>17. CASE UNCHANGED vars
  BY <1>0, <1>17, LentKept DEF vars, LeaseInv, doc
<1> QED
  BY <1>1, <1>2, <1>3, <1>4, <1>5, <1>6, <1>7, <1>8, <1>9, <1>10, <1>11, <1>12, <1>13,
     <1>15, <1>16, <1>17 DEF Next, Connect, Disconnect, Environment

LEMMA Invariance == ASSUME Undisturbed PROVE Spec => []Inv
<1>1. Spec => []SafeInv
  BY SafeInvHolds DEF Undisturbed
<1>2. TypeInv /\ ServedInv /\ SafeInv /\ LeaseInv /\ [Next]_vars => LeaseInv'
  BY LeaseInvStep DEF Inv
<1>3. TypeInv /\ ServedInv /\ SafeInv /\ LeaseInv => Inv
  BY DEF Inv
<1> QED
  BY <1>1, <1>2, <1>3, LeaseInvInit, TypeInvHolds, ServedInvHolds, PTL DEF Spec

-----------------------------------------------------------------------------
(* The refinement *)

LEMMA InitLease == ASSUME Init PROVE Lease!Init
<1>1. Lent = {} /\ doc \in Docs
  BY DocOfType DEF Init, Lent, UserDocs, Files, doc
<1>2. userDoc = doc
  BY <1>1 DEF userDoc, Docs
<1> QED
  BY <1>1, <1>2 DEF Lease!Init, leaseOf, takenOf, Lease!NoLease, Lease!Docs, Docs, Lease!Keys,
     Keys, Lease!Values, Values, Lease!UserValues, UserValues

\* Where nothing is lent, before and after, only config.toml counts.
LEMMA UserDocIfNothingLent == ASSUME Inv, Lent = {} PROVE userDoc = doc
<1>1. doc \in Docs
  BY DocType
<1> QED
  BY <1>1 DEF userDoc, Docs

LEMMA SameView ==
  ASSUME UNCHANGED config, UNCHANGED snapshot \/ (Lent = {} /\ Lent' = {})
  PROVE  UNCHANGED Lease!vars
<1>1. doc' = doc
  BY DEF doc
<1>2. CASE UNCHANGED snapshot
  <2>1. Lent' = Lent
    BY <1>1, <1>2 DEF Lent
  <2> QED
    BY <1>1, <1>2, <2>1 DEF Lease!vars, userDoc, leaseOf, takenOf
<1>3. CASE Lent = {} /\ Lent' = {}
  BY <1>1, <1>3 DEF Lease!vars, userDoc, leaseOf, takenOf
<1> QED
  BY <1>2, <1>3

LEMMA Borrowing ==
  ASSUME Undisturbed, Inv, At("write"), config' = ConnectText(DocOf(op.seen), op.endpoint),
         UNCHANGED snapshot
  PROVE  Lease!Borrow
<1> DEFINE f == Installed(doc, op.endpoint)
<1>1. /\ snapshot # NoSnapshot /\ op.endpoint \in Endpoints
      /\ snapshot = SnapshotOf(doc, op.endpoint) /\ Connectable(doc)
      /\ doc' = ConnectText(doc, op.endpoint) /\ Lent = {} /\ Lent' = DOMAIN f
  BY WriteDoc
<1>2. /\ DOMAIN f = {"openai"} \cup {r \in Realtime : doc[r] = Absent}
      /\ snapshot.installed = f /\ snapshot.original = doc["openai"]
      /\ \A k \in Keys : doc'[k] = IF k \in DOMAIN f THEN f[k] ELSE doc[k]
  BY <1>1, DocType, InstalledFacts
<1>3. f = Lease!Installed(doc, op.endpoint)
  BY DEF Installed, Lease!Installed, Realtime, Lease!Realtime
<1>4. userDoc = doc
  BY <1>1, UserDocIfNothingLent
<1> HIDE DEF f
<1>5. userDoc' = userDoc
  <2>1. doc \in [Keys -> Values]
    BY DocType DEF Docs
  <2>2. \A k \in Keys : (IF k \notin Lent' THEN doc'[k]
                         ELSE IF k = "openai" THEN snapshot'.original ELSE Absent) = doc[k]
    BY <1>1, <1>2 DEF Keys, Realtime
  <2>3. userDoc' = doc
    BY <2>1, <2>2 DEF userDoc
  <2> QED
    BY <1>4, <2>3
<1>6. leaseOf = Lease!NoLease /\ leaseOf' = f /\ takenOf = {} /\ takenOf' = {}
  BY <1>1, <1>2 DEF leaseOf, takenOf, Lease!NoLease
<1>7. Lease!Connectable(userDoc)
  BY <1>1, <1>4 DEF Lease!Connectable, Connectable
<1> QED
  BY <1>1, <1>3, <1>4, <1>5, <1>6, <1>7 DEF Lease!Borrow

LEMMA GivingBack ==
  ASSUME Undisturbed, Inv, At("put"), config' = DisconnectText(op.seen, snapshot),
         UNCHANGED snapshot
  PROVE  Lease!GiveBack
<1>1. /\ snapshot # NoSnapshot /\ doc' = DisconnectText(doc, snapshot)
      /\ Lent = DOMAIN snapshot.installed /\ Lent' = {}
  BY PutDoc
<1>2. "openai" \in DOMAIN snapshot.installed
  BY <1>1, SnapshotParts
<1>3. userDoc' = userDoc
  BY <1>1, <1>2 DEF userDoc, DisconnectText
<1>4. leaseOf = snapshot.installed /\ leaseOf' = Lease!NoLease /\ takenOf = {} /\ takenOf' = {}
  BY <1>1, <1>2 DEF leaseOf, takenOf, Lease!NoLease
<1>5. DOMAIN Lease!NoLease = {}
  BY DEF Lease!NoLease
<1>6. leaseOf # Lease!NoLease
  BY <1>2, <1>4, <1>5
<1> QED
  BY <1>3, <1>4, <1>6 DEF Lease!GiveBack

\* A user who sets the keys K takes back those of them that are lent.
LEMMA Taking ==
  ASSUME Inv, UNCHANGED snapshot, NEW K \in SUBSET Keys, NEW d,
         Lent' = Lent \ K,
         \A k \in Keys : doc'[k] = IF k \in K THEN d[k] ELSE doc[k]
  PROVE  Lease!Edit(K, d)
<1> DEFINE owned == (takenOf \cup K) \cap DOMAIN leaseOf
<1>1. userDoc' = [k \in Lease!Keys |-> IF k \in K THEN d[k] ELSE userDoc[k]]
  BY DEF userDoc, Lease!Keys, Keys
<1>2. CASE Lent = {}
  <2>1. leaseOf = Lease!NoLease /\ leaseOf' = Lease!NoLease /\ takenOf = {} /\ takenOf' = {}
    BY <1>2 DEF leaseOf, takenOf, Lease!NoLease
  <2>2. DOMAIN leaseOf = {}
    BY <2>1 DEF Lease!NoLease
  <2> QED
    BY <1>1, <2>1, <2>2 DEF Lease!Edit
<1>3. CASE Lent # {}
  <2>1. snapshot # NoSnapshot /\ Lent \subseteq DOMAIN snapshot.installed
    BY <1>3 DEF Lent
  <2>2. leaseOf = snapshot.installed /\ takenOf = DOMAIN snapshot.installed \ Lent
    BY <1>3 DEF leaseOf, takenOf
  <2>3. owned = DOMAIN snapshot.installed \ Lent'
    BY <2>1, <2>2
  <2>4. CASE Lent' = {}
    <3>1. leaseOf' = Lease!NoLease /\ takenOf' = {} /\ owned = DOMAIN leaseOf
      BY <2>2, <2>3, <2>4 DEF leaseOf, takenOf, Lease!NoLease
    <3> QED
      BY <1>1, <3>1 DEF Lease!Edit
  <2>5. CASE Lent' # {}
    <3>1. leaseOf' = leaseOf /\ takenOf' = owned /\ owned # DOMAIN leaseOf
      BY <2>1, <2>2, <2>3, <2>5 DEF leaseOf, takenOf
    <3> QED
      BY <1>1, <3>1 DEF Lease!Edit
  <2> QED
    BY <2>4, <2>5
<1> QED
  BY <1>2, <1>3

LEMMA StepLease ==
  ASSUME Undisturbed, Inv, LeaseInv', [Next]_vars PROVE [Lease!Next]_(Lease!vars)
<1>0. LeaseInv /\ TypeInv /\ ServedInv
  BY DEF Inv
<1>1. ASSUME NEW e \in Endpoints, BeginConnect(e) PROVE UNCHANGED Lease!vars
  BY <1>1, SameView DEF BeginConnect
<1>2. CASE Bind
  BY <1>2, SameView DEF Bind
<1>3. CASE Inspect
  BY <1>3, SameView DEF Inspect
<1>4. CASE Discard
  <2>1. Lent = {} /\ (snapshot' = NoSnapshot => Lent' = {})
    BY <1>0, <1>4 DEF Discard, At, LeaseInv, Lent
  <2> QED
    BY <1>4, <2>1, SameView DEF Discard
<1>5. CASE Read
  BY <1>5, SameView DEF Read
<1>6. CASE Save
  <2>1. CASE Goto("write", op.endpoint, op.seen)
    <3>1. snapshot = NoSnapshot /\ Lent' = {}
      BY <1>0, <1>6, <2>1 DEF Save, At, Goto, LeaseInv, ServedInv
    <3>2. Lent = {}
      BY <3>1 DEF Lent
    <3> QED
      BY <1>6, <3>1, <3>2, SameView DEF Save
  <2> QED
    BY <1>6, <2>1, SameView DEF Save
<1>7. CASE Write
  BY <1>7, Borrowing, SameView DEF Write, Lease!Next
<1>8. CASE Rollback
  <2>1. Lent = {} /\ (snapshot' = NoSnapshot => Lent' = {})
    BY <1>0, <1>8 DEF Rollback, At, LeaseInv, Lent
  <2> QED
    BY <1>8, <2>1, SameView DEF Rollback
<1>9. CASE BeginDisconnect
  BY <1>9, SameView DEF BeginDisconnect
<1>10. CASE Restore
  BY <1>10, SameView DEF Restore
<1>11. CASE Put
  BY <1>11, GivingBack, SameView DEF Put, Lease!Next
<1>12. CASE Forget
  <2>1. Lent = {} /\ (snapshot' = NoSnapshot => Lent' = {})
    BY <1>0, <1>12 DEF Forget, At, LeaseInv, Lent
  <2> QED
    BY <1>12, <2>1, SameView DEF Forget
<1>13. CASE Crash
  BY <1>13, SameView DEF Crash, Undisturbed
<1>14. ASSUME NEW k \in Keys, NEW v \in UserValues, UserEdit(k, v)
      PROVE Lease!Edit({k}, [Lease!EmptyDoc EXCEPT ![k] = v])
  <2>1. doc' = [doc EXCEPT ![k] = v] /\ Lent' = Lent \ {k} /\ UNCHANGED snapshot
    BY <1>14, EditDoc DEF UserEdit
  <2>2. \A j \in Keys : doc'[j] = IF j \in {k} THEN [Lease!EmptyDoc EXCEPT ![k] = v][j] ELSE doc[j]
    BY <2>1, DocType DEF Docs, Lease!EmptyDoc, Lease!Keys, Keys
  <2> QED
    BY <2>1, <2>2, Taking
<1>15. CASE UserDelete
  <2>1. doc' = EmptyDoc /\ Lent' = {} /\ UNCHANGED snapshot
    BY <1>15, DeleteDoc DEF UserDelete
  <2>2. Lent \subseteq Keys
    BY SnapshotParts DEF Lent
  <2>3. Lease!Edit(Keys, Lease!EmptyDoc)
    BY <2>1, <2>2, Taking DEF EmptyDoc, Lease!EmptyDoc, Lease!Keys, Keys
  <2> QED
    BY <2>3 DEF Lease!Next, Lease!Keys, Keys
<1>16. CASE UNCHANGED vars
  BY <1>16, SameView DEF vars
<1>17. ASSUME NEW k \in Keys, NEW v \in UserValues, UserEdit(k, v) PROVE Lease!Next
  BY <1>14, <1>17 DEF Lease!Next, Lease!Keys, Keys, Lease!UserValues, UserValues
<1> QED
  BY <1>1, <1>2, <1>3, <1>4, <1>5, <1>6, <1>7, <1>8, <1>9, <1>10, <1>11, <1>12, <1>13,
     <1>15, <1>16, <1>17 DEF Next, Connect, Disconnect, Environment

\* Where CODEX_HOME stays the same, nobody writes in the middle of a transaction
\* and the user's URLs are not TokenSaver's, the user of config.toml sees whole
\* connects and disconnects only, and a key that was taken back is never
\* overwritten, whatever fails or crashes.
THEOREM ImplementsLeaseHolds ==
  ASSUME ~HomeMoves, ~EditsRace, UserUrls \cap (CallUrls \cup {WsUrl}) = {}
  PROVE  Spec => ImplementsLease
<1>1. Undisturbed
  BY DEF Undisturbed
<1>2. Spec => []Inv
  BY <1>1, Invariance
<1>3. Inv /\ Inv' /\ [Next]_vars => [Lease!Next]_(Lease!vars)
  BY <1>1, StepLease DEF Inv
<1>4. Init => Lease!Init
  BY InitLease
<1> QED
  BY <1>2, <1>3, <1>4, PTL DEF Spec, ImplementsLease, Lease!Spec

-----------------------------------------------------------------------------
(* The view of the desktop runtime *)

\* A snapshot names an endpoint, and the one that is about to be put to use is
\* that of the text that is about to be replaced.
LinkInv ==
  /\ snapshot # NoSnapshot => EndpointOf(snapshot) \in Endpoints
  /\ op.pc = "write" => snapshot = SnapshotOf(DocOf(op.seen), op.endpoint)

Known == TypeInv /\ ServedInv /\ SafeInv /\ LinkInv

LEMMA LinkInvStep == TypeInv /\ LinkInv /\ [Next]_vars => LinkInv'
<1> SUFFICES ASSUME TypeInv, LinkInv, [Next]_vars PROVE LinkInv'
  OBVIOUS
<1> USE DEF LinkInv, At, Goto, Return, Idle
<1>1. CASE Save
  <2>1. CASE snapshot' = SnapshotOf(DocOf(op.seen), op.endpoint) /\ Goto("write", op.endpoint, op.seen)
    <3>1. /\ DocOf(op.seen) \in Docs /\ Connectable(DocOf(op.seen)) /\ op.endpoint \in Endpoints
      BY <1>1, DocOfType DEF Save, TypeInv, OpInv
    <3>2. EndpointOf(snapshot') = op.endpoint
      BY <2>1, <3>1, ConnectTextType
    <3> QED
      BY <2>1, <3>1, <3>2
  <2> QED
    BY <1>1, <2>1 DEF Save
<1>2. CASE Connect /\ ~Save
  BY <1>2 DEF Connect, BeginConnect, Bind, Inspect, Discard, Read, Write, Rollback
<1>3. CASE Disconnect
  BY <1>3 DEF Disconnect, BeginDisconnect, Restore, Put, Forget
<1>4. CASE Environment
  BY <1>4 DEF Environment, Crash, UserEdit, UserDelete
<1>5. CASE UNCHANGED vars
  BY <1>5 DEF vars
<1> QED
  BY <1>1, <1>2, <1>3, <1>4, <1>5 DEF Next

LEMMA KnownHolds == ASSUME ~HomeMoves PROVE Spec => []Known
<1>1. Init => LinkInv
  BY DEF Init, LinkInv, Idle
<1>2. Spec => []SafeInv
  BY SafeInvHolds
<1>3. TypeInv /\ ServedInv /\ SafeInv /\ LinkInv => Known
  BY DEF Known
<1> QED
  BY <1>1, <1>2, <1>3, LinkInvStep, TypeInvHolds, ServedInvHolds, PTL DEF Spec

\* What an invariant says of config.toml and the snapshot.
Undoable(file, snap) ==
  /\ snap \in Snapshots \cup {NoSnapshot}
  /\ snap # NoSnapshot => EndpointOf(snap) \in Endpoints
  /\ Managed(file) => snap # NoSnapshot /\ snap.original \notin Endpoints

\* A managed config.toml is pointed at TokenSaver in every view of it, and one
\* that is not managed in none.
LEMMA ViewOfFile ==
  ASSUME NEW file, NEW snap, Undoable(file, snap)
  PROVE  /\ View(file, snap) \in Link!Views
         /\ View(file, snap) \in Link!PointedHere <=> Managed(file)
         /\ ~Managed(file) => View(file, NoSnapshot) = "own"
         /\ snap = NoSnapshot => View(file, snap) = "own"
<1>1. Managed(file) => file # NoFile /\ DocOf(file) = file
  BY NoFileNotManaged DEF DocOf
<1>2. ASSUME Managed(file) PROVE ConnectionState(file, snap) \in {"Connected", "Drifted"}
  <2>1. file["openai"] \in Endpoints
    BY <1>1, <1>2 DEF Managed
  <2>2. file["openai"] # NonString /\ file["openai"] # snap.original
    BY <1>2, <2>1, CodexConfigAssumption DEF Undoable
  <2> QED
    BY <1>1, <1>2, <2>2 DEF ConnectionState, Withdrawn
<1>3. ASSUME ~Managed(file), snap # NoSnapshot
      PROVE ConnectionState(file, snap) # "Connected"
  <2>1. CASE file = NoFile
    BY <2>1 DEF ConnectionState
  <2>2. CASE file # NoFile
    <3>1. snap \in Snapshots /\ EndpointOf(snap) \in Endpoints
      BY <1>3 DEF Undoable
    <3>2. "openai" \in DOMAIN snap.installed
      <4>1. PICK K \in SUBSET Realtime : snap.installed \in [K \cup {"openai"} -> Values]
        BY <3>1 DEF Snapshots, Installations
      <4> QED
        BY <4>1
    <3>3. ~OwnedIntact(file, snap)
      BY <1>3, <2>2, <3>1, <3>2 DEF OwnedIntact, EndpointOf, Managed, DocOf
    <3> QED
      BY <2>2, <3>3 DEF ConnectionState
  <2> QED
    BY <2>1, <2>2
<1>4. ConnectionState(file, snap) \in {"NotConnected", "Connected", "Error", "Drifted"}
  BY DEF ConnectionState
<1> QED
  BY <1>2, <1>3, <1>4 DEF Undoable, View, Link!Views, Link!PointedHere

LEMMA UndoableNow == Known => Undoable(config, snapshot)
BY DEF Known, TypeInv, TypeOK, SafeInv, Restorable, LinkInv, Undoable

LEMMA ViewOfUnmanaged ==
  ASSUME Known, ~Managed(config) PROVE View(config, snapshot) \in Link!Foreign
BY UndoableNow, ViewOfFile DEF Link!Foreign

\* Where no operation hides what it does, the view is that of the files.
Open == op.pc \notin {"write", "rollback", "put", "forget", "discard"}

LEMMA OpenView ==
  ASSUME Open
  PROVE  linkConfig = View(config, snapshot) /\ (linkSnapshot <=> snapshot # NoSnapshot)
BY DEF Open, linkConfig, linkSnapshot, Connecting, Disconnecting, At

LEMMA ConnectingView ==
  ASSUME op.pc \in {"write", "rollback"} PROVE linkConfig = "own" /\ ~linkSnapshot
BY DEF linkConfig, linkSnapshot, Connecting

LEMMA DiscardingView ==
  ASSUME op.pc = "discard"
  PROVE  linkConfig = "own" /\ (linkSnapshot <=> snapshot # NoSnapshot)
BY DEF linkConfig, linkSnapshot, Connecting, At

LEMMA DisconnectingView ==
  ASSUME op.pc \in {"put", "forget"}
  PROVE  linkConfig = "ours" /\ (linkSnapshot <=> snapshot # NoSnapshot)
BY DEF linkConfig, linkSnapshot, Connecting, Disconnecting, At

\* Where nothing is hidden, before and after, only the files count.
LEMMA SameLink ==
  ASSUME Open, Open', UNCHANGED <<config, snapshot, serving>>
  PROVE  UNCHANGED <<linkSnapshot, linkConfig, serving # None>>
BY DEF View, ConnectionState, linkSnapshot, linkConfig, Open, Connecting, Disconnecting, At

\* The text that connecting writes is the one the snapshot describes.
LEMMA WrittenView ==
  ASSUME Known, At("write"), config' = ConnectText(DocOf(op.seen), op.endpoint),
         UNCHANGED snapshot
  PROVE  View(config', snapshot') = "ours"
<1> DEFINE d == DocOf(op.seen)
<1>1. /\ snapshot = SnapshotOf(d, op.endpoint) /\ snapshot # NoSnapshot
      /\ d \in Docs /\ Connectable(d) /\ op.endpoint \in Endpoints
  BY DocOfType DEF Known, TypeInv, OpInv, ServedInv, LinkInv, At
<1>2. \A k \in DOMAIN snapshot.installed : ConnectText(d, op.endpoint)[k] = snapshot.installed[k]
  <2> DEFINE f == Installed(d, op.endpoint)
  <2>1. /\ snapshot.installed = f /\ DOMAIN f \subseteq Keys
        /\ \A k \in Keys : ConnectText(d, op.endpoint)[k] = IF k \in DOMAIN f THEN f[k] ELSE d[k]
    BY <1>1, InstalledFacts
  <2> HIDE DEF f
  <2> QED
    BY <2>1
<1>3. config' # NoFile
  BY <1>1, ConnectTextType, CodexConfigSentinels
<1>4. OwnedIntact(config', snapshot)
  BY <1>2 DEF OwnedIntact
<1> QED
  BY <1>1, <1>3, <1>4 DEF View, ConnectionState

\* An edit of the user's changes the view as CodexLink says, or not at all where
\* an operation hides it.
LEMMA EditedView ==
  ASSUME Known, Known', UNCHANGED <<snapshot, serving, op>>,
         Managed(config') => Managed(config)
  PROVE  [Link!Next]_<<linkSnapshot, linkConfig, serving # None>>
<1>1. CASE ~Open
  <2>1. op' = op
    OBVIOUS
  <2> QED
    BY <1>1, <2>1, ConnectingView, DiscardingView, DisconnectingView
    DEF Open, linkSnapshot, linkConfig, Connecting, Disconnecting, At
<1>2. Undoable(config, snapshot) /\ Undoable(config', snapshot')
  BY DEF Known, TypeInv, TypeOK, SafeInv, Restorable, LinkInv, Undoable, Managed
<1>3. ASSUME Open
      PROVE  /\ linkConfig = View(config, snapshot) /\ linkConfig' = View(config', snapshot')
             /\ linkSnapshot = (snapshot # NoSnapshot) /\ linkSnapshot' = linkSnapshot
  BY <1>3 DEF Open, linkConfig, linkSnapshot, Connecting, Disconnecting, At, View,
     ConnectionState, Managed
<1>4. CASE Open /\ snapshot = NoSnapshot
  <2>1. View(config, snapshot) = "own" /\ View(config', snapshot') = "own"
    BY <1>2, <1>4, ViewOfFile
  <2> QED
    BY <1>3, <1>4, <2>1
<1>5. CASE Open /\ snapshot # NoSnapshot
  <2>1. /\ View(config', snapshot') \in Link!Views
        /\ View(config', snapshot') \in Link!PointedHere <=> Managed(config')
        /\ View(config, snapshot) \in Link!PointedHere <=> Managed(config)
    BY <1>2, ViewOfFile
  <2>2. Link!UserEdits
    BY <1>3, <1>5, <2>1 DEF Link!UserEdits, Link!Foreign
  <2> QED
    BY <2>2 DEF Link!Next
<1> QED
  BY <1>1, <1>4, <1>5

LEMMA StepLink ==
  ASSUME Known, Known', ~HomeMoves, [Next]_vars
  PROVE  [Link!Next]_<<linkSnapshot, linkConfig, serving # None>>
<1> USE DEF At, Goto, Return, Idle
<1>0. /\ TypeInv /\ ServedInv /\ SafeInv /\ OpInv
      /\ op \in [pc : {op.pc}, endpoint : {op.endpoint}, seen : {op.seen}]
  BY DEF Known, TypeInv, TypeOK
<1>1. ASSUME Open, Open', UNCHANGED <<config, snapshot, serving>>
      PROVE  UNCHANGED <<linkSnapshot, linkConfig, serving # None>>
  BY <1>1, SameLink
<1>2. ASSUME NEW e \in Endpoints, BeginConnect(e)
      PROVE  UNCHANGED <<linkSnapshot, linkConfig, serving # None>>
  BY <1>1, <1>2 DEF BeginConnect, Open
<1>3. CASE Bind
  BY <1>1, <1>3 DEF Bind, Open
<1>4. CASE Inspect
  <2>1. linkConfig = View(config, snapshot) /\ linkSnapshot /\ serving = None
    BY <1>0, <1>4, OpenView DEF Inspect, Open, OpInv
  <2>2. CASE /\ ConnectionState(config, snapshot) = "Connected"
             /\ serving' = op.endpoint /\ Return
    <3>1. linkConfig = "ours" /\ linkConfig' = "ours" /\ linkSnapshot'
      BY <1>0, <1>4, <2>1, <2>2 DEF Inspect, View, ConnectionState, OpInv, linkConfig,
         linkSnapshot, Connecting, Disconnecting
    <3>2. serving' # None
      BY <1>0, <1>4, <2>2, ConfigTransactionAssumption DEF Inspect, OpInv
    <3> QED
      BY <2>1, <3>1, <3>2 DEF Link!Next, Link!Connect, Link!Install
  <2>3. CASE /\ ConnectionState(config, snapshot) = "NotConnected"
             /\ Goto("discard", op.endpoint, None) /\ UNCHANGED serving
    <3>1. linkConfig = "own" /\ linkConfig' = "own" /\ linkSnapshot' = linkSnapshot
      BY <1>0, <1>4, <2>1, <2>3 DEF Inspect, View, OpInv, linkConfig, linkSnapshot, Connecting
    <3> QED
      BY <2>3, <3>1
  <2>4. CASE Return /\ UNCHANGED serving
    BY <1>1, <1>4, <2>4 DEF Inspect, Open
  <2> QED
    BY <1>4, <2>2, <2>3, <2>4 DEF Inspect
<1>5. CASE Discard
  <2>1. linkConfig = "own" /\ linkSnapshot /\ serving = None /\ ~Managed(config)
    BY <1>0, <1>5, DiscardingView DEF Discard, OpInv, ServedInv, SafeInv
  <2>2. CASE snapshot' = NoSnapshot /\ Goto("read", op.endpoint, None)
    <3>1. linkConfig' = "own" /\ linkSnapshot' = FALSE
      BY <1>5, <2>1, <2>2 DEF Discard, View, linkConfig, linkSnapshot, Connecting,
         Disconnecting, Managed
    <3> QED
      BY <1>5, <2>1, <3>1 DEF Discard, Link!Next, Link!Connect, Link!InstallFails
  <2>3. CASE Return /\ UNCHANGED snapshot
    <3>1. linkConfig' = View(config, snapshot) /\ linkSnapshot'
      BY <1>0, <1>5, <2>3 DEF Discard, ServedInv, View, ConnectionState, linkConfig,
         linkSnapshot, Connecting, Disconnecting, Managed
    <3> QED
      BY <1>5, <2>1, <3>1, ViewOfUnmanaged DEF Discard, Link!Next, Link!Connect, Link!InstallFails
  <2> QED
    BY <1>5, <2>2, <2>3 DEF Discard
<1>6. CASE Read
  BY <1>1, <1>6 DEF Read, Open
<1>7. CASE Save
  <2>1. CASE Goto("write", op.endpoint, op.seen)
    <3>1. snapshot = NoSnapshot /\ ~Managed(config)
      BY <1>0, <1>7 DEF Save, ServedInv, SafeInv, Restorable
    <3>2. linkConfig = "own" /\ ~linkSnapshot
      BY <1>7, <3>1 DEF Save, View, linkConfig, linkSnapshot, Connecting, Disconnecting
    <3>3. linkConfig' = "own" /\ ~linkSnapshot' /\ UNCHANGED serving
      BY <1>7, <2>1 DEF Save, linkConfig, linkSnapshot, Connecting
    <3> QED
      BY <3>2, <3>3 DEF linkSnapshot
  <2>2. CASE Return /\ UNCHANGED snapshot
    BY <1>1, <1>7, <2>2 DEF Save, Open
  <2> QED
    BY <1>7, <2>1, <2>2 DEF Save
<1>8. CASE Write
  <2>1. linkConfig = "own" /\ ~linkSnapshot /\ serving = None
    BY <1>0, <1>8, ConnectingView DEF Write, OpInv
  <2>2. CASE /\ config' = ConnectText(DocOf(op.seen), op.endpoint)
             /\ serving' = op.endpoint /\ Return
    <3>1. View(config', snapshot') = "ours"
      BY <1>8, <2>2, WrittenView DEF Write
    <3>2. linkConfig' = View(config', snapshot') /\ linkSnapshot' /\ serving' # None
      BY <1>0, <1>8, <2>2, ConfigTransactionAssumption
      DEF Write, View, ConnectionState, linkConfig, linkSnapshot, Connecting, Disconnecting,
          OpInv, ServedInv, Managed
    <3> QED
      BY <2>1, <3>1, <3>2 DEF Link!Next, Link!Connect, Link!Install
  <2>3. CASE Goto("rollback", op.endpoint, None) /\ UNCHANGED <<config, serving>>
    <3>1. linkConfig' = "own" /\ ~linkSnapshot'
      BY <2>3 DEF linkConfig, linkSnapshot, Connecting
    <3> QED
      BY <2>1, <2>3, <3>1 DEF linkSnapshot
  <2> QED
    BY <1>8, <2>2, <2>3 DEF Write
<1>9. CASE Rollback
  <2>1. linkConfig = "own" /\ ~linkSnapshot /\ serving = None /\ ~Managed(config)
    BY <1>0, <1>9, ConnectingView DEF Rollback, OpInv, SafeInv
  <2>2. /\ linkConfig' = View(config, snapshot') /\ (linkSnapshot' <=> snapshot' # NoSnapshot)
        /\ UNCHANGED serving
    BY <1>9 DEF Rollback, View, ConnectionState, linkConfig, linkSnapshot, Connecting,
       Disconnecting, Managed
  <2>3. CASE snapshot' = NoSnapshot
    BY <2>1, <2>2, <2>3 DEF View, Link!Next, Link!Connect, Link!InstallFails
  <2>4. CASE snapshot' = snapshot /\ snapshot # NoSnapshot
    BY <2>1, <2>2, <2>4, ViewOfUnmanaged DEF Link!Next, Link!Connect, Link!InstallFails
  <2> QED
    BY <1>0, <1>9, <2>3, <2>4 DEF Rollback
<1>10. CASE BeginDisconnect
  BY <1>1, <1>10 DEF BeginDisconnect, Open
<1>11. CASE Restore
  <2>1. CASE Goto("put", None, config) /\ config # NoFile /\ OwnedIntact(config, snapshot)
    <3>1. linkConfig = "ours" /\ linkConfig' = "ours" /\ linkSnapshot' = linkSnapshot
      BY <1>0, <1>11, <2>1 DEF Restore, View, ConnectionState, OpInv, linkConfig,
         linkSnapshot, Connecting, Disconnecting
    <3> QED
      BY <1>11, <3>1 DEF Restore
  <2>2. CASE Return
    BY <1>1, <1>11, <2>2 DEF Restore, Open
  <2> QED
    BY <1>11, <2>1, <2>2 DEF Restore
<1>12. CASE Put
  <2>1. linkConfig = "ours" /\ linkSnapshot /\ serving # None
    BY <1>0, <1>12, DisconnectingView DEF Put, OpInv
  <2>2. CASE Goto("forget", None, None)
    <3>1. linkConfig' = "ours" /\ linkSnapshot'
      BY <1>0, <1>12, <2>2 DEF Put, OpInv, linkConfig, linkSnapshot, Connecting, Disconnecting
    <3> QED
      BY <1>12, <2>1, <3>1 DEF Put, linkSnapshot
  <2>3. CASE Return /\ UNCHANGED config
    <3>1. linkConfig' = View(config, snapshot) /\ linkSnapshot'
      BY <1>0, <1>12, <2>3 DEF Put, OpInv, View, ConnectionState, linkConfig, linkSnapshot,
         Connecting, Disconnecting, Managed
    <3>2. View(config, snapshot) \in Link!Views
      BY UndoableNow, ViewOfFile
    <3> QED
      BY <1>12, <2>1, <3>1, <3>2 DEF Put, Link!Next, Link!Disconnect, Link!WithdrawFails
  <2> QED
    BY <1>12, <2>2, <2>3 DEF Put
<1>13. CASE Forget
  <2>1. linkConfig = "ours" /\ linkSnapshot /\ serving # None /\ ~Managed(config)
    BY <1>0, <1>13, DisconnectingView DEF Forget, OpInv, SafeInv
  <2>2. linkConfig' = View(config, snapshot') /\ (linkSnapshot' <=> snapshot' # NoSnapshot)
    BY <1>13 DEF Forget, View, ConnectionState, linkConfig, linkSnapshot, Connecting,
       Disconnecting, Managed
  <2>3. CASE snapshot' = NoSnapshot /\ serving' = None
    BY <2>1, <2>2, <2>3 DEF View, Link!Next, Link!Disconnect, Link!Withdraw
  <2>4. CASE UNCHANGED <<snapshot, serving>>
    <3>1. View(config, snapshot) \in Link!Views /\ snapshot # NoSnapshot
      BY <1>0, <1>13, UndoableNow, ViewOfFile DEF Forget, OpInv
    <3> QED
      BY <2>1, <2>2, <2>4, <3>1 DEF Link!Next, Link!Disconnect, Link!WithdrawFails
  <2> QED
    BY <1>13, <2>3, <2>4 DEF Forget
<1>14. CASE Crash
  <2>1. /\ linkConfig' = View(config, snapshot) /\ (linkSnapshot' <=> snapshot # NoSnapshot)
        /\ serving' = None
    BY <1>14 DEF Crash, View, ConnectionState, linkConfig, linkSnapshot, Connecting,
       Disconnecting, Managed
  <2>2. CASE Open
    BY <2>1, <2>2, OpenView DEF Link!Next, Link!Die, linkSnapshot
  <2>3. CASE op.pc \in {"write", "rollback", "discard"}
    <3>1. serving = None /\ snapshot # NoSnapshot /\ ~Managed(config) /\ linkConfig = "own"
      BY <1>0, <2>3, ConnectingView, DiscardingView DEF OpInv, ServedInv, SafeInv
    <3>2. View(config, snapshot) \in Link!Foreign
      BY <3>1, ViewOfUnmanaged
    <3> QED
      BY <2>1, <3>1, <3>2 DEF Link!Next, Link!Die, Link!InstallFails
  <2>4. CASE op.pc \in {"put", "forget"}
    <3>1. serving # None /\ snapshot # NoSnapshot /\ linkConfig = "ours" /\ linkSnapshot
      BY <1>0, <2>4, DisconnectingView DEF OpInv
    <3>2. View(config, snapshot) \in Link!Views
      BY UndoableNow, ViewOfFile
    <3> QED
      BY <2>1, <3>1, <3>2 DEF Link!Next, Link!Die, Link!WithdrawFails
  <2> QED
    BY <2>2, <2>3, <2>4 DEF Open
<1>15. ASSUME NEW k \in Keys, NEW v \in UserValues, UserEdit(k, v)
       PROVE  [Link!Next]_<<linkSnapshot, linkConfig, serving # None>>
  <2>1. Managed(config') => Managed(config)
    BY <1>0, <1>15, EditManaged DEF TypeInv
  <2> QED
    BY <1>15, <2>1, EditedView DEF UserEdit
<1>16. CASE UserDelete
  <2>1. ~Managed(config')
    BY <1>16, NoFileNotManaged DEF UserDelete, Managed
  <2> QED
    BY <1>16, <2>1, EditedView DEF UserDelete
<1>17. CASE UNCHANGED vars
  BY <1>17, EditedView DEF vars, Managed
<1> QED
  BY <1>2, <1>3, <1>4, <1>5, <1>6, <1>7, <1>8, <1>9, <1>10, <1>11, <1>12, <1>13, <1>14,
     <1>15, <1>16, <1>17 DEF Next, Connect, Disconnect, Environment

\* As long as CODEX_HOME stays the same, and whoever writes config.toml between
\* the file operations, connecting and disconnecting Codex have in one step the
\* outcomes the controller of the desktop application is modelled with.
THEOREM ImplementsLinkHolds == ASSUME ~HomeMoves PROVE Spec => ImplementsLink
<1>1. Spec => []Known
  BY KnownHolds
<1>2. Known /\ Known' /\ [Next]_vars => [Link!Next]_<<linkSnapshot, linkConfig, serving # None>>
  BY StepLink
<1>3. Init => Link!Init
  <2> SUFFICES ASSUME Init PROVE Link!Init
    OBVIOUS
  <2>1. ~Managed(config)
    BY NoFileNotManaged DEF Init, UserDocs, Managed, DocOf
  <2> QED
    BY <2>1 DEF Init, Idle, Link!Init, linkSnapshot, linkConfig, View, Connecting,
       Disconnecting, At
<1> QED
  BY <1>1, <1>2, <1>3, PTL DEF Spec, ImplementsLink, Link!Spec
-----------------------------------------------------------------------------
(***************************************************************************)
(* The moving world of MCConfigWorlds: what ServedInv says of the          *)
(* transaction, said of its other instance.                                *)
(***************************************************************************)

MovingInv ==
  /\ Moving!TypeOK
  /\ movingOp.pc \in {"bind", "inspect", "discard", "read", "save", "write", "rollback"}
       => movingOp.endpoint \in Endpoints /\ movingServing = None
  /\ movingOp.pc \in {"save", "write"}
       => movingOp.seen \in Files /\ Connectable(DocOf(movingOp.seen))
  /\ movingOp.pc \in {"restore", "put", "forget"}
       => movingSnapshot # NoSnapshot /\ movingServing # None
  /\ movingOp.pc = "put" => movingOp.seen \in Docs
  /\ movingOp.pc \in {"inspect", "discard", "write", "rollback"} => movingSnapshot # NoSnapshot
  /\ movingOp.pc \in {"read", "save"} => movingSnapshot = NoSnapshot
  /\ movingOp.pc = "write" => EndpointOf(movingSnapshot) = movingOp.endpoint
  /\ Moving!ServedHasSnapshot

\* What does not depend on the state is the same in both worlds.
LEMMA MovingConstants ==
  /\ Moving!Keys = Keys
  /\ Moving!UserValues = UserValues
  /\ Moving!UserDocs = UserDocs
  /\ Moving!Docs = Docs
  /\ Moving!Files = Files
  /\ Moving!Snapshots = Snapshots
  /\ Moving!Idle = Idle
  BY DEF Moving!Keys, Keys, Moving!UserValues, UserValues, Moving!UserDocs, UserDocs,
     Moving!Docs, Docs, Moving!Values, Values, Moving!Files, Files,
     Moving!Snapshots, Snapshots, Moving!Installations, Installations,
     Moving!Realtime, Realtime, Moving!Idle, Idle

LEMMA MovingOperators ==
  ASSUME NEW d, NEW s, NEW e
  PROVE  /\ Moving!DocOf(d) = DocOf(d)
         /\ Moving!Connectable(d) = Connectable(d)
         /\ Moving!EndpointOf(s) = EndpointOf(s)
         /\ Moving!SnapshotOf(d, e) = SnapshotOf(d, e)
         /\ Moving!ConnectText(d, e) = ConnectText(d, e)
         /\ Moving!DisconnectText(d, s) = DisconnectText(d, s)
  BY DEF Moving!DocOf, DocOf, Moving!EmptyDoc, EmptyDoc, Moving!Keys, Keys,
     Moving!Connectable, Connectable, Moving!EndpointOf, EndpointOf,
     Moving!SnapshotOf, SnapshotOf, Moving!Installed, Installed, Moving!Realtime, Realtime,
     Moving!ConnectText, ConnectText, Moving!Overlay, Overlay,
     Moving!DisconnectText, DisconnectText

LEMMA MovingInvStep == MovingInv /\ [Moving!Next]_movingVars => MovingInv'
  <1> SUFFICES ASSUME MovingInv, [Moving!Next]_movingVars PROVE MovingInv'
    OBVIOUS
  <1> USE MovingConstants
  <1> USE DEF MovingInv, Moving!TypeOK, Moving!ServedHasSnapshot, Moving!At, Moving!Goto,
          Moving!Return, Idle
  <1>1. ASSUME NEW e \in Endpoints, Moving!BeginConnect(e) PROVE MovingInv'
    BY <1>1 DEF Moving!BeginConnect
  <1>2. CASE Moving!Bind
    BY <1>2 DEF Moving!Bind
  <1>3. CASE Moving!Inspect
    BY <1>3, MovingOperators DEF Moving!Inspect
  <1>4. CASE Moving!Discard
    BY <1>4 DEF Moving!Discard
  <1>5. CASE Moving!Read
    BY <1>5, MovingOperators DEF Moving!Read
  <1>6. CASE Moving!Save
    <2> DEFINE s == SnapshotOf(DocOf(movingOp.seen), movingOp.endpoint)
    <2>1. CASE movingOp' = Idle /\ UNCHANGED movingSnapshot
      BY <1>6, <2>1 DEF Moving!Save
    <2>2. CASE movingSnapshot' = s /\ Moving!Goto("write", movingOp.endpoint, movingOp.seen)
      <3>1. s \in Snapshots /\ EndpointOf(s) = movingOp.endpoint
        BY <1>6, DocOfType, ConnectTextType DEF Moving!Save
      <3> HIDE DEF s
      <3> QED BY <1>6, <2>2, <3>1, CodexConfigSentinels DEF Moving!Save
    <2> QED BY <1>6, <2>1, <2>2, MovingOperators DEF Moving!Save
  <1>7. CASE Moving!Write
    <2>1. ConnectText(DocOf(movingOp.seen), movingOp.endpoint) \in Files
      BY <1>7, DocOfType, ConnectTextType DEF Moving!Write, Files
    <2> QED BY <1>7, <2>1, MovingOperators DEF Moving!Write
  <1>8. CASE Moving!Rollback
    BY <1>8 DEF Moving!Rollback
  <1>9. CASE Moving!BeginDisconnect
    BY <1>9 DEF Moving!BeginDisconnect
  <1>10. CASE Moving!Restore
    BY <1>10 DEF Moving!Restore, Files
  <1>11. CASE Moving!Put
    <2>1. DisconnectText(movingOp.seen, movingSnapshot) \in Files
      BY <1>11, DisconnectTextType DEF Moving!Put, Files
    <2> QED BY <1>11, <2>1, MovingOperators DEF Moving!Put
  <1>12. CASE Moving!Forget
    BY <1>12 DEF Moving!Forget
  <1>13. CASE Moving!Crash
    BY <1>13 DEF Moving!Crash
  <1>14. ASSUME NEW k \in Keys, NEW v \in UserValues, Moving!UserEdit(k, v) PROVE MovingInv'
    <2>1. movingConfig' = [DocOf(movingConfig) EXCEPT ![k] = v]
      BY <1>14, MovingOperators DEF Moving!UserEdit
    <2>2. movingConfig' \in Files
      BY <2>1, DocOfType, EditType DEF Files
    <2> QED BY <1>14, <2>2 DEF Moving!UserEdit
  <1>15. CASE Moving!UserDelete
    BY <1>15 DEF Moving!UserDelete, Files
  <1>16. CASE UNCHANGED movingVars
    BY <1>16 DEF movingVars
  <1> QED
    BY <1>1, <1>2, <1>3, <1>4, <1>5, <1>6, <1>7, <1>8, <1>9, <1>10, <1>11, <1>12,
       <1>13, <1>14, <1>15, <1>16
       DEF Moving!Next, Moving!Connect, Moving!Disconnect, Moving!Environment

\* Both worlds start at rest, and a step of the quiet one leaves the other there.
LEMMA MovingInvHolds == MCSpec => []MovingInv
  <1>1. MCInit => MovingInv
    <2>1. EmptyDoc \in Files /\ NoFile \in Files
      BY EmptyDocType DEF Files
    <2> QED BY <2>1, MovingConstants DEF MCInit, MovingInv, MovingAtRest, Moving!Init,
               Moving!TypeOK, Moving!ServedHasSnapshot, Idle, UserDocs, Files
  <1>2. MCNext => [Moving!Next]_movingVars
    BY DEF MCNext
  <1>3. UNCHANGED <<vars, movingVars>> => UNCHANGED movingVars
    OBVIOUS
  <1> QED BY <1>1, <1>2, <1>3, MovingInvStep, PTL DEF MCSpec

\* In the moving world too a live connection has its snapshot on disk, for all
\* the documents a user may write there.
THEOREM ServedHasSnapshotAnywhereHolds == MCSpec => []ServedHasSnapshotAnywhere
  <1>1. MovingInv => ServedHasSnapshotAnywhere
    BY DEF MovingInv, ServedHasSnapshotAnywhere
  <1> QED BY <1>1, MovingInvHolds, PTL
=============================================================================
