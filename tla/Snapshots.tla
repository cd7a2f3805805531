----------------------------- MODULE Snapshots -----------------------------
(***************************************************************************)
(* src/snapshot/mod.rs: snapshot files, the manifest that names the latest *)
(* of them and the WAL files merged into it, and recovery from both.       *)
(*                                                                         *)
(* A call of the manager is cut at its file operations: the process or the *)
(* machine may die, and the operation may fail, at each of them.  Snapshot *)
(* files are fsynced; manifest.json is truncated and written in place and  *)
(* never fsynced, so that a power failure may bring back any of its        *)
(* earlier contents.  The writes to the stores' WALs go on meanwhile; they *)
(* are durable at once here (WalThread has that part), and what the stores *)
(* hold is what is in their WALs.                                          *)
(***************************************************************************)
EXTENDS Integers, FiniteSets

CONSTANTS
    Files,       \* the stores' WAL files
    Rotating,    \* callers merge a WAL file only when the snapshot covers it
                 \* and do not write to it again
    interval,    \* snapshot_interval_bytes, in writes
    MaxWrites,   \* bound on the writes
    MaxId        \* bound on the snapshot ids

ASSUME RotatingAssumption == Rotating \in BOOLEAN
ASSUME BoundsAssumption == interval \in Nat /\ MaxWrites \in Nat /\ MaxId \in Nat

Writes == 1 .. MaxWrites
Ids == 1 .. MaxId

\* A manifest, and the state of manifest.json; of a snapshot file likewise.
Manifest == [id : 0 .. MaxId, merged : SUBSET Files]
Contents == [state : {"missing", "torn", "whole"}, m : Manifest]
Snapshot == [state : {"missing", "torn", "whole"}, data : SUBSET Writes]

empty == [id |-> 0, merged |-> {}]
Missing == [state |-> "missing", m |-> empty]
Torn == [state |-> "torn", m |-> empty]
Whole(m) == [state |-> "whole", m |-> m]

VARIABLES
    wal,        \* the writes in each WAL file
    snaps,      \* the snapshot files
    json,       \* manifest.json as the running system sees it
    stable,     \* what a power failure may leave of it
    mgr,        \* the SnapshotManager: down, up, or refused by new()
    manifest,   \* its manifest
    bytes,      \* wal_bytes_since_snapshot
    pc,         \* where its call is
    data,       \* what the caller passed to take_snapshot
    unreported, \* writes the caller has not passed to add_wal_bytes yet
    \* what follows is history, not program state
    next,       \* the number of the next write
    mine,       \* the writes since the manager was created
    retired     \* files that were merged

files == <<wal, snaps>>
name == <<json, stable>>
history == <<next, mine, retired>>
vars == <<files, name, mgr, manifest, bytes, pc, data, unreported, history>>

Idle == mgr = "up" /\ pc = "idle"

-----------------------------------------------------------------------------
(* The stores and the caller                                               *)

Write(f) ==
    /\ next \in Writes
    /\ Rotating => f \notin retired
    /\ wal' = [wal EXCEPT ![f] = @ \cup {next}]
    /\ next' = next + 1
    /\ mine' = IF mgr = "up" THEN mine \cup {next} ELSE mine
    /\ unreported' = IF mgr = "up" THEN unreported + 1 ELSE unreported
    /\ UNCHANGED <<snaps, name, mgr, manifest, bytes, pc, data, retired>>

\* add_wal_bytes takes &mut self: no other call is under way.
add_wal_bytes ==
    /\ Idle /\ unreported > 0
    /\ bytes' = bytes + unreported
    /\ unreported' = 0
    /\ UNCHANGED <<files, name, mgr, manifest, pc, data, history>>

should_snapshot == manifest.id = 0 \/ bytes >= interval

-----------------------------------------------------------------------------
(* SnapshotManager::new, Manifest::read                                    *)

new ==
    /\ mgr = "down"
    /\ mgr' = IF json.state = "torn" THEN "refused" ELSE "up"
    /\ manifest' = IF json.state = "whole" THEN json.m ELSE empty
    /\ bytes' = 0 /\ unreported' = 0 /\ mine' = {}
    /\ UNCHANGED <<files, name, pc, data, next, retired>>

-----------------------------------------------------------------------------
(* take_snapshot                                                           *)

\* Mutant: the latest id is used again.
NextIdReused == IF manifest.id = 0 THEN 1 ELSE manifest.id

NextId == manifest.id + 1

\* The caller collects what the stores hold.
take_snapshot ==
    /\ Idle /\ NextId \in Ids
    /\ data' = UNION {wal[f] : f \in Files}
    /\ pc' = "create"
    /\ UNCHANGED <<files, name, mgr, manifest, bytes, unreported, history>>

\* Mutant: the manifest is written while the snapshot is still buffered.
CreateSnapshotUnsynced ==
    /\ pc = "create"
    /\ snaps' = [snaps EXCEPT ![NextId] = [state |-> "torn", data |-> {}]]
    /\ pc' = "advance"
    /\ UNCHANGED <<wal, name, mgr, manifest, bytes, data, unreported, history>>

\* write_snapshot: File::create truncates, ...
CreateSnapshot ==
    /\ pc = "create"
    /\ snaps' = [snaps EXCEPT ![NextId] = [state |-> "torn", data |-> {}]]
    /\ pc' = "write"
    /\ UNCHANGED <<wal, name, mgr, manifest, bytes, data, unreported, history>>

\* ... write_all, flush and sync_all.
SyncSnapshot ==
    /\ pc = "write"
    /\ snaps' = [snaps EXCEPT ![NextId] = [state |-> "whole", data |-> data]]
    /\ pc' = "advance"
    /\ UNCHANGED <<wal, name, mgr, manifest, bytes, data, unreported, history>>

\* Manifest::write: fs::write truncates manifest.json first.
Truncate ==
    /\ json' = Torn
    /\ stable' = stable \cup {Torn}

\* The manifest in memory moves on before the one on disk.
AdvanceManifest ==
    /\ pc = "advance"
    /\ manifest' = [manifest EXCEPT !.id = NextId]
    /\ Truncate
    /\ pc' = "name"
    /\ UNCHANGED <<files, mgr, bytes, data, unreported, history>>

\* merge_wal
merge_wal(f) ==
    /\ Idle
    /\ Rotating => manifest.id # 0 /\ wal[f] \subseteq snaps[manifest.id].data
    /\ manifest' = [manifest EXCEPT !.merged = @ \cup {f}]
    /\ retired' = retired \cup {f}
    /\ Truncate
    /\ pc' = "merge"
    /\ UNCHANGED <<files, mgr, bytes, data, unreported, next, mine>>

\* Mutant: merge_wal starts the count again, too.
WriteManifestResets ==
    /\ pc \in {"name", "merge"}
    /\ json' = Whole(manifest)
    /\ stable' = stable \cup {Whole(manifest)}
    /\ bytes' = 0
    /\ pc' = "idle"
    /\ UNCHANGED <<files, mgr, manifest, data, unreported, history>>

\* The new contents are written; take_snapshot starts a new count.
WriteManifest ==
    /\ pc \in {"name", "merge"}
    /\ json' = Whole(manifest)
    /\ stable' = stable \cup {Whole(manifest)}
    /\ bytes' = IF pc = "name" THEN 0 ELSE bytes
    /\ pc' = "idle"
    /\ UNCHANGED <<files, mgr, manifest, data, unreported, history>>

\* One of the file operations fails and the call returns the error.
Fail ==
    /\ pc # "idle"
    /\ manifest' = IF pc = "advance" THEN [manifest EXCEPT !.id = NextId] ELSE manifest
    /\ pc' = "idle"
    /\ UNCHANGED <<files, name, mgr, bytes, data, unreported, history>>

-----------------------------------------------------------------------------
(* The end of the process, and of the power                                *)

Down ==
    /\ mgr' = "down" /\ pc' = "idle"
    /\ manifest' = empty /\ bytes' = 0 /\ unreported' = 0
    /\ UNCHANGED <<files, data, history>>

Kill == mgr = "up" /\ Down /\ UNCHANGED name

PowerLoss ==
    /\ Down
    /\ \E c \in stable : json' = c /\ stable' = {c}

-----------------------------------------------------------------------------
Init ==
    /\ wal = [f \in Files |-> {}]
    /\ snaps = [n \in Ids |-> [state |-> "missing", data |-> {}]]
    /\ json = Missing /\ stable = {Missing}
    /\ mgr = "down" /\ manifest = empty /\ bytes = 0 /\ pc = "idle"
    /\ data = {} /\ unreported = 0
    /\ next = 1 /\ mine = {} /\ retired = {}

Next ==
    \/ \E f \in Files : Write(f) \/ merge_wal(f)
    \/ add_wal_bytes \/ new
    \/ take_snapshot \/ CreateSnapshot \/ SyncSnapshot \/ AdvanceManifest
    \/ WriteManifest \/ Fail
    \/ Kill \/ PowerLoss

Spec == Init /\ [][Next]_vars

-----------------------------------------------------------------------------
(* recover                                                                 *)

\* Mutant: a snapshot is enough.
ReplaysSnapshotOnly(m) == {}

\* The WAL files to replay: none without a snapshot.
Replays(m) == IF m.id = 0 THEN {} ELSE Files \ m.merged

Recovered(m) ==
    (IF m.id = 0 THEN {} ELSE snaps[m.id].data)
        \cup UNION {wal[f] : f \in Replays(m)}

-----------------------------------------------------------------------------
TypeOK ==
    /\ wal \in [Files -> SUBSET Writes]
    /\ snaps \in [Ids -> Snapshot]
    /\ json \in Contents /\ stable \subseteq Contents /\ json \in stable
    /\ mgr \in {"down", "up", "refused"}
    /\ manifest \in Manifest
    /\ bytes \in Nat /\ unreported \in Nat
    /\ pc \in {"idle", "create", "write", "advance", "name", "merge"}
    /\ data \subseteq Writes
    /\ pc \in {"create", "write", "advance"} => NextId \in Ids
    /\ pc # "idle" => mgr = "up"
    /\ next \in 1 .. MaxWrites + 1 /\ mine \subseteq Writes /\ retired \subseteq Files

\* The manifests that somebody may recover from: the manager's, and those a
\* restart may find.
OnDisk == {c.m : c \in {d \in stable : d.state = "whole"}}
Readable == OnDisk \cup (IF mgr = "up" THEN {manifest} ELSE {})

(***************************************************************************)
(* The snapshot that a manifest names is there and whole, whichever        *)
(* version of the manifest survived, wherever take_snapshot was            *)
(* interrupted, and although ids are used again after that.  (And the      *)
(* types are right.)                                                       *)
(***************************************************************************)
NamedIsWhole ==
    /\ TypeOK
    /\ \A m \in Readable : m.id # 0 => snaps[m.id].state = "whole"

(***************************************************************************)
(* A snapshot does not change as long as a manifest names it.              *)
(***************************************************************************)
NamedIsKept ==
    [][\A m \in Readable \cap Readable' : m.id # 0 => snaps'[m.id] = snaps[m.id]]_vars

(***************************************************************************)
(* Recovery, from whichever manifest, restores every write, if callers     *)
(* merge what a snapshot covers and then leave the file alone.             *)
(***************************************************************************)
NothingIsLost ==
    Rotating => \A m \in Readable : m.id # 0 => UNION {wal[f] : f \in Files} \subseteq Recovered(m)

(***************************************************************************)
(* When as many writes as make a snapshot due have been reported to this   *)
(* manager and are in none, it asks for one: failed calls, merges and      *)
(* writes during take_snapshot do not make it lose count.                  *)
(***************************************************************************)
DueIsNoticed ==
    /\ Idle /\ unreported = 0 /\ manifest.id # 0
    /\ Cardinality(mine \ snaps[manifest.id].data) >= interval
    => should_snapshot

-----------------------------------------------------------------------------
(* What the comments say and the code does not do.                         *)

\* "Recovery: load latest snapshot, replay WAL records since snapshot",
\* snapshot/mod.rs:13, as the module is used by its tests: from the first
\* write on, and with WAL files that the stores keep appending to.
RecoveryIsComplete ==
    \A m \in Readable : UNION {wal[f] : f \in Files} \subseteq Recovered(m)

\* "Manifest tracks the latest snapshot + merged WAL files", snapshot/mod.rs:12:
\* after any failure.
ManifestIsReadable == mgr # "refused"
=============================================================================
