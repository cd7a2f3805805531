-------------------------- MODULE SequentialProofs --------------------------
(***************************************************************************)
(* The two components that one thread owns.                                *)
(*                                                                         *)
(* Snapshots, for any number of WAL files, writes and snapshot ids, and    *)
(* with failing file operations, kills and power failures anywhere: Init,  *)
(* Next and Spec are its.                                                  *)
(*                                                                         *)
(* CjkAnalyzer, for texts of any length: its initial states, steps and     *)
(* specification are Start, Round and Tokenize.                            *)
(***************************************************************************)
EXTENDS Snapshots, CjkAnalyzer, SequenceTheorems, FiniteSetTheorems, WellFoundedInduction, TLAPS

\* Only a whole manifest.json holds a manifest.
OnlyWholeNames == \A c \in stable : c.state # "whole" => c.m = empty

\* No version of manifest.json that may come back names a snapshot beyond the
\* manifest in memory; without a manager, none beyond the one that new() will
\* read.  This is why the id that take_snapshot uses next is named nowhere.
NoneIsAhead ==
    /\ json.state # "torn" => \A c \in stable : c.m.id <= json.m.id
    /\ mgr = "up" => \A c \in stable : c.m.id <= manifest.id

\* The snapshot is on disk before the manifest moves on to it.
WrittenFirst ==
    /\ pc = "advance" => snaps[NextId] = [state |-> "whole", data |-> data]
    /\ pc = "name" => manifest.id # 0 /\ snaps[manifest.id] = [state |-> "whole", data |-> data]

\* The inductive invariant behind NamedIsWhole and NamedIsKept.
NameInv == NamedIsWhole /\ OnlyWholeNames /\ NoneIsAhead /\ WrittenFirst

\* What is merged is retired and in the snapshot, also in the one under way.
MergedIsCovered ==
    Rotating =>
    /\ \A m \in Readable : \A f \in m.merged :
          f \in retired /\ (m.id # 0 => wal[f] \subseteq snaps[m.id].data)
    /\ pc \in {"create", "write", "advance"} => \A f \in manifest.merged : wal[f] \subseteq data

\* The writes of this manager that no snapshot has are counted, or will be;
\* those made during take_snapshot are all still to be reported.
CountIsKept ==
    /\ mgr = "up" => mine \subseteq UNION {wal[f] : f \in Files}
    /\ mgr = "up" /\ manifest.id # 0 =>
          Cardinality(mine \ snaps[manifest.id].data) <= bytes + unreported
    /\ pc \in {"create", "write", "advance", "name"} =>
          Cardinality(mine \ data) <= unreported


-----------------------------------------------------------------------------
(* Types                                                                   *)

\* The types hold at the start.
LEMMA InitType == Init => TypeOK
  BY BoundsAssumption
  DEF Init, TypeOK, Missing, empty, Contents, Manifest, Snapshot, Ids, NextId

\* A torn manifest.json and one that holds a manifest are both contents.
LEMMA ContentsTypes ==
  /\ Torn \in Contents /\ Torn.state = "torn" /\ Torn.m = empty
  /\ \A m \in Manifest : Whole(m) \in Contents /\ Whole(m).state = "whole" /\ Whole(m).m = m
  /\ empty \in Manifest /\ empty.id = 0 /\ empty.merged = {}
  BY BoundsAssumption DEF Torn, Whole, Contents, Manifest, empty

\* Moving the manifest on, by id or by merged file, keeps its type.
LEMMA ManifestTypes ==
  ASSUME TypeOK
  PROVE  /\ NextId \in Ids => /\ [manifest EXCEPT !.id = NextId] \in Manifest
                             /\ [manifest EXCEPT !.id = NextId].id = NextId
                             /\ [manifest EXCEPT !.id = NextId].merged = manifest.merged
         /\ \A f \in Files :
               /\ [manifest EXCEPT !.merged = @ \cup {f}] \in Manifest
               /\ [manifest EXCEPT !.merged = @ \cup {f}].id = manifest.id
               /\ [manifest EXCEPT !.merged = @ \cup {f}].merged = manifest.merged \cup {f}
  BY BoundsAssumption DEF TypeOK, Manifest, NextId, Ids

\* Every step keeps the types.
LEMMA TypeStep == ASSUME TypeOK, [Next]_vars PROVE TypeOK'
  <1> USE BoundsAssumption DEF Ids
  <1>1. ASSUME NEW f \in Files, Write(f) PROVE TypeOK'
    BY <1>1 DEF Write, TypeOK, Writes, name, NextId
  <1>2. ASSUME NEW f \in Files, merge_wal(f) PROVE TypeOK'
    <2>1. manifest' \in Manifest /\ manifest'.id = manifest.id
      BY <1>2, ManifestTypes DEF merge_wal
    <2> QED
      BY <1>2, <2>1, ContentsTypes DEF merge_wal, Truncate, Idle, TypeOK, files, NextId
  <1>3. CASE add_wal_bytes
    BY <1>3 DEF add_wal_bytes, Idle, TypeOK, files, name, history, NextId
  <1>4. CASE new
    <2>1. manifest' \in Manifest
      BY <1>4, ContentsTypes DEF new, TypeOK, Contents
    <2> QED
      BY <1>4, <2>1 DEF new, TypeOK, files, name
  <1>5. CASE take_snapshot
    <2>1. UNION {wal[f] : f \in Files} \subseteq Writes
      BY DEF TypeOK
    <2> QED
      BY <1>5, <2>1 DEF take_snapshot, Idle, TypeOK, files, name, history, NextId
  <1>6. CASE CreateSnapshot
    <2>1. [state |-> "torn", data |-> {}] \in Snapshot
      BY DEF Snapshot
    <2> QED
      BY <1>6, <2>1 DEF CreateSnapshot, TypeOK, name, history, NextId
  <1>7. CASE SyncSnapshot
    <2>1. [state |-> "whole", data |-> data] \in Snapshot
      BY DEF Snapshot, TypeOK
    <2> QED
      BY <1>7, <2>1 DEF SyncSnapshot, TypeOK, name, history, NextId
  <1>8. CASE AdvanceManifest
    <2>1. NextId \in Ids
      BY <1>8 DEF AdvanceManifest, TypeOK
    <2>2. manifest' \in Manifest
      BY <1>8, <2>1, ManifestTypes DEF AdvanceManifest
    <2> QED
      BY <1>8, <2>2, ContentsTypes DEF AdvanceManifest, Truncate, TypeOK, files, history
  <1>9. CASE WriteManifest
    BY <1>9, ContentsTypes DEF WriteManifest, TypeOK, files, history
  <1>10. CASE Fail
    <2>1. manifest' \in Manifest
      BY <1>10, ManifestTypes DEF Fail, TypeOK
    <2> QED
      BY <1>10, <2>1 DEF Fail, TypeOK, files, name, history
  <1>11. CASE Kill
    BY <1>11, ContentsTypes DEF Kill, Down, TypeOK, files, name, history
  <1>12. CASE PowerLoss
    BY <1>12, ContentsTypes DEF PowerLoss, Down, TypeOK, files, history
  <1>13. CASE UNCHANGED vars
    BY <1>13 DEF vars, files, name, history, TypeOK, NextId
  <1> QED
    BY <1>1, <1>2, <1>3, <1>4, <1>5, <1>6, <1>7, <1>8, <1>9, <1>10, <1>11, <1>12, <1>13 DEF Next


-----------------------------------------------------------------------------
(* The snapshot that a manifest names                                      *)

\* What a manifest that somebody may recover from is, before and after a step.
LEMMA ReadableIs ==
  /\ \A m : m \in Readable <=> \/ \E c \in stable : c.state = "whole" /\ m = c.m
                               \/ mgr = "up" /\ m = manifest
  /\ \A m : m \in Readable' <=> \/ \E c \in stable' : c.state = "whole" /\ m = c.m
                                \/ mgr' = "up" /\ m = manifest'
  BY DEF Readable, OnDisk

\* The id that take_snapshot uses is above every id that a manifest names.
LEMMA NextIsFree ==
  ASSUME TypeOK, NoneIsAhead, mgr = "up"
  PROVE  \A m \in Readable : m \in Manifest /\ m.id < NextId
  BY ReadableIs, BoundsAssumption DEF TypeOK, NoneIsAhead, NextId, Contents, Manifest

\* Whatever the steps between the two, new() finds an intact name or none.
LEMMA NameInit == Init => NameInv
  <1>1. Init => TypeOK
    BY InitType
  <1> QED
    BY <1>1, ReadableIs
    DEF Init, NameInv, NamedIsWhole, OnlyWholeNames, NoneIsAhead, WrittenFirst, Missing, empty

\* Every step keeps the inductive invariant.
LEMMA NameStep == ASSUME NameInv, [Next]_vars PROVE NameInv'
  <1> USE BoundsAssumption
  <1>0. TypeOK /\ TypeOK' /\ OnlyWholeNames /\ NoneIsAhead /\ WrittenFirst
    BY TypeStep DEF NameInv, NamedIsWhole
  <1>t. manifest.id \in Nat /\ \A c \in stable : c.m.id \in Nat
    BY <1>0 DEF TypeOK, Contents, Manifest
  \* Steps that leave the files, the manifests and the manager alone.
  <1>s. ASSUME UNCHANGED <<snaps, name, mgr, manifest>>, WrittenFirst'
        PROVE  NameInv'
    <2>1. Readable' = Readable
      BY <1>s DEF Readable, OnDisk, name
    <2> QED
      BY <1>0, <1>s, <2>1
      DEF NameInv, NamedIsWhole, OnlyWholeNames, NoneIsAhead, name
  <1>1. ASSUME NEW f \in Files, Write(f) PROVE NameInv'
    BY <1>0, <1>1, <1>s DEF Write, WrittenFirst, NextId
  <1>2. ASSUME NEW f \in Files, merge_wal(f) PROVE NameInv'
    <2>1. manifest'.id = manifest.id
      BY <1>0, <1>2, ManifestTypes DEF merge_wal
    <2>2. manifest \in Readable /\ \A m \in Readable' : m \in Readable \/ m = manifest'
      BY <1>2, ReadableIs, ContentsTypes DEF merge_wal, Idle, Truncate
    <2>3. \A m \in Readable' : m.id # 0 => snaps'[m.id].state = "whole"
      BY <1>2, <2>1, <2>2 DEF merge_wal, files, NameInv, NamedIsWhole
    <2> QED
      BY <1>0, <1>2, <1>t, <2>1, <2>3, ContentsTypes
      DEF merge_wal, Truncate, NameInv, NamedIsWhole, OnlyWholeNames, NoneIsAhead, WrittenFirst
  <1>3. CASE add_wal_bytes
    BY <1>0, <1>3, <1>s DEF add_wal_bytes, Idle, WrittenFirst, files
  <1>4. CASE new
    <2>1. \A m \in Readable' : m.id = 0 \/ m \in Readable
      BY <1>0, <1>4, ReadableIs, ContentsTypes DEF new, name, TypeOK
    <2>2. \A m \in Readable' : m.id # 0 => snaps'[m.id].state = "whole"
      BY <1>4, <2>1 DEF new, files, NameInv, NamedIsWhole
    <2>3. NoneIsAhead'
      BY <1>0, <1>4, ContentsTypes DEF new, name, NoneIsAhead, OnlyWholeNames, TypeOK, Contents
    <2>4. WrittenFirst'
      BY <1>0, <1>4 DEF new, WrittenFirst, TypeOK
    <2> QED
      BY <1>0, <1>4, <2>2, <2>3, <2>4 DEF new, name, NameInv, NamedIsWhole, OnlyWholeNames
  <1>5. CASE take_snapshot
    BY <1>0, <1>5, <1>s DEF take_snapshot, WrittenFirst, files
  <1>6. ASSUME NEW s, NextId \in Ids, snaps' = [snaps EXCEPT ![NextId] = s], mgr = "up",
               UNCHANGED <<name, mgr, manifest>>, WrittenFirst'
        PROVE  NameInv'
    <2>1. Readable' = Readable
      BY <1>6 DEF Readable, OnDisk, name
    <2>2. \A m \in Readable : m.id # NextId
      BY <1>0, <1>6, NextIsFree DEF Manifest, Ids
    <2>3. \A m \in Readable' : m.id # 0 => snaps'[m.id].state = "whole"
      BY <1>0, <1>6, <2>1, <2>2, NextIsFree
      DEF NameInv, NamedIsWhole, TypeOK, Manifest, Ids
    <2> QED
      BY <1>0, <1>6, <2>3 DEF NameInv, NamedIsWhole, OnlyWholeNames, NoneIsAhead, name
  <1>7. CASE CreateSnapshot
    BY <1>0, <1>6, <1>7 DEF CreateSnapshot, WrittenFirst, TypeOK
  <1>8. CASE SyncSnapshot
    <2>1. WrittenFirst'
      BY <1>0, <1>8 DEF SyncSnapshot, WrittenFirst, TypeOK, NextId
    <2> QED
      BY <1>0, <1>6, <1>8, <2>1 DEF SyncSnapshot, TypeOK
  <1>9. CASE AdvanceManifest
    <2>1. NextId \in Ids /\ manifest'.id = NextId /\ mgr = "up"
      BY <1>0, <1>9, ManifestTypes DEF AdvanceManifest, TypeOK
    <2>2. \A m \in Readable' : m \in Readable \/ m.id = NextId
      BY <1>9, <2>1, ReadableIs, ContentsTypes DEF AdvanceManifest, Truncate
    <2>3. snaps[NextId] = [state |-> "whole", data |-> data]
      BY <1>0, <1>9 DEF AdvanceManifest, WrittenFirst
    <2>4. \A m \in Readable' : m.id # 0 => snaps'[m.id].state = "whole"
      BY <1>9, <2>2, <2>3 DEF AdvanceManifest, files, NameInv, NamedIsWhole
    <2>5. WrittenFirst'
      BY <1>9, <2>1, <2>3 DEF AdvanceManifest, WrittenFirst, files, Ids
    <2>6. OnlyWholeNames'
      BY <1>0, <1>9, ContentsTypes DEF AdvanceManifest, Truncate, OnlyWholeNames
    <2>7. NoneIsAhead'
      BY <1>0, <1>9, <1>t, <2>1, ContentsTypes
      DEF AdvanceManifest, Truncate, NoneIsAhead, Ids, NextId
    <2> QED
      BY <1>0, <2>4, <2>5, <2>6, <2>7 DEF NameInv, NamedIsWhole
  <1>10. CASE WriteManifest
    <2>1. mgr = "up" /\ manifest \in Manifest
      BY <1>0, <1>10 DEF WriteManifest, TypeOK
    <2>2. \A m \in Readable' : m \in Readable
      BY <1>10, <2>1, ReadableIs, ContentsTypes DEF WriteManifest
    <2>3. \A m \in Readable' : m.id # 0 => snaps'[m.id].state = "whole"
      BY <1>10, <2>2 DEF WriteManifest, files, NameInv, NamedIsWhole
    <2>4. OnlyWholeNames' /\ WrittenFirst'
      BY <1>0, <1>10, <2>1, ContentsTypes DEF WriteManifest, OnlyWholeNames, WrittenFirst
    <2>5. NoneIsAhead'
      BY <1>0, <1>10, <1>t, <2>1, ContentsTypes DEF WriteManifest, NoneIsAhead
    <2> QED
      BY <1>0, <2>3, <2>4, <2>5 DEF NameInv, NamedIsWhole
  <1>11. CASE Fail
    <2>1. mgr = "up"
      BY <1>0, <1>11 DEF Fail, TypeOK
    <2>2. /\ pc = "advance" => NextId \in Ids /\ manifest'.id = NextId
          /\ pc # "advance" => manifest' = manifest
      BY <1>0, <1>11, ManifestTypes DEF Fail, TypeOK
    <2>3. \A m \in Readable' : m \in Readable \/ (pc = "advance" /\ m.id = NextId)
      BY <1>11, <2>1, <2>2, ReadableIs DEF Fail, name
    <2>4. pc = "advance" => snaps[NextId] = [state |-> "whole", data |-> data]
      BY <1>0 DEF WrittenFirst
    <2>5. \A m \in Readable' : m.id # 0 => snaps'[m.id].state = "whole"
      BY <1>11, <2>3, <2>4 DEF Fail, files, NameInv, NamedIsWhole
    <2>6. OnlyWholeNames' /\ WrittenFirst'
      BY <1>0, <1>11 DEF Fail, OnlyWholeNames, WrittenFirst, name
    <2>7. NoneIsAhead'
      BY <1>0, <1>11, <1>t, <2>2 DEF Fail, NoneIsAhead, NextId, name
    <2> QED
      BY <1>0, <2>5, <2>6, <2>7 DEF NameInv, NamedIsWhole
  <1>12. CASE Kill
    <2>1. \A m \in Readable' : m \in Readable
      BY <1>12, ReadableIs DEF Kill, Down, name
    <2> QED
      BY <1>0, <1>12, <2>1
      DEF Kill, Down, files, name, NameInv, NamedIsWhole, OnlyWholeNames, NoneIsAhead, WrittenFirst
  <1>13. CASE PowerLoss
    <2>1. PICK c \in stable : json' = c /\ stable' = {c}
      BY <1>13 DEF PowerLoss
    <2>2. \A m \in Readable' : m \in Readable
      BY <1>13, <2>1, ReadableIs DEF PowerLoss, Down
    <2>3. \A m \in Readable' : m.id # 0 => snaps'[m.id].state = "whole"
      BY <1>13, <2>2 DEF PowerLoss, Down, files, NameInv, NamedIsWhole
    <2>4. OnlyWholeNames' /\ WrittenFirst' /\ NoneIsAhead'
      BY <1>0, <1>13, <1>t, <2>1 DEF PowerLoss, Down, OnlyWholeNames, WrittenFirst, NoneIsAhead
    <2> QED
      BY <1>0, <2>3, <2>4 DEF NameInv, NamedIsWhole
  <1>14. CASE UNCHANGED vars
    BY <1>0, <1>14, <1>s DEF vars, files, WrittenFirst, NextId
  <1> QED
    BY <1>1, <1>2, <1>3, <1>4, <1>5, <1>7, <1>8, <1>9, <1>10, <1>11, <1>12, <1>13, <1>14 DEF Next


\* Only write_snapshot writes to a snapshot file: to the one with the next id.
LEMMA OnlyNextIsWritten ==
  ASSUME TypeOK, [Next]_vars
  PROVE  \/ snaps' = snaps
         \/ mgr = "up" /\ NextId \in Ids /\ \E s : snaps' = [snaps EXCEPT ![NextId] = s]
  BY DEF Next, vars, files, Write, merge_wal, add_wal_bytes, new, take_snapshot, CreateSnapshot,
         SyncSnapshot, AdvanceManifest, WriteManifest, Fail, Kill, PowerLoss, Down, TypeOK

\* So a step changes no snapshot that a manifest names.
LEMMA KeptStep ==
  ASSUME NameInv, [Next]_vars
  PROVE  \A m \in Readable \cap Readable' : m.id # 0 => snaps'[m.id] = snaps[m.id]
  <1>1. TypeOK /\ NoneIsAhead
    BY DEF NameInv, NamedIsWhole
  <1>2. CASE snaps' = snaps
    BY <1>2
  <1>3. CASE mgr = "up" /\ NextId \in Ids /\ \E s : snaps' = [snaps EXCEPT ![NextId] = s]
    <2>1. \A m \in Readable : m.id \in 0 .. MaxId /\ m.id # NextId
      BY <1>1, <1>3, NextIsFree, BoundsAssumption DEF Manifest, Ids
    <2> QED
      BY <1>1, <1>3, <2>1, BoundsAssumption DEF TypeOK, Ids
  <1> QED
    BY <1>1, <1>2, <1>3, OnlyNextIsWritten

\* NameInv is an invariant.
LEMMA AlwaysNameInv == Spec => []NameInv
  BY NameInit, NameStep, PTL DEF Spec

\* Whichever version of manifest.json a power failure brings back, and
\* wherever take_snapshot or merge_wal was interrupted, the snapshot it names
\* is there and whole (and the types are right).
THEOREM NamedSnapshotIsWhole == Spec => []NamedIsWhole
  <1>1. NameInv => NamedIsWhole
    BY DEF NameInv
  <1> QED
    BY <1>1, AlwaysNameInv, PTL

\* write_snapshot never touches a snapshot that a manifest, in memory or in a
\* version of manifest.json that may come back, still names.
THEOREM NamedSnapshotIsKept == Spec => NamedIsKept
  <1>1. NameInv /\ [Next]_vars =>
          [\A m \in Readable \cap Readable' : m.id # 0 => snaps'[m.id] = snaps[m.id]]_vars
    BY KeptStep
  <1> QED
    BY <1>1, AlwaysNameInv, PTL DEF Spec, NamedIsKept


-----------------------------------------------------------------------------
(* Recovery                                                                *)

\* A manager that is there was there before, or new() created it.
LEMMA OnlyNewStarts == ASSUME TypeOK, [Next]_vars, mgr' = "up" PROVE mgr = "up" \/ new
  <1>1. CASE \E f \in Files : Write(f) \/ merge_wal(f)
    BY <1>1 DEF Write, merge_wal
  <1>2. CASE Kill \/ PowerLoss
    BY <1>2 DEF Kill, PowerLoss, Down
  <1> QED
    BY <1>1, <1>2 DEF Next, vars, add_wal_bytes, take_snapshot, CreateSnapshot, SyncSnapshot,
                      AdvanceManifest, WriteManifest, Fail

\* With callers that rotate, a merged file stays merged and is not written to.
LEMMA RetiredStaysPut ==
  ASSUME TypeOK, Rotating, [Next]_vars
  PROVE  retired \subseteq retired' /\ \A f \in retired : wal'[f] = wal[f]
  BY DEF Next, vars, files, history, Write, merge_wal, add_wal_bytes, new, take_snapshot,
         CreateSnapshot, SyncSnapshot, AdvanceManifest, WriteManifest, Fail, Kill, PowerLoss, Down,
         TypeOK

\* What a manifest covers, it still covers after a step that leaves it readable.
LEMMA CoverCarriesOver ==
  ASSUME Rotating, NameInv, MergedIsCovered, [Next]_vars, NEW m \in Readable, m \in Readable',
         NEW f \in m.merged
  PROVE  f \in retired' /\ (m.id # 0 => wal'[f] \subseteq snaps'[m.id].data)
  <1>1. f \in retired /\ (m.id # 0 => wal[f] \subseteq snaps[m.id].data)
    BY DEF MergedIsCovered
  <1>2. m.id # 0 => snaps'[m.id] = snaps[m.id]
    BY KeptStep
  <1>3. retired \subseteq retired' /\ wal'[f] = wal[f]
    BY <1>1, RetiredStaysPut DEF NameInv, NamedIsWhole
  <1> QED
    BY <1>1, <1>2, <1>3

\* Every step keeps the merged files covered.
LEMMA CoverStep ==
  ASSUME Rotating, NameInv, MergedIsCovered, [Next]_vars PROVE MergedIsCovered'
  <1>0. TypeOK /\ WrittenFirst /\ (mgr = "up" => manifest \in Readable)
    BY ReadableIs DEF NameInv, NamedIsWhole
  <1>d. mgr = "up" /\ UNCHANGED manifest => \A f \in manifest.merged : wal'[f] = wal[f]
    BY <1>0, RetiredStaysPut DEF MergedIsCovered
  \* The snapshot under way: what it holds was collected before.
  <1>a. ASSUME pc' \in {"create", "write", "advance"}
        PROVE  \A f \in manifest'.merged : wal'[f] \subseteq data'
    <2>1. CASE take_snapshot
      <3>1. \A f \in Files : wal[f] \subseteq data'
        BY <2>1 DEF take_snapshot
      <3> QED
        BY <1>0, <2>1, <3>1 DEF take_snapshot, files, TypeOK, Manifest
    <2>2. CASE pc \in {"create", "write", "advance"} /\ UNCHANGED <<manifest, data>> /\ mgr = "up"
      BY <1>d, <2>2 DEF MergedIsCovered
    <2> QED
      BY <1>0, <1>a, <2>1, <2>2
      DEF Next, vars, Write, merge_wal, add_wal_bytes, new, Idle, CreateSnapshot,
          SyncSnapshot, AdvanceManifest, WriteManifest, Fail, Kill, PowerLoss, Down, TypeOK
  <1>b. SUFFICES ASSUME NEW m \in Readable', m \notin Readable, NEW f \in m.merged
                 PROVE  f \in retired' /\ (m.id # 0 => wal'[f] \subseteq snaps'[m.id].data)
    BY <1>a, CoverCarriesOver DEF MergedIsCovered
  <1>c. m = manifest' /\ mgr' = "up"
    BY <1>0, <1>b, ReadableIs, ContentsTypes
    DEF Next, vars, name, Write, merge_wal, add_wal_bytes, new, take_snapshot, CreateSnapshot,
        SyncSnapshot, AdvanceManifest, Truncate, WriteManifest, Fail, Kill, PowerLoss, Down, TypeOK
  <1>1. ASSUME NEW g \in Files, merge_wal(g) PROVE f \in retired' /\ (m.id # 0 => wal'[f] \subseteq snaps'[m.id].data)
    <2>1. m.id = manifest.id /\ m.merged = manifest.merged \cup {g}
      BY <1>0, <1>c, <1>1, ManifestTypes DEF merge_wal
    <2>2. manifest.id # 0 /\ wal[g] \subseteq snaps[manifest.id].data /\ g \in retired' /\ retired \subseteq retired'
      BY <1>1 DEF merge_wal
    <2>3. f \in manifest.merged => f \in retired /\ wal[f] \subseteq snaps[manifest.id].data
      BY <1>0, <1>1, <2>2 DEF MergedIsCovered, merge_wal, Idle
    <2> QED
      BY <1>1, <2>1, <2>2, <2>3 DEF merge_wal, files
  <1>2. ASSUME new PROVE FALSE
    BY <1>0, <1>b, <1>c, <1>2, ReadableIs, ContentsTypes DEF new, name, TypeOK
  <1>3. ASSUME AdvanceManifest \/ (Fail /\ pc = "advance")
        PROVE  f \in retired' /\ (m.id # 0 => wal'[f] \subseteq snaps'[m.id].data)
    <2>1. mgr = "up" /\ pc = "advance" /\ manifest' = [manifest EXCEPT !.id = NextId] /\ NextId \in Ids
          /\ UNCHANGED <<files, retired>>
      BY <1>0, <1>3 DEF AdvanceManifest, Fail, TypeOK, history
    <2>2. m.id = NextId /\ m.merged = manifest.merged
      BY <1>0, <1>c, <2>1, ManifestTypes
    <2>3. f \in retired /\ wal[f] \subseteq data
      BY <1>0, <2>1, <2>2 DEF MergedIsCovered
    <2>4. snaps[NextId].data = data
      BY <1>0, <2>1 DEF WrittenFirst
    <2> QED
      BY <2>1, <2>2, <2>3, <2>4 DEF files
  <1>4. ASSUME mgr = "up", manifest' = manifest PROVE FALSE
    BY <1>b, <1>c, <1>4, ReadableIs
  <1>5. \/ \E g \in Files : merge_wal(g)
        \/ new \/ AdvanceManifest \/ (Fail /\ pc = "advance")
        \/ manifest' = manifest
    <2>1. ASSUME NEW g \in Files, Write(g) PROVE manifest' = manifest
      BY <2>1 DEF Write
    <2>2. ASSUME Fail, pc # "advance" PROVE manifest' = manifest
      BY <2>2 DEF Fail
    <2>3. ASSUME \/ add_wal_bytes \/ take_snapshot \/ CreateSnapshot \/ SyncSnapshot
                 \/ WriteManifest \/ UNCHANGED vars
          PROVE  manifest' = manifest
      BY <2>3 DEF add_wal_bytes, take_snapshot, CreateSnapshot, SyncSnapshot, WriteManifest, vars
    <2>4. ~Kill /\ ~PowerLoss
      BY <1>c DEF Kill, PowerLoss, Down
    <2> QED
      BY <2>1, <2>2, <2>3, <2>4 DEF Next
  <1>6. mgr = "up" \/ new
    BY <1>0, <1>c, OnlyNewStarts
  <1> QED
    BY <1>1, <1>2, <1>3, <1>4, <1>5, <1>6

\* For callers that rotate their WAL files, recovery from any manifest that
\* may be there restores every write, wherever calls failed or were cut short.
THEOREM RotatedWritesSurvive == Spec => []NothingIsLost
  <1>1. Init => MergedIsCovered
    BY ReadableIs DEF Init, MergedIsCovered, Missing
  <1>2. NameInv /\ MergedIsCovered /\ [Next]_vars => MergedIsCovered'
    BY CoverStep DEF MergedIsCovered
  <1>3. NameInv /\ MergedIsCovered => NothingIsLost
    BY DEF MergedIsCovered, NothingIsLost, Recovered, Replays
  <1> QED
    BY <1>1, <1>2, <1>3, AlwaysNameInv, PTL DEF Spec


-----------------------------------------------------------------------------
(* The count of should_snapshot                                            *)

\* Of the writes of this manager, a snapshot lacks finitely many; one more
\* write makes it lack at most one more.
LEMMA CountWrites ==
  ASSUME NEW M \in SUBSET Writes, NEW X, NEW n \in Writes
  PROVE  /\ Cardinality(M \ X) \in Nat /\ Cardinality((M \cup {n}) \ X) \in Nat
         /\ Cardinality((M \cup {n}) \ X) <= Cardinality(M \ X) + 1
  <1>1. IsFiniteSet(Writes)
    BY FS_Interval, BoundsAssumption DEF Writes
  <1>2. IsFiniteSet(M \ X)
    <2>1. M \ X \in SUBSET Writes
      OBVIOUS
    <2> QED
      BY <1>1, <2>1, FS_Subset
  <1>3. Cardinality(M \ X) \in Nat
    BY <1>2, FS_CardinalityType
  <1>4. CASE n \in X
    <2>1. (M \cup {n}) \ X = M \ X
      BY <1>4
    <2> QED
      BY <1>3, <2>1
  <1>5. CASE n \notin X
    <2>1. (M \cup {n}) \ X = (M \ X) \cup {n}
      BY <1>5
    <2>2. Cardinality((M \ X) \cup {n}) =
            IF n \in M \ X THEN Cardinality(M \ X) ELSE Cardinality(M \ X) + 1
      BY <1>2, FS_AddElement
    <2> QED
      BY <1>3, <2>1, <2>2
  <1> QED
    BY <1>4, <1>5

\* The same without a write.
LEMMA CountIsNatural == \A M \in SUBSET Writes : \A X : Cardinality(M \ X) \in Nat
  <1> SUFFICES ASSUME NEW M \in SUBSET Writes, NEW X PROVE Cardinality(M \ X) \in Nat
    OBVIOUS
  <1>1. IsFiniteSet(Writes)
    BY FS_Interval, BoundsAssumption DEF Writes
  <1>2. M \ X \in SUBSET Writes
    OBVIOUS
  <1>3. IsFiniteSet(M \ X)
    BY <1>1, <1>2, FS_Subset
  <1> QED
    BY <1>3, FS_CardinalityType

\* Nothing is lacking from a snapshot that holds all of this manager's writes.
LEMMA NothingLacks == ASSUME NEW X, mine \subseteq X PROVE Cardinality(mine \ X) = 0
  <1>1. mine \ X = {}
    OBVIOUS
  <1> QED
    BY <1>1, FS_EmptySet

\* Every step keeps the count.
LEMMA CountStep ==
  ASSUME NameInv, CountIsKept, [Next]_vars PROVE CountIsKept'
  <1>0. TypeOK /\ TypeOK' /\ WrittenFirst
    BY TypeStep DEF NameInv, NamedIsWhole
  <1>t. bytes \in Nat /\ unreported \in Nat /\ manifest.id \in Nat
    BY <1>0 DEF TypeOK, Manifest
  <1>c. \A X : Cardinality(mine \ X) \in Nat
    BY <1>0, CountIsNatural DEF TypeOK
  \* Steps that leave this manager, its count and its snapshot alone.
  <1>s. ASSUME UNCHANGED <<wal, mgr, bytes, unreported, data, mine>>,
               mgr = "up" => manifest'.id = manifest.id,
               mgr = "up" /\ manifest.id # 0 => snaps'[manifest.id] = snaps[manifest.id],
               pc' \in {"create", "write", "advance", "name"} => pc \in {"create", "write", "advance", "name"}
        PROVE  CountIsKept'
    BY <1>s DEF CountIsKept
  \* The manifest moves on to the snapshot just written.
  <1>m. ASSUME UNCHANGED <<wal, snaps, mgr, bytes, unreported, data, mine>>, pc = "advance",
               manifest'.id = NextId
        PROVE  CountIsKept'
    <2>1. snaps'[manifest'.id].data = data'
      BY <1>0, <1>m DEF WrittenFirst
    <2>2. Cardinality(mine' \ data') <= unreported'
      BY <1>m DEF CountIsKept
    <2>3. Cardinality(mine' \ data') <= bytes' + unreported'
      BY <1>c, <1>m, <1>t, <2>2
    <2> QED
      BY <1>m, <2>1, <2>2, <2>3 DEF CountIsKept
  <1>1. ASSUME NEW f \in Files, Write(f) PROVE CountIsKept'
    <2>1. CASE mgr # "up"
      BY <1>0, <1>1, <2>1 DEF Write, CountIsKept, TypeOK
    <2>2. CASE mgr = "up"
      <3>1. mine' = mine \cup {next} /\ unreported' = unreported + 1
            /\ UNCHANGED <<snaps, mgr, manifest, bytes, pc, data>>
        BY <1>1, <2>2 DEF Write
      <3>2. mine' \subseteq UNION {wal'[g] : g \in Files}
        <4>1. \A g \in Files : wal[g] \subseteq wal'[g]
          BY <1>0, <1>1 DEF Write, TypeOK
        <4>2. next \in wal'[f]
          BY <1>0, <1>1 DEF Write, TypeOK
        <4> QED
          BY <2>2, <3>1, <4>1, <4>2 DEF CountIsKept
      <3>3. \A X : /\ Cardinality(mine \ X) \in Nat /\ Cardinality(mine' \ X) \in Nat
                   /\ Cardinality(mine' \ X) <= Cardinality(mine \ X) + 1
        <4>1. mine \in SUBSET Writes /\ next \in Writes
          BY <1>0, <1>1 DEF Write, TypeOK
        <4> QED
          BY <3>1, <4>1, CountWrites
      <3>4. ASSUME manifest.id # 0
            PROVE  Cardinality(mine' \ snaps[manifest.id].data) <= bytes + unreported + 1
        <4>1. Cardinality(mine \ snaps[manifest.id].data) <= bytes + unreported
          BY <2>2, <3>4 DEF CountIsKept
        <4>2. /\ Cardinality(mine \ snaps[manifest.id].data) \in Nat
              /\ Cardinality(mine' \ snaps[manifest.id].data) \in Nat
              /\ Cardinality(mine' \ snaps[manifest.id].data)
                   <= Cardinality(mine \ snaps[manifest.id].data) + 1
          BY <3>3
        <4> QED
          BY <1>t, <4>1, <4>2
      <3>5. ASSUME pc \in {"create", "write", "advance", "name"}
            PROVE  Cardinality(mine' \ data) <= unreported + 1
        <4>1. Cardinality(mine \ data) <= unreported
          BY <3>5 DEF CountIsKept
        <4> QED
          BY <1>t, <3>3, <4>1
      <3>6. bytes + unreported + 1 = bytes' + unreported'
        BY <1>t, <3>1
      <3> QED
        BY <2>2, <3>1, <3>2, <3>4, <3>5, <3>6 DEF CountIsKept
    <2> QED
      BY <2>1, <2>2
  <1>2. ASSUME NEW f \in Files, merge_wal(f) PROVE CountIsKept'
    <2>1. manifest'.id = manifest.id
      BY <1>0, <1>2, ManifestTypes DEF merge_wal
    <2> QED
      BY <1>2, <1>s, <2>1 DEF merge_wal, files
  <1>3. CASE add_wal_bytes
    BY <1>0, <1>3, <1>t DEF add_wal_bytes, Idle, CountIsKept, files, history, TypeOK
  <1>4. CASE new
    <2>1. mine' = {} /\ bytes' = 0 /\ unreported' = 0 /\ pc' = "idle"
      BY <1>0, <1>4 DEF new, TypeOK
    <2>2. \A X : Cardinality({} \ X) = 0
      <3>1. \A X : {} \ X = {}
        OBVIOUS
      <3> QED
        BY <3>1, FS_EmptySet
    <2> QED
      BY <2>1, <2>2 DEF CountIsKept
  <1>5. CASE take_snapshot
    <2>1. mine \subseteq data'
      BY <1>5 DEF take_snapshot, Idle, CountIsKept
    <2>2. Cardinality(mine \ data') = 0
      BY <2>1, NothingLacks
    <2> QED
      BY <1>5, <1>t, <2>2 DEF take_snapshot, files, history, CountIsKept
  <1>6. CASE CreateSnapshot \/ SyncSnapshot
    <2>1. manifest.id # 0 => snaps'[manifest.id] = snaps[manifest.id]
      BY <1>0, <1>6, <1>t, BoundsAssumption DEF CreateSnapshot, SyncSnapshot, NextId, TypeOK, Ids
    <2> QED
      BY <1>6, <1>s, <2>1 DEF CreateSnapshot, SyncSnapshot, history
  <1>7. CASE AdvanceManifest
    <2>1. manifest'.id = NextId
      BY <1>0, <1>7, ManifestTypes DEF AdvanceManifest, TypeOK
    <2> QED
      BY <1>7, <1>m, <2>1 DEF AdvanceManifest, files, history
  <1>8. CASE WriteManifest /\ pc = "merge"
    BY <1>0, <1>8, <1>s DEF WriteManifest, files, history
  <1>9. CASE WriteManifest /\ pc = "name"
    <2>1. snaps[manifest.id].data = data
      BY <1>0, <1>9 DEF WrittenFirst
    <2>2. Cardinality(mine \ data) <= unreported
      BY <1>9 DEF CountIsKept
    <2> QED
      BY <1>0, <1>9, <1>c, <1>t, <2>1, <2>2 DEF WriteManifest, files, history, CountIsKept
  <1>10. CASE Fail /\ pc = "advance"
    <2>1. manifest'.id = NextId
      BY <1>0, <1>10, ManifestTypes DEF Fail, TypeOK
    <2> QED
      BY <1>10, <1>m, <2>1 DEF Fail, files, history
  <1>11. CASE Fail /\ pc # "advance"
    BY <1>11, <1>s DEF Fail, files, history
  <1>12. CASE Kill \/ PowerLoss
    BY <1>12 DEF Kill, PowerLoss, Down, CountIsKept
  <1>13. CASE UNCHANGED vars
    BY <1>13, <1>s DEF vars, files, history
  <1> QED
    BY <1>1, <1>2, <1>3, <1>4, <1>5, <1>6, <1>7, <1>8, <1>9, <1>10, <1>11, <1>12, <1>13
    DEF Next, WriteManifest

\* Writes that were reported and are in no snapshot are never lost from the
\* count: when there are enough of them, should_snapshot says so.
THEOREM DueSnapshotIsNoticed == Spec => []DueIsNoticed
  <1>1. Init => CountIsKept
    BY DEF Init, CountIsKept
  <1>2. NameInv /\ CountIsKept /\ [Next]_vars => CountIsKept'
    BY CountStep
  <1>3. NameInv /\ CountIsKept => DueIsNoticed
    <2> SUFFICES ASSUME NameInv, CountIsKept, Idle, unreported = 0, manifest.id # 0,
                        Cardinality(mine \ snaps[manifest.id].data) >= interval
                 PROVE  should_snapshot
      BY DEF DueIsNoticed
    <2>1. mine \in SUBSET Writes /\ bytes \in Nat /\ interval \in Nat
      BY BoundsAssumption DEF NameInv, NamedIsWhole, TypeOK
    <2>2. Cardinality(mine \ snaps[manifest.id].data) <= bytes + unreported
      BY DEF CountIsKept, Idle
    <2>3. Cardinality(mine \ snaps[manifest.id].data) \in Nat
      BY <2>1, CountIsNatural
    <2> QED
      BY <2>1, <2>2, <2>3 DEF should_snapshot
  <1> QED
    BY <1>1, <1>2, <1>3, AlwaysNameInv, PTL DEF Spec

-----------------------------------------------------------------------------
(* CjkAnalyzer                                                             *)

Tok == [from : 1 .. End, to : 1 .. End, position : 0 .. 2 * MaxLen]

\* The types; a character accounts for two tokens at most.
TextInv ==
    /\ chars \in Seq(Chars) /\ Len(chars) <= MaxLen
    /\ i \in 1 .. End + 1
    /\ tokens \in Seq(Tok)
    /\ pos = Len(tokens) /\ pos <= 2 * (i - 1)

\* Every token is a term that starts in the part already read, ...
Sound ==
    \A k \in DOMAIN tokens : tokens[k].from < i /\ IsTerm(tokens[k].from, tokens[k].to)

\* ... and every such term is a token.
Complete ==
    \A a, b \in 1 .. End : a < i /\ IsTerm(a, b) =>
        \E k \in DOMAIN tokens : tokens[k].from = a /\ tokens[k].to = b

\* A word or a number that the next character is in starts there.
Cut ==
    \A n \in 1 .. End : n = i =>
        /\ InWord(n) => n = 1 \/ ~InWord(n - 1)
        /\ InNumber(n) => n = 1 \/ ~InNumber(n - 1)

CutInv == TextInv /\ Sound /\ Complete /\ PositionsFollowText /\ Cut
-----------------------------------------------------------------------------
(* The ends of runs                                                        *)

\* Every nonempty set of naturals has a least element.
LEMMA LeastNatural == ASSUME NEW T \in SUBSET Nat, T # {} PROVE \E x \in T : \A y \in T : x <= y
  <1> DEFINE R == {ss \in Nat \X Nat : ss[1] < ss[2]}
  <1>1. IsWellFoundedOn(R, Nat)
    BY NatLessThanWellFounded, Zenon DEF OpToRel
  <1>2. PICK x \in T : \A y \in T : ~(<<y, x>> \in R)
    <2> HIDE DEF R
    <2> QED
      BY <1>1, WFMin
  <1>3. \A y \in T : ~(y < x)
    BY <1>2
  <1> QED
    BY <1>3

\* A run of characters of one kind ends.
LEMMA RunHasEnd ==
  ASSUME TextInv, NEW S
  PROVE  \E e \in i .. End + 1 : (\A k \in i .. e - 1 : chars[k] \in S) /\ (e = End + 1 \/ ~(chars[e] \in S))
  <1> DEFINE T == {e \in i .. End + 1 : e = End + 1 \/ ~(chars[e] \in S)}
  <1>0. End \in Nat /\ i \in 1 .. End + 1
    BY DEF TextInv, End
  <1>1. T \in SUBSET Nat /\ End + 1 \in T
    BY <1>0
  <1>2. PICK e \in T : \A y \in T : e <= y
    <2> HIDE DEF T
    <2> QED
      BY <1>1, LeastNatural
  <1>3. ASSUME NEW k \in i .. e - 1 PROVE chars[k] \in S
    <2>1. k \in i .. End + 1 /\ ~(e <= k) /\ k # End + 1
      BY <1>0, <1>2
    <2> QED
      BY <1>2, <2>1
  <1> QED
    BY <1>2, <1>3

\* What EndOfRun is, of letters and of what is numeric.
LEMMA EndOfRunIs ==
  ASSUME TextInv
  PROVE  /\ LET e == EndOfRun(is_alphabetic)
            IN  /\ e \in i .. End + 1 /\ \A k \in i .. e - 1 : is_alphabetic(chars[k])
                /\ e = End + 1 \/ ~is_alphabetic(chars[e])
         /\ LET e == EndOfRun(is_numeric)
            IN  /\ e \in i .. End + 1 /\ \A k \in i .. e - 1 : is_numeric(chars[k])
                /\ e = End + 1 \/ ~is_numeric(chars[e])
  <1>1. \E e \in i .. End + 1 : (\A k \in i .. e - 1 : is_alphabetic(chars[k])) /\ (e = End + 1 \/ ~is_alphabetic(chars[e]))
    BY RunHasEnd DEF is_alphabetic
  <1>2. \E e \in i .. End + 1 : (\A k \in i .. e - 1 : is_numeric(chars[k])) /\ (e = End + 1 \/ ~is_numeric(chars[e]))
    BY RunHasEnd DEF is_numeric
  <1> QED
    BY <1>1, <1>2 DEF EndOfRun

-----------------------------------------------------------------------------
(* Terms                                                                   *)

\* The classes of characters.
LEMMA Classes ==
  ASSUME NEW c \in Chars
  PROVE  /\ is_alphabetic(c) /\ ~is_cjk(c) <=> c \in {"latin", "letternumber"}
         /\ is_numeric(c) /\ ~is_alphabetic(c) <=> c = "digit"
         /\ is_cjk(c) => ~is_numeric(c) /\ c \notin {"latin", "letternumber"}
         /\ c = "digit" => ~is_cjk(c)
  BY DEF Chars, is_cjk, is_alphabetic, is_numeric

\* The text does not change.
LEMMA SameText ==
  ASSUME chars' = chars
  PROVE  /\ End' = End /\ Tok' = Tok
         /\ \A k : (InNumber(k)' <=> InNumber(k)) /\ (InWord(k)' <=> InWord(k))
         /\ \A a, b : IsTerm(a, b)' <=> IsTerm(a, b)
  <1>1. End' = End
    BY DEF End
  <1>2. Tok' = Tok
    BY <1>1 DEF Tok
  <1>3. \A k : InNumber(k)' <=> InNumber(k)
    BY DEF InNumber
  <1>4. \A k : InWord(k)' <=> InWord(k)
    BY DEF InWord, InNumber
  <1>5. Words' = Words /\ Numbers' = Numbers
    BY <1>1, <1>3, <1>4 DEF Words, Numbers
  <1>6. \A k : Apart(k)' <=> Apart(k)
    BY <1>4 DEF Apart
  <1>7. \A a, b : IsTerm(a, b)' <=> IsTerm(a, b)
    BY <1>5, <1>6 DEF IsTerm, Stretch
  <1> QED
    BY <1>1, <1>2, <1>3, <1>4, <1>7

\* A number starts with a digit and goes on as long as the text is numeric.
LEMMA NumberIs ==
  ASSUME TextInv, NEW k \in 1 .. End
  PROVE  InNumber(k) <=> is_numeric(chars[k]) /\ (chars[k] = "digit" \/ (k # 1 /\ InNumber(k - 1)))
  <1>0. End \in Nat
    BY DEF TextInv, End
  <1>1. ASSUME InNumber(k), chars[k] # "digit"
        PROVE  k # 1 /\ InNumber(k - 1)
    <2>1. PICK j \in 1 .. k : chars[j] = "digit" /\ \A m \in j .. k : is_numeric(chars[m])
      BY <1>1 DEF InNumber
    <2>2. j # k /\ j \in 1 .. k - 1 /\ \A m \in j .. k - 1 : m \in j .. k
      BY <1>0, <1>1, <2>1
    <2> QED
      BY <1>0, <2>1, <2>2 DEF InNumber
  <1>2. InNumber(k) => is_numeric(chars[k])
    BY <1>0 DEF InNumber
  <1>3. ASSUME is_numeric(chars[k]), k # 1, InNumber(k - 1) PROVE InNumber(k)
    <2>1. PICK j \in 1 .. k - 1 : chars[j] = "digit" /\ \A m \in j .. k - 1 : is_numeric(chars[m])
      BY <1>3 DEF InNumber
    <2>2. j \in 1 .. k /\ \A m \in j .. k : m = k \/ m \in j .. k - 1
      BY <1>0, <2>1
    <2> QED
      BY <1>3, <2>1, <2>2 DEF InNumber
  <1>4. ASSUME is_numeric(chars[k]), chars[k] = "digit" PROVE InNumber(k)
    <2>1. k \in 1 .. k /\ \A m \in k .. k : m = k
      BY <1>0
    <2> QED
      BY <1>4, <2>1 DEF InNumber
  <1> QED
    BY <1>1, <1>2, <1>3, <1>4

\* A word starts with a letter that is neither CJK nor in a number and goes on
\* as long as there are letters.
LEMMA WordIs ==
  ASSUME TextInv, NEW k \in 1 .. End, InWord(k)
  PROVE  /\ is_alphabetic(chars[k])
         /\ \/ chars[k] \in {"latin", "letternumber"} /\ ~InNumber(k)
            \/ k # 1 /\ InWord(k - 1)
  <1>0. End \in Nat
    BY DEF TextInv, End
  <1>1. PICK j \in 1 .. k : /\ chars[j] \in {"latin", "letternumber"} /\ ~InNumber(j)
                            /\ \A m \in j .. k : is_alphabetic(chars[m])
    BY DEF InWord
  <1>2. is_alphabetic(chars[k])
    BY <1>0, <1>1
  <1>3. ASSUME j # k PROVE k # 1 /\ InWord(k - 1)
    <2>1. k # 1 /\ j \in 1 .. k - 1 /\ \A m \in j .. k - 1 : m \in j .. k
      BY <1>0, <1>3
    <2> QED
      BY <1>1, <2>1 DEF InWord
  <1> QED
    BY <1>1, <1>2, <1>3

\* No character is in a word and in a number.
LEMMA WordsAreNoNumbers ==
  ASSUME TextInv, NEW k \in 1 .. End
  PROVE  ~(InWord(k) /\ InNumber(k))
  <1> SUFFICES ASSUME InWord(k), InNumber(k) PROVE FALSE
    OBVIOUS
  <1>0. End \in Nat /\ \A m \in 1 .. End : chars[m] \in Chars
    BY DEF TextInv, End
  <1>1. PICK j \in 1 .. k : ~InNumber(j) /\ \A m \in j .. k : is_alphabetic(chars[m])
    BY DEF InWord
  <1>2. PICK d \in 1 .. k : chars[d] = "digit" /\ \A m \in d .. k : is_numeric(chars[m])
    BY DEF InNumber
  <1>3. ~is_alphabetic(chars[d])
    BY <1>0, <1>2, Classes
  <1>4. d \in 1 .. j /\ \A m \in d .. j : m \in d .. k
    BY <1>0, <1>1, <1>2, <1>3
  <1> QED
    BY <1>1, <1>2, <1>4 DEF InNumber

\* A CJK character at which a round starts is not in a word, nor is one that
\* follows it; and it is not in a number.
LEMMA CjkIsApart ==
  ASSUME TextInv, Cut, More, is_cjk(chars[i])
  PROVE  /\ ~InWord(i) /\ ~InNumber(i) /\ Apart(i)
         /\ i + 1 <= End /\ is_cjk(chars[i + 1]) => Apart(i + 1)
  <1>0. End \in Nat /\ i \in 1 .. End /\ \A k \in 1 .. End : chars[k] \in Chars
    BY DEF TextInv, End, More
  <1>1. ~InWord(i)
    BY <1>0, Classes, WordIs DEF Cut
  <1>2. ~InNumber(i)
    BY <1>0, Classes, NumberIs
  <1>3. ASSUME i + 1 <= End, is_cjk(chars[i + 1]) PROVE ~InWord(i + 1)
    <2>1. i + 1 \in 1 .. End /\ (i + 1) - 1 = i
      BY <1>0, <1>3
    <2> QED
      BY <1>0, <1>1, <1>3, <2>1, Classes, WordIs
  <1> QED
    BY <1>1, <1>2, <1>3 DEF Apart

\* The terms that start at a CJK character.
LEMMA BigramTerms ==
  ASSUME TextInv, Cut, More, is_cjk(chars[i])
  PROVE  \A b \in 1 .. End : IsTerm(i, b) <=> b = i \/ (b = i + 1 /\ is_cjk(chars[i + 1]))
  <1>0. End \in Nat /\ i \in 1 .. End /\ \A k \in 1 .. End : chars[k] \in Chars
    BY DEF TextInv, End, More
  <1>1. Apart(i) /\ (i + 1 <= End /\ is_cjk(chars[i + 1]) => Apart(i + 1))
    BY CjkIsApart
  <1>2. i \notin Words /\ i \notin Numbers
    BY CjkIsApart DEF Words, Numbers
  <1>3. ASSUME NEW b \in 1 .. End PROVE IsTerm(i, b) <=> b = i \/ (b = i + 1 /\ is_cjk(chars[i + 1]))
    <2>1. i <= b => i \in i .. b
      BY <1>0
    <2>2. i <= b => ~Stretch(Words, i, b) /\ ~Stretch(Numbers, i, b)
      BY <1>2, <2>1 DEF Stretch
    <2>3. IsTerm(i, b) <=> i <= b /\ b <= i + 1 /\ Apart(b)
      BY <1>1, <2>2 DEF IsTerm
    <2>4. Apart(b) => is_cjk(chars[b])
      BY DEF Apart
    <2>5. i <= b /\ b <= i + 1 <=> b = i \/ b = i + 1
      BY <1>0
    <2> QED
      BY <1>0, <1>1, <2>3, <2>4, <2>5
  <1> QED
    BY <1>3

\* Of the stretches that start in a run, only the run itself goes no further.
LEMMA StretchIs ==
  ASSUME TextInv, NEW S, NEW e \in i .. End + 1, e > i,
         \A k \in i .. e - 1 : k \in S, e \notin S, i - 1 \notin S,
         NEW a \in i .. e - 1, NEW b \in 1 .. End
  PROVE  a <= b /\ Stretch(S, a, b) <=> a = i /\ b = e - 1
  <1>0. End \in Nat /\ i \in 1 .. End + 1
    BY DEF TextInv, End
  <1>1. ASSUME a = i, b = e - 1 PROVE a <= b /\ Stretch(S, a, b)
    <2>1. a <= b /\ b + 1 = e
      BY <1>0, <1>1
    <2> QED
      BY <1>1, <2>1 DEF Stretch
  <1>2. ASSUME a <= b, Stretch(S, a, b) PROVE a = i /\ b = e - 1
    <2>1. a # i => a - 1 \in i .. e - 1
      BY <1>0
    <2>2. b < e - 1 => b + 1 \in i .. e - 1
      BY <1>0, <1>2
    <2>3. b > e - 1 => e \in a .. b
      BY <1>0
    <2> QED
      BY <1>0, <1>2, <2>1, <2>2, <2>3 DEF Stretch
  <1> QED
    BY <1>1, <1>2

\* The terms that start in a word.
LEMMA WordTerms ==
  ASSUME TextInv, Cut, More, chars[i] \in {"latin", "letternumber"}, NEW e \in i .. End + 1,
         \A k \in i .. e - 1 : is_alphabetic(chars[k]), e = End + 1 \/ ~is_alphabetic(chars[e])
  PROVE  /\ e > i /\ (\A k \in i .. e - 1 : InWord(k)) /\ e \notin Words
         /\ \A a \in i .. e - 1, b \in 1 .. End : IsTerm(a, b) <=> a = i /\ b = e - 1
  <1>0. End \in Nat /\ i \in 1 .. End /\ \A k \in 1 .. End : chars[k] \in Chars
    BY DEF TextInv, End, More
  <1>1. e > i
    <2>1. is_alphabetic(chars[i])
      BY <1>0, Classes
    <2>2. e # i
      BY <1>0, <2>1
    <2> QED
      BY <1>0, <2>2
  <1>2. ~InNumber(i)
    <2>1. chars[i] # "digit"
      OBVIOUS
    <2> QED
      BY <1>0, <2>1, NumberIs DEF Cut
  <1>3. ASSUME NEW k \in i .. e - 1 PROVE k \in 1 .. End /\ InWord(k)
    <2>1. k \in 1 .. End /\ i \in 1 .. k /\ \A m \in i .. k : m \in i .. e - 1
      BY <1>0
    <2> QED
      BY <1>2, <2>1 DEF InWord
  <1>4. e \notin Words
    <2> SUFFICES ASSUME e \in 1 .. End, InWord(e) PROVE FALSE
      BY DEF Words
    <2>1. is_alphabetic(chars[e])
      BY WordIs
    <2> QED
      BY <1>0, <2>1
  <1>5. i - 1 \notin Words
    <2>1. InWord(i)
      BY <1>0, <1>1, <1>3
    <2> QED
      BY <1>0, <2>1 DEF Cut, Words
  <1>6. ASSUME NEW a \in i .. e - 1, NEW b \in 1 .. End PROVE IsTerm(a, b) <=> a = i /\ b = e - 1
    <2>1. ~Apart(a) /\ a \notin Numbers
      BY <1>3, WordsAreNoNumbers DEF Apart, Numbers
    <2>2. a <= b => a \in a .. b
      BY <1>0
    <2>3. IsTerm(a, b) <=> a <= b /\ Stretch(Words, a, b)
      BY <2>1, <2>2 DEF IsTerm, Stretch
    <2>4. \A k \in i .. e - 1 : k \in Words
      BY <1>3 DEF Words
    <2> QED
      BY <1>1, <1>4, <1>5, <2>3, <2>4, StretchIs
  <1> QED
    BY <1>1, <1>3, <1>4, <1>6

\* The terms that start in a number.
LEMMA NumberTerms ==
  ASSUME TextInv, Cut, More, chars[i] = "digit", NEW e \in i .. End + 1,
         \A k \in i .. e - 1 : is_numeric(chars[k]), e = End + 1 \/ ~is_numeric(chars[e])
  PROVE  /\ e > i /\ (\A k \in i .. e - 1 : InNumber(k)) /\ e \notin Numbers
         /\ \A a \in i .. e - 1, b \in 1 .. End : IsTerm(a, b) <=> a = i /\ b = e - 1
  <1>0. End \in Nat /\ i \in 1 .. End /\ \A k \in 1 .. End : chars[k] \in Chars
    BY DEF TextInv, End, More
  <1>1. e > i
    <2>1. is_numeric(chars[i])
      BY <1>0, Classes
    <2>2. e # i
      BY <1>0, <2>1
    <2> QED
      BY <1>0, <2>2
  <1>2. ASSUME NEW k \in i .. e - 1 PROVE k \in 1 .. End /\ InNumber(k)
    <2>1. k \in 1 .. End /\ i \in 1 .. k /\ \A m \in i .. k : m \in i .. e - 1
      BY <1>0
    <2> QED
      BY <2>1 DEF InNumber
  <1>3. e \notin Numbers
    <2> SUFFICES ASSUME e \in 1 .. End, InNumber(e) PROVE FALSE
      BY DEF Numbers
    <2>1. is_numeric(chars[e])
      BY NumberIs
    <2> QED
      BY <1>0, <2>1
  <1>4. i - 1 \notin Numbers
    <2>1. InNumber(i)
      BY <1>0, <1>1, <1>2
    <2> QED
      BY <1>0, <2>1 DEF Cut, Numbers
  <1>5. ASSUME NEW a \in i .. e - 1, NEW b \in 1 .. End PROVE IsTerm(a, b) <=> a = i /\ b = e - 1
    <2>1. a \notin Words
      BY <1>2, WordsAreNoNumbers DEF Words
    <2>2. ~Apart(a)
      <3>1. is_numeric(chars[a])
        OBVIOUS
      <3> QED
        BY <1>0, <1>2, <3>1, Classes DEF Apart
    <2>3. a <= b => a \in a .. b
      BY <1>0
    <2>4. IsTerm(a, b) <=> a <= b /\ Stretch(Numbers, a, b)
      BY <2>1, <2>2, <2>3 DEF IsTerm, Stretch
    <2>5. \A k \in i .. e - 1 : k \in Numbers
      BY <1>2 DEF Numbers
    <2> QED
      BY <1>1, <1>3, <1>4, <2>4, <2>5, StretchIs
  <1> QED
    BY <1>1, <1>2, <1>3, <1>5

-----------------------------------------------------------------------------
(* Rounds                                                                  *)

\* What a round of the loop adds: the terms that start between i and upto.
Adds(added, upto) ==
    /\ upto \in i + 1 .. End + 1
    /\ added \in Seq([from : i .. upto - 1, to : 1 .. End, position : Int]) /\ Len(added) <= 2
    /\ chars' = chars /\ i' = upto
    /\ tokens' = tokens \o added /\ pos' = pos + Len(added)
    /\ \A k \in 1 .. Len(added) : added[k].position = pos + k - 1
    /\ \A j, k \in 1 .. Len(added) : j < k => added[j].from = added[k].from /\ added[j].to > added[k].to
    /\ \A a \in i .. upto - 1, b \in 1 .. End :
          IsTerm(a, b) <=> \E k \in 1 .. Len(added) : added[k].from = a /\ added[k].to = b

\* Such a round keeps the tokens exact.
LEMMA AddStep ==
  ASSUME CutInv, NEW added, NEW upto, Adds(added, upto), Cut'
  PROVE  CutInv'
  <1>0. /\ End \in Nat /\ End <= MaxLen /\ MaxLen \in Nat /\ i \in 1 .. End + 1 /\ tokens \in Seq(Tok)
        /\ pos = Len(tokens) /\ pos \in Nat /\ pos <= 2 * (i - 1)
    BY MaxLenAssumption DEF CutInv, TextInv, End
  <1> DEFINE E == [from : i .. upto - 1, to : 1 .. End, position : Int]
             n == Len(tokens)
             m == Len(added)
  <1>1. /\ upto \in i + 1 .. End + 1 /\ added \in Seq(E) /\ m <= 2 /\ chars' = chars /\ i' = upto
        /\ tokens' = tokens \o added /\ pos' = pos + m
        /\ \A k \in 1 .. m : added[k].position = pos + k - 1
        /\ \A j, k \in 1 .. m : j < k => added[j].from = added[k].from /\ added[j].to > added[k].to
        /\ \A a \in i .. upto - 1, b \in 1 .. End :
              IsTerm(a, b) <=> \E k \in 1 .. m : added[k].from = a /\ added[k].to = b
    BY DEF Adds
  <1>2. m \in Nat /\ \A k \in 1 .. m : added[k] \in E
    BY <1>1, LenProperties, ElementOfSeq
  <1>3. \A k \in 1 .. m : added[k].from \in i .. upto - 1 /\ added[k].to \in 1 .. End
    BY <1>2
  <1>4. \A k \in 1 .. m : added[k] \in Tok
    <2> SUFFICES ASSUME NEW k \in 1 .. m PROVE added[k] \in Tok
      OBVIOUS
    <2>1. added[k] \in E /\ added[k].position = pos + k - 1
      BY <1>1, <1>2
    <2>2. pos + k - 1 \in 0 .. 2 * MaxLen /\ i .. upto - 1 \subseteq 1 .. End
      <3>1. upto \in i + 1 .. End + 1 /\ m \in Nat /\ m <= 2
        BY <1>1, <1>2
      <3> HIDE DEF m
      <3>2. i \in 1 .. End /\ i <= MaxLen
        BY <1>0, <3>1
      <3>3. 2 * (i - 1) + 1 <= 2 * MaxLen
        BY <1>0, <3>2
      <3>4. k \in 1 .. 2
        BY <3>1
      <3>5. pos + k - 1 <= 2 * (i - 1) + 1
        BY <1>0, <3>2, <3>4
      <3>6. pos + k - 1 \in Nat
        BY <1>0, <3>4
      <3>7. pos + k - 1 \in 0 .. 2 * MaxLen
        BY <1>0, <3>2, <3>3, <3>5, <3>6
      <3> QED
        BY <1>0, <3>1, <3>2, <3>7
    <2>3. PICK f \in i .. upto - 1, tt \in 1 .. End, p \in Int : added[k] = [from |-> f, to |-> tt, position |-> p]
      BY <2>1
    <2>4. p = pos + k - 1
      BY <2>1, <2>3
    <2> QED
      BY <2>2, <2>3, <2>4 DEF Tok
  <1>5. added \in Seq(Tok)
    <2>1. added \in [1 .. m -> E]
      BY <1>1, LenProperties
    <2>2. added \in [1 .. m -> Tok]
      BY <1>4, <2>1
    <2> QED
      BY <1>2, <2>2, SeqDef
  <1>6. /\ tokens' \in Seq(Tok) /\ Len(tokens') = n + m /\ n \in Nat
        /\ \A k \in 1 .. n : tokens'[k] = tokens[k]
        /\ \A k \in 1 .. m : tokens'[n + k] = added[k]
        /\ DOMAIN tokens' = 1 .. n + m /\ DOMAIN tokens = 1 .. n
    <2>1. tokens' \in Seq(Tok) /\ Len(tokens') = n + m /\ n \in Nat
      BY <1>0, <1>1, <1>5, ConcatProperties, LenProperties
    <2>2. \A k \in 1 .. n + m : tokens'[k] = IF k <= n THEN tokens[k] ELSE added[k - n]
      BY <1>0, <1>1, <1>5, ConcatProperties
    <2>3. \A k \in 1 .. n : k \in 1 .. n + m /\ k <= n
      BY <1>2, <2>1
    <2>4. \A k \in 1 .. m : n + k \in 1 .. n + m /\ ~(n + k <= n) /\ (n + k) - n = k
      BY <1>2, <2>1
    <2>5. \A k \in 1 .. n : tokens'[k] = tokens[k]
      BY <2>2, <2>3
    <2>6. \A k \in 1 .. m : tokens'[n + k] = added[k]
      BY <2>2, <2>4
    <2> QED
      BY <1>0, <2>1, <2>5, <2>6, LenProperties
  <1> HIDE DEF E, n, m
  <1>7. End' = End /\ Tok' = Tok /\ \A a, b : IsTerm(a, b)' <=> IsTerm(a, b)
    BY <1>1, SameText
  <1>8. TextInv'
    <2>1. pos' = Len(tokens') /\ pos' <= 2 * (i' - 1) /\ i' \in 1 .. End + 1
      BY <1>0, <1>1, <1>2, <1>6 DEF n
    <2>2. chars' \in Seq(Chars) /\ Len(chars') <= MaxLen
      BY <1>1 DEF CutInv, TextInv
    <2> QED
      BY <1>6, <1>7, <2>1, <2>2 DEF TextInv
  <1>9. \A k \in 1 .. n : tokens[k].from \in 1 .. End /\ tokens[k].to \in 1 .. End /\ tokens[k].from < i /\ IsTerm(tokens[k].from, tokens[k].to)
    <2>1. \A k \in 1 .. n : tokens[k] \in Tok
      BY <1>0, <1>6
    <2> QED
      BY <1>6, <2>1 DEF CutInv, Sound, Tok
  <1>10. \A k \in 1 .. n + m : k \in 1 .. n \/ (k - n \in 1 .. m /\ k = n + (k - n))
    BY <1>2, <1>6
  <1>11. \A k \in 1 .. m : IsTerm(added[k].from, added[k].to)
    BY <1>1, <1>3
  <1>12. \A k \in 1 .. n + m : tokens'[k].from < upto /\ IsTerm(tokens'[k].from, tokens'[k].to)
    <2> SUFFICES ASSUME NEW k \in 1 .. n + m PROVE tokens'[k].from < upto /\ IsTerm(tokens'[k].from, tokens'[k].to)
      OBVIOUS
    <2>1. CASE k \in 1 .. n
      BY <1>0, <1>1, <1>6, <1>9, <2>1
    <2>2. ASSUME NEW j \in 1 .. m, k = n + j PROVE tokens'[k].from < upto /\ IsTerm(tokens'[k].from, tokens'[k].to)
      <3>1. tokens'[k] = added[j]
        BY <1>6, <2>2
      <3>2. added[j].from < upto
        <4>1. upto \in Int /\ added[j].from \in i .. upto - 1
          BY <1>0, <1>1, <1>3, SMTT(30)
        <4> QED
          BY <1>0, <4>1
      <3> QED
        BY <1>11, <3>1, <3>2
    <2> QED
      BY <1>10, <2>1, <2>2
  <1>13. Sound'
    <2> SUFFICES ASSUME NEW k \in DOMAIN tokens' PROVE tokens'[k].from < i' /\ IsTerm(tokens[k].from, tokens[k].to)'
      BY DEF Sound
    <2>1. \A a, b : a = tokens'[k].from /\ b = tokens'[k].to => (IsTerm(tokens[k].from, tokens[k].to)' <=> IsTerm(a, b)')
      BY DEF IsTerm, Stretch, Words, Numbers, Apart, InWord, InNumber, End
    <2> QED
      BY <1>1, <1>6, <1>7, <1>12, <2>1
  <1>14. Complete'
    <2> SUFFICES ASSUME NEW a \in 1 .. End, NEW b \in 1 .. End, a < upto, IsTerm(a, b)
                 PROVE  \E k \in 1 .. n + m : tokens'[k].from = a /\ tokens'[k].to = b
      <3>1. i' = upto /\ DOMAIN tokens' = 1 .. n + m
        BY <1>1, <1>6
      <3>2. \A a, b \in 1 .. End :
               a < upto /\ IsTerm(a, b) => \E k \in 1 .. n + m : tokens'[k].from = a /\ tokens'[k].to = b
        OBVIOUS
      <3>3. \A a, b \in 1 .. End' :
               a < i' /\ IsTerm(a, b)' => \E k \in DOMAIN tokens' : tokens'[k].from = a /\ tokens'[k].to = b
        BY <1>7, <3>1, <3>2
      <3> QED
        BY <3>3 DEF Complete
    <2>1. CASE a < i
      <3>1. PICK k \in 1 .. n : tokens[k].from = a /\ tokens[k].to = b
        BY <1>6, <2>1 DEF CutInv, Complete
      <3>2. k \in 1 .. n + m
        BY <1>2, <1>6
      <3> QED
        BY <1>6, <3>1, <3>2
    <2>2. CASE ~(a < i)
      <3>1. a \in i .. upto - 1
        BY <1>0, <1>1, <2>2
      <3>2. PICK k \in 1 .. m : added[k].from = a /\ added[k].to = b
        BY <1>1, <3>1
      <3>3. n + k \in 1 .. n + m
        BY <1>2, <1>6
      <3> QED
        BY <1>6, <3>2, <3>3
    <2> QED
      BY <2>1, <2>2
  <1>15. PositionsFollowText'
    <2>1. pos' = Len(tokens')
      BY <1>8 DEF TextInv
    <2>2. ASSUME NEW k \in 1 .. n + m PROVE tokens'[k].position = k - 1
      <3>1. CASE k \in 1 .. n
        BY <1>6, <3>1 DEF CutInv, PositionsFollowText
      <3>2. ASSUME NEW j \in 1 .. m, k = n + j PROVE tokens'[k].position = k - 1
        <4>1. tokens'[k] = added[j] /\ added[j].position = pos + j - 1
          BY <1>1, <1>6, <3>2
        <4>2. pos = n /\ n + j - 1 = k - 1
          BY <1>0, <1>6, <3>2 DEF n
        <4> QED
          BY <4>1, <4>2
      <3> QED
        BY <1>10, <3>1, <3>2
    <2>3. ASSUME NEW j \in 1 .. n + m, NEW k \in 1 .. n + m, j < k
          PROVE  \/ tokens'[j].from < tokens'[k].from
                 \/ tokens'[j].from = tokens'[k].from /\ tokens'[j].to > tokens'[k].to
      <3>1. CASE k \in 1 .. n
        <4>1. j \in 1 .. n
          BY <1>6, <2>3, <3>1
        <4> QED
          BY <1>6, <2>3, <3>1, <4>1 DEF CutInv, PositionsFollowText
      <3>2. ASSUME NEW kk \in 1 .. m, k = n + kk, j \in 1 .. n PROVE tokens'[j].from < tokens'[k].from
        <4>1. tokens'[k] = added[kk] /\ tokens'[j] = tokens[j]
          BY <1>6, <3>2
        <4>2. tokens[j].from < i /\ tokens[j].from \in Int /\ added[kk].from \in i .. upto - 1
          BY <1>3, <1>9, <3>2
        <4>3. upto \in Int
          BY <1>0, <1>1
        <4>4. tokens[j].from < added[kk].from
          BY <1>0, <4>2, <4>3, SMTT(30)
        <4> QED
          BY <4>1, <4>4
      <3>3. ASSUME NEW kk \in 1 .. m, k = n + kk, NEW jj \in 1 .. m, j = n + jj
            PROVE  tokens'[j].from = tokens'[k].from /\ tokens'[j].to > tokens'[k].to
        <4>1. tokens'[k] = added[kk] /\ tokens'[j] = added[jj]
          BY <1>6, <3>3
        <4>2. jj < kk
          BY <1>6, <2>3, <3>3
        <4>3. added[jj].from = added[kk].from /\ added[jj].to > added[kk].to
          BY <1>1, <4>2
        <4> QED
          BY <4>1, <4>3
      <3> QED
        BY <1>10, <3>1, <3>2, <3>3
    <2> QED
      BY <1>6, <2>1, <2>2, <2>3 DEF PositionsFollowText
  <1> QED
    BY <1>8, <1>13, <1>14, <1>15 DEF CutInv

\* Every round of the loop is one of these.
LEMMA RoundStep == ASSUME CutInv, [Round]_locals PROVE CutInv'
  <1>0. /\ End \in Nat /\ i \in 1 .. End + 1 /\ pos \in Nat /\ TextInv /\ Cut /\ \A k \in 1 .. End : chars[k] \in Chars
        /\ tokens \in Seq(Tok)
    BY DEF CutInv, TextInv, End
  <1>1. CASE Bigram
    <2> DEFINE two == i + 1 <= End /\ is_cjk(chars[i + 1])
    <2>1. /\ More /\ is_cjk(chars[i]) /\ i' = i + 1 /\ chars' = chars /\ i \in 1 .. End
          /\ tokens' = tokens \o (IF two THEN <<Token(i, i + 1, pos)>> ELSE <<>>) \o <<Token(i, i, IF two THEN pos + 1 ELSE pos)>>
          /\ pos' = IF two THEN pos + 2 ELSE pos + 1
      BY <1>0, <1>1 DEF Bigram, More
    <2>2. /\ ~InWord(i) /\ ~InNumber(i)
          /\ \A b \in 1 .. End : IsTerm(i, b) <=> b = i \/ (b = i + 1 /\ is_cjk(chars[i + 1]))
      BY <1>0, <2>1, CjkIsApart, BigramTerms
    <2>3. Cut'
      <3> SUFFICES ASSUME NEW n \in 1 .. End, n = i + 1
                   PROVE  ~InWord(n - 1) /\ ~InNumber(n - 1)
        BY <2>1, SameText DEF Cut
      <3>1. n - 1 = i
        BY <1>0
      <3> QED
        BY <2>2, <3>1
    <2> DEFINE E == [from : i .. (i + 1) - 1, to : 1 .. End, position : Int]
    <2>4. i \in i .. (i + 1) - 1 /\ \A a \in i .. (i + 1) - 1 : a = i
      BY <1>0
    <2>5. CASE two
      <3> DEFINE x == Token(i, i + 1, pos)
                 y == Token(i, i, pos + 1)
                 added == <<x, y>>
      <3>1. /\ x \in E /\ x.from = i /\ x.to = i + 1 /\ x.position = pos
            /\ y \in E /\ y.from = i /\ y.to = i /\ y.position = pos + 1
        BY <1>0, <2>1, <2>4, <2>5 DEF Token
      <3> HIDE DEF x, y, E
      <3>2. added \in Seq(E) /\ Len(added) = 2 /\ added[1] = x /\ added[2] = y /\ \A k \in 1 .. 2 : k = 1 \/ k = 2
        BY <3>1
      <3>3. tokens' = tokens \o added
        <4>1. tokens' = (tokens \o <<x>>) \o <<y>>
          BY <2>1, <2>5 DEF x, y
        <4>2. x \in Tok /\ y \in Tok
          <5>1. pos \in 0 .. 2 * MaxLen /\ pos + 1 \in 0 .. 2 * MaxLen /\ i \in 1 .. End /\ i + 1 \in 1 .. End
            BY <1>0, <2>1, <2>5, MaxLenAssumption DEF TextInv, End
          <5> QED
            BY <5>1 DEF Tok, Token, x, y
        <4>3. (tokens \o <<x>>) \o <<y>> = tokens \o (<<x>> \o <<y>>)
          BY <1>0, <4>2, ConcatAssociative
        <4>4. <<x>> \o <<y>> = <<x, y>>
          <5>1. <<x>> \in Seq(Tok) /\ y \in Tok
            BY <4>2
          <5>2. <<x>> \o <<y>> = Append(<<x>>, y)
            BY <5>1, AppendIsConcat
          <5>3. Append(<<x>>, y) = <<x, y>>
            <6> DEFINE s == Append(<<x>>, y)
                       u == <<x, y>>
            <6>1. s \in Seq(Tok) /\ Len(s) = 2 /\ s[1] = x /\ s[2] = y
              BY <5>1, AppendProperties
            <6>2. u \in Seq(Tok) /\ Len(u) = 2 /\ u[1] = x /\ u[2] = y
              BY <4>2
            <6> HIDE DEF s, u
            <6>3. \A k \in 1 .. 2 : s[k] = u[k]
              BY <3>2, <6>1, <6>2
            <6>4. s = u
              BY <6>1, <6>2, <6>3, SeqEqual
            <6> QED
              BY <6>4 DEF s, u
          <5> QED
            BY <5>2, <5>3
        <4> QED
          BY <4>1, <4>3, <4>4
      <3>4. \A k \in 1 .. 2 : added[k].position = pos + k - 1
        <4>1. added[1].position = pos + 1 - 1 /\ added[2].position = pos + 2 - 1
          BY <1>0, <3>1, <3>2
        <4> QED
          BY <3>2, <4>1
      <3>5. \A j, k \in 1 .. 2 : j < k => added[j].from = added[k].from /\ added[j].to > added[k].to
        <4>1. added[1].from = added[2].from /\ added[1].to > added[2].to
          BY <1>0, <3>1, <3>2
        <4>2. \A j, k \in 1 .. 2 : j < k => j = 1 /\ k = 2
          OBVIOUS
        <4> HIDE DEF added
        <4> QED
          BY <4>1, <4>2
      <3>6. \A a \in i .. (i + 1) - 1, b \in 1 .. End :
               IsTerm(a, b) <=> \E k \in 1 .. 2 : added[k].from = a /\ added[k].to = b
        <4> SUFFICES ASSUME NEW b \in 1 .. End
                     PROVE  IsTerm(i, b) <=> \E k \in 1 .. 2 : added[k].from = i /\ added[k].to = b
          BY <2>4
        <4>1. IsTerm(i, b) <=> b = i \/ b = i + 1
          BY <2>2, <2>5
        <4>2. (\E k \in 1 .. 2 : added[k].from = i /\ added[k].to = b) <=> b = i \/ b = i + 1
          <5>1. added[1].from = i /\ added[1].to = i + 1 /\ added[2].from = i /\ added[2].to = i
            BY <3>1, <3>2
          <5>2. 1 \in 1 .. 2 /\ 2 \in 1 .. 2
            OBVIOUS
          <5> HIDE DEF added
          <5> QED
            BY <3>2, <5>1, <5>2
        <4> QED
          BY <4>1, <4>2
      <3>7. i + 1 \in i + 1 .. End + 1 /\ pos' = pos + 2
        BY <1>0, <2>1, <2>5
      <3> HIDE DEF added
      <3>8. Adds(added, i + 1)
        <4>1. Len(added) = 2 /\ 2 <= 2 /\ chars' = chars /\ i' = i + 1
          BY <2>1, <3>2
        <4>2. added \in Seq([from : i .. (i + 1) - 1, to : 1 .. End, position : Int])
          BY <3>2 DEF E
        <4> QED
          BY <3>3, <3>4, <3>5, <3>6, <3>7, <4>1, <4>2 DEF Adds
      <3> QED
        BY <2>3, <3>8, AddStep
    <2>6. CASE ~two
      <3> DEFINE y == Token(i, i, pos)
                 added == <<y>>
      <3>1. y \in E /\ y.from = i /\ y.to = i /\ y.position = pos
        BY <1>0, <2>1, <2>4 DEF Token
      <3> HIDE DEF y, E
      <3>2. added \in Seq(E) /\ Len(added) = 1 /\ added[1] = y /\ \A k \in 1 .. 1 : k = 1
        BY <3>1
      <3>3. tokens' = tokens \o added
        <4>1. tokens' = (tokens \o <<>>) \o <<y>>
          BY <2>1, <2>6 DEF y
        <4>2. tokens \o <<>> = tokens
          BY <1>0, ConcatEmptySeq
        <4> QED
          BY <4>1, <4>2
      <3>4. added[1].position = pos + 1 - 1
        BY <1>0, <3>1, <3>2
      <3>5. \A a \in i .. (i + 1) - 1, b \in 1 .. End :
               IsTerm(a, b) <=> \E k \in 1 .. 1 : added[k].from = a /\ added[k].to = b
        <4> SUFFICES ASSUME NEW b \in 1 .. End
                     PROVE  IsTerm(i, b) <=> \E k \in 1 .. 1 : added[k].from = i /\ added[k].to = b
          BY <2>4
        <4>1. IsTerm(i, b) <=> b = i
          BY <1>0, <2>2, <2>6
        <4>2. added[1].from = i /\ added[1].to = i /\ 1 \in 1 .. 1
          BY <3>1, <3>2
        <4> HIDE DEF added
        <4> QED
          BY <3>2, <4>1, <4>2
      <3>6. i + 1 \in i + 1 .. End + 1 /\ pos' = pos + 1
        BY <1>0, <2>1, <2>6
      <3>7. \A j, k \in 1 .. 1 : ~(j < k)
        OBVIOUS
      <3> HIDE DEF added
      <3>8. Adds(added, i + 1)
        <4>1. Len(added) = 1 /\ 1 <= 2 /\ chars' = chars /\ i' = i + 1
          BY <2>1, <3>2
        <4>2. added \in Seq([from : i .. (i + 1) - 1, to : 1 .. End, position : Int])
          BY <3>2 DEF E
        <4>3. \A k \in 1 .. 1 : added[k].position = pos + k - 1
          BY <3>2, <3>4
        <4> QED
          BY <3>3, <3>5, <3>6, <3>7, <4>1, <4>2, <4>3 DEF Adds
      <3> QED
        BY <2>3, <3>8, AddStep
    <2> QED
      BY <2>5, <2>6
  \* A word and a number add one token, up to the end of the run.
  <1>2. ASSUME NEW e \in i .. End + 1, e > i, chars' = chars, i' = e, pos' = pos + 1,
               tokens' = Append(tokens, Token(i, e - 1, pos)), Cut',
               \A a \in i .. e - 1, b \in 1 .. End : IsTerm(a, b) <=> a = i /\ b = e - 1
        PROVE  CutInv'
    <2> DEFINE y == Token(i, e - 1, pos)
               added == <<y>>
               E == [from : i .. e - 1, to : 1 .. End, position : Int]
    <2>1. y \in E /\ y.from = i /\ y.to = e - 1 /\ y.position = pos
      <3>1. i \in i .. e - 1 /\ e - 1 \in 1 .. End
        BY <1>0, <1>2
      <3> QED
        BY <1>0, <3>1 DEF Token
    <2>2. tokens' = Append(tokens, y)
      BY <1>2
    <2> HIDE DEF y, E
    <2>3. added \in Seq(E) /\ Len(added) = 1 /\ added[1] = y /\ \A k \in 1 .. 1 : k = 1
      BY <2>1
    <2>4. tokens' = tokens \o added
      BY <1>0, <2>2
    <2>5. added[1].position = pos + 1 - 1
      BY <1>0, <2>1, <2>3
    <2>6. \A a \in i .. e - 1, b \in 1 .. End :
             IsTerm(a, b) <=> \E k \in 1 .. 1 : added[k].from = a /\ added[k].to = b
      <3>1. added[1].from = i /\ added[1].to = e - 1 /\ 1 \in 1 .. 1
        BY <2>1, <2>3
      <3> HIDE DEF added
      <3> QED
        BY <1>2, <2>3, <3>1
    <2>7. e \in i + 1 .. End + 1 /\ \A j, k \in 1 .. 1 : ~(j < k)
      BY <1>0, <1>2
    <2> HIDE DEF added
    <2>8. Adds(added, e)
      BY <1>2, <2>3, <2>4, <2>5, <2>6, <2>7 DEF Adds, E
    <2> QED
      BY <1>2, <2>8, AddStep
  <1>3. CASE Word
    <2> DEFINE e == EndOfRun(is_alphabetic)
    <2>1. /\ More /\ ~is_cjk(chars[i]) /\ is_alphabetic(chars[i]) /\ chars' = chars /\ i' = e /\ pos' = pos + 1
          /\ tokens' = Append(tokens, Token(i, e - 1, pos))
      BY <1>3 DEF Word, Run
    <2>2. e \in i .. End + 1 /\ (\A k \in i .. e - 1 : is_alphabetic(chars[k])) /\ (e = End + 1 \/ ~is_alphabetic(chars[e]))
      BY <1>0, EndOfRunIs
    <2> HIDE DEF e
    <2>3. i \in 1 .. End /\ chars[i] \in {"latin", "letternumber"}
      <3>1. i \in 1 .. End
        BY <1>0, <2>1 DEF More
      <3> QED
        BY <1>0, <2>1, <3>1, Classes
    <2>4. /\ e > i /\ (\A k \in i .. e - 1 : InWord(k)) /\ e \notin Words
          /\ \A a \in i .. e - 1, b \in 1 .. End : IsTerm(a, b) <=> a = i /\ b = e - 1
      BY <1>0, <2>1, <2>2, <2>3, WordTerms
    <2>5. Cut'
      <3> SUFFICES ASSUME NEW n \in 1 .. End, n = e PROVE ~InWord(n) /\ ~InNumber(n - 1)
        BY <2>1, SameText DEF Cut
      <3>1. n - 1 \in i .. e - 1 /\ n - 1 \in 1 .. End
        BY <1>0, <2>4
      <3> QED
        BY <1>0, <2>4, <3>1, WordsAreNoNumbers DEF Words
    <2> QED
      BY <1>2, <2>1, <2>2, <2>4, <2>5
  <1>4. CASE Number
    <2> DEFINE e == EndOfRun(is_numeric)
    <2>1. /\ More /\ is_numeric(chars[i]) /\ ~is_alphabetic(chars[i]) /\ chars' = chars /\ i' = e /\ pos' = pos + 1
          /\ tokens' = Append(tokens, Token(i, e - 1, pos))
      BY <1>4 DEF Number, Run
    <2>2. e \in i .. End + 1 /\ (\A k \in i .. e - 1 : is_numeric(chars[k])) /\ (e = End + 1 \/ ~is_numeric(chars[e]))
      BY <1>0, EndOfRunIs
    <2> HIDE DEF e
    <2>3. chars[i] = "digit"
      <3>1. i \in 1 .. End
        BY <1>0, <2>1 DEF More
      <3> QED
        BY <1>0, <2>1, <3>1, Classes
    <2>4. /\ e > i /\ (\A k \in i .. e - 1 : InNumber(k)) /\ e \notin Numbers
          /\ \A a \in i .. e - 1, b \in 1 .. End : IsTerm(a, b) <=> a = i /\ b = e - 1
      BY <1>0, <2>1, <2>2, <2>3, NumberTerms
    <2>5. Cut'
      <3> SUFFICES ASSUME NEW n \in 1 .. End, n = e PROVE ~InWord(n - 1) /\ ~InNumber(n)
        BY <2>1, SameText DEF Cut
      <3>1. n - 1 \in i .. e - 1 /\ n - 1 \in 1 .. End
        BY <1>0, <2>4
      <3> QED
        BY <1>0, <2>4, <3>1, WordsAreNoNumbers DEF Numbers
    <2> QED
      BY <1>2, <2>1, <2>2, <2>4, <2>5
  <1>5. CASE Skip
    <2>1. /\ More /\ ~is_cjk(chars[i]) /\ ~is_alphabetic(chars[i]) /\ ~is_numeric(chars[i])
          /\ i' = i + 1 /\ chars' = chars /\ pos' = pos /\ tokens' = tokens /\ i \in 1 .. End
      BY <1>0, <1>5 DEF Skip, More
    <2>2. ~InWord(i) /\ ~InNumber(i)
      BY <1>0, <2>1, NumberIs, WordIs
    <2>3. \A b \in 1 .. End : ~IsTerm(i, b)
      <3> SUFFICES ASSUME NEW b \in 1 .. End, i <= b
                   PROVE  ~Apart(i) /\ ~Stretch(Words, i, b) /\ ~Stretch(Numbers, i, b)
        BY DEF IsTerm
      <3>1. i \in i .. b
        BY <1>0
      <3> QED
        BY <2>1, <2>2, <3>1 DEF Apart, Stretch, Words, Numbers
    <2>4. Cut'
      <3> SUFFICES ASSUME NEW n \in 1 .. End, n = i + 1 PROVE ~InWord(n - 1) /\ ~InNumber(n - 1)
        BY <2>1, SameText DEF Cut
      <3>1. n - 1 = i
        BY <1>0
      <3> QED
        BY <2>2, <3>1
    <2> DEFINE added == <<>>
    <2>5. /\ added \in Seq([from : i .. (i + 1) - 1, to : 1 .. End, position : Int]) /\ Len(added) = 0
          /\ tokens' = tokens \o added /\ pos' = pos + 0 /\ 1 .. 0 = {}
      BY <1>0, <2>1
    <2>6. i + 1 \in i + 1 .. End + 1 /\ \A a \in i .. (i + 1) - 1 : a = i
      BY <1>0, <2>1
    <2> HIDE DEF added
    <2>7. Adds(added, i + 1)
      BY <2>1, <2>3, <2>5, <2>6 DEF Adds
    <2> QED
      BY <2>4, <2>7, AddStep
  <1>6. CASE UNCHANGED locals
    <2>1. chars' = chars /\ i' = i /\ pos' = pos /\ tokens' = tokens
      BY <1>6 DEF locals
    <2>2. End' = End /\ Tok' = Tok
      BY <2>1, SameText
    <2>3. TextInv' /\ PositionsFollowText'
      BY <2>1, <2>2 DEF CutInv, TextInv, PositionsFollowText
    <2>4. \A k : (InNumber(k)' <=> InNumber(k)) /\ (InWord(k)' <=> InWord(k))
      BY <2>1, SameText
    <2>5. Cut'
      BY <2>1, <2>2, <2>4 DEF CutInv, Cut
    <2>6. \A a, b : IsTerm(a, b)' <=> IsTerm(a, b)
      BY <2>1, SameText
    <2>7. Complete'
      BY <2>1, <2>2, <2>6 DEF CutInv, Complete
    <2>8. Sound'
      BY <2>1, <2>6 DEF CutInv, Sound
    <2> QED
      BY <2>3, <2>5, <2>7, <2>8 DEF CutInv
  <1> QED
    BY <1>1, <1>3, <1>4, <1>5, <1>6 DEF Round

\* The loop starts before the text, with no tokens.
LEMMA StartInv == Start => CutInv
  <1> SUFFICES ASSUME Start PROVE CutInv
    OBVIOUS
  <1>1. chars \in Seq(Chars) /\ Len(chars) <= MaxLen /\ Len(chars) \in Nat
    BY MaxLenAssumption DEF Start, BoundedSeq, SeqOf
  <1>2. i = 1 /\ pos = 0 /\ tokens = <<>> /\ DOMAIN tokens = {}
    BY DEF Start
  <1>3. TextInv
    BY <1>1, <1>2 DEF TextInv, End
  <1>4. Sound /\ Complete /\ PositionsFollowText /\ Cut
    BY <1>2 DEF Sound, Complete, PositionsFollowText, Cut
  <1> QED
    BY <1>3, <1>4 DEF CutInv

\* tokenize cuts a text of any length into exactly its terms, each once and in
\* the order of the text, and numbers them without gaps.
THEOREM TextIsCutExactly == Tokenize => []TokensAreExact
  <1>1. CutInv => TokensAreExact
    <2> SUFFICES ASSUME CutInv PROVE TokensAreExact
      OBVIOUS
    <2>0. /\ End \in Nat /\ End <= MaxLen /\ MaxLen \in Nat /\ i \in 1 .. End + 1 /\ tokens \in Seq(Tok)
          /\ pos = Len(tokens) /\ pos \in Nat /\ pos <= 2 * (i - 1) /\ chars \in Seq(Chars)
      BY MaxLenAssumption DEF CutInv, TextInv, End
    <2>1. \A k \in DOMAIN tokens : tokens[k] \in Tok /\ tokens[k].from \in 1 .. End /\ tokens[k].to \in 1 .. End
      <3>1. \A k \in DOMAIN tokens : tokens[k] \in Tok
        BY <2>0
      <3> QED
        BY <3>1 DEF Tok
    <2>2. TokensTyped
      <3>1. pos \in 0 .. 2 * MaxLen
        BY <2>0
      <3>2. chars \in BoundedSeq(Chars, MaxLen)
        <4>1. chars \in [1 .. End -> Chars] /\ End \in 0 .. MaxLen
          BY <2>0, LenProperties DEF End
        <4> QED
          BY <4>1 DEF BoundedSeq, SeqOf
      <3>3. Range(tokens) \subseteq {Token(a, b, p) : a, b \in 1 .. End, p \in 0 .. 2 * MaxLen}
        <4> SUFFICES ASSUME NEW k \in DOMAIN tokens
                     PROVE  \E a, b \in 1 .. End, p \in 0 .. 2 * MaxLen : tokens[k] = Token(a, b, p)
          BY DEF Range
        <4>1. tokens[k] \in [from : 1 .. End, to : 1 .. End, position : 0 .. 2 * MaxLen]
          BY <2>1 DEF Tok
        <4> QED
          BY <4>1 DEF Token
      <3> QED
        BY <2>0, <3>1, <3>2, <3>3 DEF TokensTyped
    <2>3. TermsAreExact
      <3> DEFINE L == {<<tokens[k].from, tokens[k].to>> : k \in DOMAIN tokens}
                 R == {t \in Terms : t[1] < i}
      <3>1. ASSUME NEW k \in DOMAIN tokens PROVE <<tokens[k].from, tokens[k].to>> \in R
        <4> DEFINE a == tokens[k].from
                   b == tokens[k].to
        <4>1. a \in 1 .. End /\ b \in 1 .. End /\ a < i /\ IsTerm(a, b)
          BY <2>1 DEF CutInv, Sound
        <4> HIDE DEF a, b
        <4>2. <<a, b>> \in (1 .. End) \X (1 .. End) /\ <<a, b>>[1] = a /\ <<a, b>>[2] = b
          BY <4>1
        <4>3. <<a, b>> \in R
          BY <4>1, <4>2 DEF Terms
        <4> QED
          BY <4>3 DEF a, b
      <3>2. ASSUME NEW t \in R PROVE t \in L
        <4>1. PICK a \in 1 .. End, b \in 1 .. End : t = <<a, b>>
          BY <3>2 DEF Terms
        <4>2. a < i /\ IsTerm(a, b)
          BY <3>2, <4>1 DEF Terms
        <4>3. PICK k \in DOMAIN tokens : tokens[k].from = a /\ tokens[k].to = b
          BY <4>2 DEF CutInv, Complete
        <4> QED
          BY <4>1, <4>3
      <3>3. L = R
        BY <3>1, <3>2
      <3> QED
        BY <3>3 DEF TermsAreExact
    <2> QED
      BY <2>2, <2>3 DEF TokensAreExact, CutInv
  <1> QED
    BY <1>1, StartInv, RoundStep, PTL DEF Tokenize

\* Every round moves on in a text that stays as it is, and not beyond its end:
\* a text of n characters takes at most n rounds.  (What Returns needs besides
\* fairness.)
MovesOn == [][i < i' /\ i' <= End + 1 /\ chars' = chars]_locals

\* A round, of whichever kind, moves on.
LEMMA MoveStep == ASSUME TextInv, Round PROVE i < i' /\ i' <= End + 1 /\ chars' = chars
  <1>1. End \in Nat /\ i \in 1 .. End + 1
    BY DEF TextInv, End
  <1>2. More /\ i <= End
    BY DEF Round, Bigram, Word, Number, Skip, More
  <1>3. CASE Bigram \/ Skip
    <2>1. i' = i + 1 /\ chars' = chars
      BY <1>3 DEF Bigram, Skip
    <2> QED
      BY <1>1, <1>2, <2>1
  \* A run that starts with a character of its kind does not end there.
  <1>4. ASSUME NEW e \in i .. End + 1, e # i, i' = e, chars' = chars PROVE i < i' /\ i' <= End + 1 /\ chars' = chars
    BY <1>1, <1>4
  <1>5. CASE Word
    <2> DEFINE e == EndOfRun(is_alphabetic)
    <2>1. is_alphabetic(chars[i]) /\ i' = e /\ chars' = chars
      BY <1>5 DEF Word, Run
    <2>2. e \in i .. End + 1 /\ (e = End + 1 \/ ~is_alphabetic(chars[e]))
      BY EndOfRunIs
    <2> HIDE DEF e
    <2>3. e # i
      BY <1>1, <1>2, <2>1, <2>2
    <2> QED
      BY <1>4, <2>1, <2>2, <2>3
  <1>6. CASE Number
    <2> DEFINE e == EndOfRun(is_numeric)
    <2>1. is_numeric(chars[i]) /\ i' = e /\ chars' = chars
      BY <1>6 DEF Number, Run
    <2>2. e \in i .. End + 1 /\ (e = End + 1 \/ ~is_numeric(chars[e]))
      BY EndOfRunIs
    <2> HIDE DEF e
    <2>3. e # i
      BY <1>1, <1>2, <2>1, <2>2
    <2> QED
      BY <1>4, <2>1, <2>2, <2>3
  <1> QED
    BY <1>3, <1>5, <1>6 DEF Round

\* tokenize comes closer to the end of the text in every round.
THEOREM RoundsMoveOn == Tokenize => MovesOn
  <1>1. CutInv /\ [Round]_locals => [i < i' /\ i' <= End + 1 /\ chars' = chars]_locals
    BY MoveStep DEF CutInv
  <1> QED
    BY <1>1, StartInv, RoundStep, PTL DEF Tokenize, MovesOn

=============================================================================
