------------------------------ MODULE LogFiles ------------------------------
(***************************************************************************)
(* A log file, byte by byte, under each of the three loggers: StoreLog     *)
(* (src/storage/store_log.rs), WalWriter (src/wal/mod.rs) and the thread   *)
(* behind a store (flush_and_sync in src/storage/wal_thread.rs, whose      *)
(* channel is in WalThread).                                               *)
(*                                                                         *)
(* All of them encode records into a buffer and, when it is full or old    *)
(* enough, push it through a BufWriter and fsync.  They differ in what     *)
(* they do with the buffer afterwards, in what an error does, in what a    *)
(* drop does and in whether a file is replayed before it is appended to.   *)
(***************************************************************************)
EXTENDS Frames, FiniteSets

CONSTANTS
    batch_size,   \* bytes that make the buffer full
    MaxWrites,    \* bound on the records
    MaxFile,      \* bound on the file that sync_now still adds to, in bytes
    MaxOpens,     \* bound on the openings
    MaxFaults     \* bound on the disk errors

ASSUME BoundsAssumption ==
    /\ batch_size \in Nat \ {0} /\ MaxWrites \in 0 .. 255
    /\ MaxFile \in Nat /\ MaxOpens \in Nat /\ MaxFaults \in Nat

VARIABLES
    kind,      \* which logger it is
    file,      \* bytes of the file, the page cache included
    synced,    \* length of the prefix that was fsynced
    buffer,    \* the logger's buffer
    writer,    \* bytes in the BufWriter; left there only by an error
    mode,      \* closed, refused, opening, up, or in a write or an fsync
    clear,     \* the call under way clears the buffer when it is done
    \* what follows is history, not program state
    sent,      \* writes so far
    base,      \* writes before the file was opened
    inbuf,     \* those in buffer
    acked,     \* those a sync has vouched for
    gone,      \* those dropped with the buffer of a failed batch
    clean,     \* no file was opened, and no batch given up, with a torn record
    crashed, opens, faults

disk == <<file, synced>>
memory == <<buffer, writer, clear, inbuf>>
ghosts == <<base, acked, gone, clean, crashed, opens, faults>>
vars == <<kind, disk, memory, mode, sent, ghosts>>

Torn(b) == replay(kind, b).tail # 0

-----------------------------------------------------------------------------
(* Opening                                                                 *)

\* A store replays its file first and is not opened when that fails; the
\* other two leave the replay to their caller.
Refuses == kind = "wal_thread" /\ Len(file) > 4 /\ ~replay(kind, file).ok

\* An empty file gets its magic, ...
Open ==
    /\ mode = "closed" /\ opens < MaxOpens
    /\ opens' = opens + 1
    /\ mode' = CASE Refuses -> "refused"
                 [] ~Refuses /\ file = <<>> /\ Header(kind) # <<>> -> "opening"
                 [] OTHER -> "up"
    /\ file' = IF file = <<>> THEN Header(kind) ELSE file
    /\ base' = sent
    /\ clean' = (clean /\ ~Torn(file))
    /\ UNCHANGED <<kind, synced, memory, sent, acked, gone, crashed, faults>>

\* ... which is synced before anything else.
OpenSync ==
    /\ mode = "opening"
    /\ mode' = "up"
    /\ synced' = Len(file)
    /\ UNCHANGED <<kind, file, memory, sent, ghosts>>

-----------------------------------------------------------------------------
(* Calls                                                                   *)

\* append_insert and append_delete, and their like: into the buffer, ...
append(r) ==
    /\ buffer' = buffer \o encode(kind, r)
    /\ inbuf' = inbuf \cup {r.w}

\* ... and on to the file when the buffer is full or the time has come.
maybe_sync ==
    /\ \E timed_out \in BOOLEAN :
          mode' = IF Len(buffer') >= batch_size \/ timed_out THEN "write" ELSE "up"
    /\ clear' = TRUE

\* A call of StoreLog, write() of WalWriter, or an iteration of wal_loop.
write(op) ==
    /\ mode = "up" /\ sent < MaxWrites
    /\ sent' = sent + 1
    /\ append([op |-> op, w |-> sent + 1])
    /\ maybe_sync
    /\ UNCHANGED <<kind, disk, writer, ghosts>>

\* StoreLog::sync_now (and flush): the buffer is written and not cleared.
sync_now ==
    /\ mode = "up" /\ kind = "store_log" /\ Len(file) < MaxFile
    /\ mode' = "write"
    /\ clear' = FALSE
    /\ UNCHANGED <<kind, disk, buffer, writer, inbuf, sent, ghosts>>

\* WalWriter::flush; flush_and_sync, that returns at once on an empty buffer.
flush ==
    /\ mode = "up"
    /\ kind = "wal_writer" \/ (kind = "wal_thread" /\ buffer # <<>>)
    /\ mode' = "write"
    /\ clear' = TRUE
    /\ UNCHANGED <<kind, disk, buffer, writer, inbuf, sent, ghosts>>

\* Mutant: the BufWriter is not flushed.
WriteOutUnflushed ==
    /\ mode = "write"
    /\ mode' = "sync"
    /\ file' = file \o writer
    /\ writer' = buffer
    /\ UNCHANGED <<kind, synced, buffer, clear, inbuf, sent, ghosts>>

\* Mutant: the batch overtakes what is left in the BufWriter.
WriteOutOvertakes ==
    /\ mode = "write"
    /\ mode' = "sync"
    /\ file' = file \o buffer \o writer
    /\ writer' = <<>>
    /\ UNCHANGED <<kind, synced, buffer, clear, inbuf, sent, ghosts>>

\* write_all and flush of the BufWriter: what an earlier error left in it
\* goes first.
WriteOut ==
    /\ mode = "write"
    /\ mode' = "sync"
    /\ file' = file \o writer \o buffer
    /\ writer' = <<>>
    /\ UNCHANGED <<kind, synced, buffer, clear, inbuf, sent, ghosts>>

\* An error of either: the call returns it and keeps the buffer; the WAL
\* thread prints it, goes on (to the fsync) and clears the buffer.
Fail(lost) ==
    /\ faults < MaxFaults
    /\ faults' = faults + 1
    /\ mode' = IF kind = "wal_thread" /\ mode = "write" THEN "sync" ELSE "up"
    /\ IF kind = "wal_thread"
       THEN buffer' = <<>> /\ inbuf' = {} /\ gone' = gone \cup lost
       ELSE UNCHANGED <<buffer, inbuf, gone>>
    /\ UNCHANGED <<kind, synced, clear, sent, base, acked, crashed, opens>>

\* The first j bytes got to the file.  Those the BufWriter had copied stay
\* in it; a buffer that it passed through is not kept.
WriteFails ==
    /\ mode = "write"
    /\ \E j \in 0 .. Len(writer \o buffer), copied \in BOOLEAN :
          LET all == writer \o buffer
              kept == IF copied THEN all ELSE writer
          IN  /\ file' = file \o SubSeq(all, 1, j)
              /\ writer' = SubSeq(kept, j + 1, Len(kept))
              /\ clean' = (clean /\ ~Torn(file' \o writer'))
              /\ Fail(IF copied THEN {} ELSE inbuf)

SyncFails ==
    /\ mode = "sync"
    /\ Fail({})
    /\ UNCHANGED <<file, writer, clean>>

\* sync_all, buffer.clear() (except in sync_now), return.
SyncAll ==
    /\ mode = "sync"
    /\ mode' = "up"
    /\ synced' = Len(file)
    /\ acked' = acked \cup inbuf
    /\ IF clear THEN buffer' = <<>> /\ inbuf' = {} ELSE UNCHANGED <<buffer, inbuf>>
    /\ UNCHANGED <<kind, file, writer, clear, sent, base, gone, clean, crashed, opens, faults>>

Forget ==
    /\ mode' = "closed"
    /\ buffer' = <<>> /\ writer' = <<>> /\ inbuf' = {}

\* The value is dropped.  A BufWriter writes what it holds; StoreLog and
\* WalWriter have no Drop and lose their buffer, wal_loop leaves with an
\* empty one.
Close ==
    /\ mode = "up"
    /\ kind = "wal_thread" => buffer = <<>>
    /\ file' = file \o writer
    /\ Forget
    /\ UNCHANGED <<kind, synced, clear, sent, ghosts>>

\* The process or the machine dies: any number of the bytes that were not
\* synced is lost, from the end.
Crash ==
    /\ mode \in {"opening", "up", "write", "sync"}
    /\ \E n \in synced .. Len(file) : file' = SubSeq(file, 1, n)
    /\ Forget
    /\ crashed' = TRUE
    /\ UNCHANGED <<kind, synced, clear, sent, base, acked, gone, clean, opens, faults>>

-----------------------------------------------------------------------------
Init ==
    /\ kind \in Kinds
    /\ file = <<>> /\ synced = 0
    /\ buffer = <<>> /\ writer = <<>> /\ clear = TRUE /\ inbuf = {}
    /\ mode = "closed"
    /\ sent = 0 /\ base = 0 /\ acked = {} /\ gone = {} /\ clean = TRUE
    /\ crashed = FALSE /\ opens = 0 /\ faults = 0

Next ==
    \/ Open \/ OpenSync
    \/ (\E op \in Ops : write(op)) \/ sync_now \/ flush
    \/ WriteOut \/ WriteFails \/ SyncAll \/ SyncFails
    \/ Close \/ Crash

Spec == Init /\ [][Next]_vars

-----------------------------------------------------------------------------
Writes == 1 .. MaxWrites

\* Types; between calls the BufWriter is empty unless the disk has failed.
TypeOK ==
    /\ kind \in Kinds
    /\ file \in Seq(0 .. 255) /\ buffer \in Seq(0 .. 255) /\ writer \in Seq(0 .. 255)
    /\ synced \in 0 .. Len(file)
    /\ mode \in {"closed", "refused", "opening", "up", "write", "sync"}
    /\ clear \in BOOLEAN /\ clean \in BOOLEAN /\ crashed \in BOOLEAN
    /\ inbuf \subseteq Writes /\ acked \subseteq Writes /\ gone \subseteq Writes
    /\ writer # <<>> => faults > 0

\* The numbers of the writes that replay delivers, in order.
Delivered == LET recs == replay(kind, file).recs IN [i \in DOMAIN recs |-> recs[i].w]
DeliveredSet == {Delivered[i] : i \in DOMAIN Delivered}

(***************************************************************************)
(* What a sync has vouched for is delivered by every replay that does not  *)
(* report an error, after any crash: no batch, retry, reopening or left-   *)
(* over of an earlier error displaces it.                                  *)
(***************************************************************************)
SyncedIsReplayed == clean /\ replay(kind, file).ok => acked \subseteq DeliveredSet

(***************************************************************************)
(* G1: replay meets the writes of one opening for the first time in the    *)
(* order they were made, without holes (but for batches the WAL thread     *)
(* dropped on a disk error), and invents none.  It meets a write once, but *)
(* for the retry after a disk error and for StoreLog, whose sync_now       *)
(* writes the buffer and keeps it.                                         *)
(***************************************************************************)
ReplayIsOrdered ==
    /\ TypeOK
    /\ clean => \A i \in DOMAIN Delivered :
          /\ Delivered[i] \in 1 .. sent
          /\ Delivered[i] > base =>
                \A w \in base + 1 .. Delivered[i] - 1 :
                    w \in gone \/ \E j \in 1 .. i - 1 : Delivered[j] = w
          /\ kind # "store_log" /\ faults = 0 =>
                \A j \in 1 .. i - 1 : Delivered[j] # Delivered[i]

(***************************************************************************)
(* Only a crash or a disk error leads to a file that replay refuses or     *)
(* that ends in bytes it does not understand.                              *)
(***************************************************************************)
RefusedOnlyWhenTorn ==
    ~crashed /\ faults = 0 => replay(kind, file).ok /\ ~Torn(file)

-----------------------------------------------------------------------------
(* What the comments say and the code does not do.                         *)

\* "A crash during append never produces a corrupt record", consistency.rs:28:
\* a store that died can be opened again.
NeverRefused == faults = 0 => mode # "refused"

\* "after `store.flush()` returns, all writes submitted before the flush are
\* durable on disk", consistency.rs:19-20: also those appended to a file
\* whose tail was torn.
FlushedIsRecovered ==
    kind = "wal_thread" /\ faults = 0 =>
        replay(kind, file).ok /\ acked \subseteq DeliveredSet

\* "Replay a log file, calling `on_record(opcode, payload)` for each record",
\* store_log.rs:148: once for each.
ReplayedOnce ==
    faults = 0 => \A i, j \in DOMAIN Delivered : Delivered[i] = Delivered[j] => i = j
=============================================================================
