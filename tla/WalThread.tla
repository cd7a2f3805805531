----------------------------- MODULE WalThread -----------------------------
(***************************************************************************)
(* src/storage/wal_thread.rs: the thread that owns a store's WAL file.     *)
(*                                                                         *)
(* Writer threads put commands into a bounded channel; the WAL thread      *)
(* moves them into its buffer and, when the buffer is full, the interval   *)
(* has passed or a flush asks for it, writes the buffer to the file and    *)
(* fsyncs.  The store may be closed (Drop or shutdown()) when no writer is *)
(* in a call, may crash at any point, and may be opened again.             *)
(*                                                                         *)
(* A record is a write number w; its bytes, and the position of a torn     *)
(* one, belong to the framing and not to this module.  The lengths that    *)
(* the code counts in bytes (batch size, pending_bytes) are counted in     *)
(* records here.                                                           *)
(***************************************************************************)
EXTENDS Integers, Sequences, FiniteSets

CONSTANTS
    Writers,      \* threads that share the store
    Nobody,       \* no writer
    ChannelCap,   \* wal_channel_capacity
    Durability,   \* "Immediate", "Batch" or "Async"
    BatchSize,    \* records that fill a batch under "Batch"
    UsizeMax,     \* usize::MAX, scaled down
    DiskMayFail,  \* write_all, flush and sync_all may return an error
    MaxWrites,    \* bound on the records sent
    MaxOpens      \* bound on the times the store is opened

ASSUME ChannelCapAssumption == ChannelCap \in Nat \ {0}
ASSUME DurabilityAssumption == Durability \in {"Immediate", "Batch", "Async"}
ASSUME BatchSizeAssumption == BatchSize \in Nat \ {0}
ASSUME UsizeMaxAssumption == UsizeMax \in Nat \ {0}
ASSUME DiskMayFailAssumption == DiskMayFail \in BOOLEAN
ASSUME NobodyAssumption == Nobody \notin Writers
ASSUME BoundsAssumption == MaxWrites \in Nat /\ MaxOpens \in Nat

VARIABLES
    file,      \* records written to the WAL file, the page cache included
    synced,    \* length of the prefix of file that has been fsynced
    held,      \* records a failed write has left in the BufWriter
    chan,      \* the bounded channel
    buffer,    \* the thread's buffer
    cur,       \* the command the thread has received
    wpc,       \* where the WAL thread is
    wthen,     \* what it does when flush_and_sync returns
    due,       \* last_sync.elapsed() >= fsync_timeout, under "Batch"
    running,   \* AtomicBool
    pending,   \* pending_bytes
    life,      \* the WalThread value: closed, up, or being closed
    pc,        \* where each writer is
    replied,   \* the writer's flush has been answered
    \* what follows is history, not program state
    log,       \* the records in the order the channel accepted them
    base,      \* Len(log) when the store was opened
    upto,      \* Len(log) when the writer called flush(), 0 if it had not
               \* grown since the store was opened
    acked,     \* the largest upto of a flush that returned
    written,   \* records sent so far
    opens      \* times the store was opened

disk == <<file, synced, held>>
thread == <<buffer, cur, wpc, wthen, due>>
ghosts == <<log, base, upto, acked, written, opens>>
vars == <<file, synced, held, chan, buffer, cur, wpc, wthen, due, running, pending,
          life, pc, replied, log, base, upto, acked, written, opens>>

Command == [op : {"record", "flush", "wake", "shutdown"},
            who : Writers \cup {Nobody}, w : Nat, n : Nat]

\* A command; n, the length of the log once it is accepted, is history.
Cmd(op, who, w, n) == [op |-> op, who |-> who, w |-> w, n |-> n]
NoCmd == Cmd("wake", Nobody, 0, 0)

\* Durability::batch_bytes, ::fsync_enabled, and "interval passed".
batch_bytes == CASE Durability = "Immediate" -> 1
                 [] Durability = "Batch" -> BatchSize
                 [] OTHER -> UsizeMax
fsync_enabled == Durability # "Async"
timed_out == Durability = "Immediate" \/ (Durability = "Batch" /\ due)

\* BufWriter::with_capacity(batch_bytes * 2): the product wraps (in a debug
\* build it panics at once) and a capacity above isize::MAX panics.
SpawnPanics == (2 * batch_bytes) % (UsizeMax + 1) > UsizeMax \div 2

Init ==
    /\ file = <<>> /\ synced = 0 /\ held = <<>>
    /\ chan = <<>>
    /\ buffer = <<>> /\ cur = NoCmd /\ wpc = "exited" /\ wthen = "recv"
    /\ due = FALSE /\ running = FALSE /\ pending = 0
    /\ life = "closed"
    /\ pc = [t \in Writers |-> "idle"]
    /\ replied = [t \in Writers |-> FALSE]
    /\ log = <<>> /\ base = 0 /\ acked = 0 /\ written = 0 /\ opens = 0
    /\ upto = [t \in Writers |-> 0]

----------------------------------------------------------------------------
(* The life of the WalThread value *)

\* WalThread::spawn, after the store has replayed the file.
Spawn ==
    /\ life = "closed"
    /\ opens < MaxOpens
    /\ life' = IF SpawnPanics THEN "panicked" ELSE "up"
    /\ wpc' = IF SpawnPanics THEN "exited" ELSE "recv"
    /\ chan' = <<>> /\ buffer' = <<>> /\ cur' = NoCmd /\ wthen' = "recv"
    /\ due' = FALSE /\ running' = TRUE /\ pending' = 0
    /\ base' = Len(log)
    /\ opens' = opens + 1
    /\ UNCHANGED <<disk, pc, replied, log, upto, acked, written>>

\* Mutant: running is not cleared before the thread is woken.
BeginCloseStillRunning ==
    /\ life = "up"
    /\ \A t \in Writers : pc[t] = "idle"
    /\ life' \in {"drop_send", "shutdown_send"}
    /\ UNCHANGED <<disk, chan, thread, running, pending, pc, replied, ghosts>>

\* Drop and shutdown() need the value to themselves: no writer is in a call.
\* Both first clear running.
BeginClose ==
    /\ life = "up"
    /\ \A t \in Writers : pc[t] = "idle"
    /\ running' = FALSE
    /\ life' \in {"drop_send", "shutdown_send"}
    /\ UNCHANGED <<disk, chan, thread, pending, pc, replied, ghosts>>

\* Drop: try_send of a dummy Delete to wake the thread; no effect when the
\* channel is full or the thread has exited.
DropSend ==
    /\ life = "drop_send"
    /\ life' = "drop_join"
    /\ chan' = IF Len(chan) < ChannelCap /\ wpc # "exited"
               THEN Append(chan, Cmd("wake", Nobody, 0, Len(log))) ELSE chan
    /\ UNCHANGED <<disk, thread, running, pending, pc, replied, ghosts>>

\* shutdown(): a blocking send, that fails once the thread has exited.
ShutdownSend ==
    /\ life = "shutdown_send"
    /\ Len(chan) < ChannelCap \/ wpc = "exited"
    /\ life' = "shutdown_join"
    /\ chan' = IF wpc # "exited"
               THEN Append(chan, Cmd("shutdown", Nobody, 0, Len(log))) ELSE chan
    /\ UNCHANGED <<disk, thread, running, pending, pc, replied, ghosts>>

\* join() returns (and before it, in shutdown(), the wait for the reply,
\* that ends with the thread at the latest).  The thread has dropped its
\* BufWriter, which writes what it holds and ignores errors.  What was left in
\* the channel is gone, and the log is what the file holds.
Join ==
    /\ life \in {"drop_join", "shutdown_join"}
    /\ wpc = "exited"
    /\ life' = "closed"
    /\ \E j \in 0..Len(held) :
          /\ j = Len(held) \/ DiskMayFail
          /\ file' = file \o SubSeq(held, 1, j)
    /\ held' = <<>>
    /\ log' = file'
    /\ UNCHANGED <<synced, chan, thread, running, pending, pc, replied,
                   base, upto, acked, written, opens>>

\* The process or the machine dies.  Memory is lost; the file keeps what was
\* fsynced and, of what was only written, any prefix (all of it when only
\* the process dies).
Crash ==
    /\ life \notin {"closed", "panicked"}
    /\ \E k \in synced..Len(file) :
          /\ file' = SubSeq(file, 1, k)
          /\ log' = SubSeq(file, 1, k)
    /\ life' = "closed" /\ wpc' = "exited"
    /\ held' = <<>> /\ chan' = <<>> /\ buffer' = <<>> /\ cur' = NoCmd
    /\ pc' = [t \in Writers |-> "idle"]
    /\ replied' = [t \in Writers |-> FALSE]
    /\ upto' = [t \in Writers |-> 0]
    /\ UNCHANGED <<synced, wthen, due, running, pending, base, acked, written,
                   opens>>

----------------------------------------------------------------------------
(* Writers *)

\* send_insert/send_delete: pending_bytes is raised before the send.
CallSend(t) ==
    /\ life = "up" /\ pc[t] = "idle"
    /\ written + Cardinality({u \in Writers : pc[u] = "send"}) < MaxWrites
    /\ pending' = pending + 1
    /\ pc' = [pc EXCEPT ![t] = "send"]
    /\ UNCHANGED <<disk, chan, thread, running, life, replied, ghosts>>

\* ... and the send blocks while the channel is full.  The write returns to
\* its caller here.
Send(t) ==
    /\ pc[t] = "send"
    /\ Len(chan) < ChannelCap
    /\ written' = written + 1
    /\ chan' = Append(chan, Cmd("record", t, written + 1, Len(log) + 1))
    /\ log' = Append(log, written + 1)
    /\ pc' = [pc EXCEPT ![t] = "idle"]
    /\ UNCHANGED <<disk, thread, running, pending, life, replied, base, upto,
                   acked, opens>>

\* flush(): the writes accepted so far are the ones it is to make durable.
CallFlush(t) ==
    /\ life = "up" /\ pc[t] = "idle"
    /\ pc' = [pc EXCEPT ![t] = "flush_send"]
    /\ upto' = [upto EXCEPT ![t] = IF Len(log) > base THEN Len(log) ELSE 0]
    /\ UNCHANGED <<disk, chan, thread, running, pending, life, replied, log,
                   base, acked, written, opens>>

FlushSend(t) ==
    /\ pc[t] = "flush_send"
    /\ Len(chan) < ChannelCap
    /\ chan' = Append(chan, Cmd("flush", t, 0, Len(log)))
    /\ pc' = [pc EXCEPT ![t] = "flush_wait"]
    /\ replied' = [replied EXCEPT ![t] = FALSE]
    /\ UNCHANGED <<disk, thread, running, pending, life, ghosts>>

\* The reply is there; pending_bytes is set to 0 once more.
FlushReturn(t) ==
    /\ pc[t] = "flush_wait"
    /\ replied[t]
    /\ pc' = [pc EXCEPT ![t] = "idle"]
    /\ pending' = 0
    /\ acked' = IF upto[t] > acked THEN upto[t] ELSE acked
    /\ UNCHANGED <<disk, chan, thread, running, life, replied, log, base, upto,
                   written, opens>>

----------------------------------------------------------------------------
(* wal_loop *)

\* What follows a flush_and_sync: answer the flush, leave the loop (the
\* receiver is dropped and the channel with it), or go on.
Resume(then) ==
    /\ wpc' = IF then = "exit" THEN "exited" ELSE "recv"
    /\ chan' = IF then = "exit" THEN <<>> ELSE chan
    /\ replied' = IF then = "reply" THEN [replied EXCEPT ![cur.who] = TRUE]
                  ELSE replied
    /\ due' = IF then = "exit" THEN due ELSE FALSE

\* flush_and_sync is entered: nothing to do when the buffer is empty, not
\* even an fsync.
FlushAndSync(then) ==
    \/ /\ buffer = <<>>
       /\ Resume(then)
       /\ UNCHANGED wthen
    \/ /\ buffer # <<>>
       /\ wpc' = "write"
       /\ wthen' = then
       /\ UNCHANGED <<chan, replied, due>>

\* recv_timeout returns a command.
Recv ==
    /\ wpc = "recv"
    /\ chan # <<>>
    /\ cur' = Head(chan)
    /\ chan' = Tail(chan)
    /\ wpc' = "got"
    /\ UNCHANGED <<disk, buffer, wthen, due, running, pending, life, pc,
                   replied, ghosts>>

\* recv_timeout times out.
RecvTimeout ==
    /\ wpc = "recv"
    /\ chan = <<>>
    /\ wpc' = IF ~running /\ buffer = <<>> THEN "exited" ELSE "check"
    /\ UNCHANGED <<disk, chan, buffer, cur, wthen, due, running, pending, life,
                   pc, replied, ghosts>>

\* running is loaded after the receive: once it is false the command just
\* received is dropped with the rest of the channel.
DispatchStopped ==
    /\ wpc = "got"
    /\ ~running
    /\ FlushAndSync("exit")
    /\ UNCHANGED <<disk, buffer, cur, running, pending, life, pc, ghosts>>

\* Insert and Delete are encoded into the buffer.
DispatchRecord ==
    /\ wpc = "got"
    /\ running
    /\ cur.op \in {"record", "wake"}
    /\ buffer' = Append(buffer, cur.w)
    /\ wpc' = "check"
    /\ UNCHANGED <<disk, chan, cur, wthen, due, running, pending, life, pc,
                   replied, ghosts>>

\* Mutant: the flush is answered before the batch is synced.
DispatchFlushEarlyReply ==
    /\ wpc = "got"
    /\ running
    /\ cur.op \in {"flush", "shutdown"}
    /\ Resume(IF cur.op = "flush" THEN "reply" ELSE "exit")
    /\ UNCHANGED <<disk, buffer, cur, wthen, running, pending, life, pc, ghosts>>

\* Mutant: the flush is never answered.
DispatchFlushNoReply ==
    /\ wpc = "got"
    /\ running
    /\ cur.op \in {"flush", "shutdown"}
    /\ FlushAndSync(IF cur.op = "flush" THEN "recv" ELSE "exit")
    /\ UNCHANGED <<disk, buffer, cur, running, pending, life, pc, ghosts>>

\* Flush answers and goes on, Shutdown leaves.
DispatchFlush ==
    /\ wpc = "got"
    /\ running
    /\ cur.op \in {"flush", "shutdown"}
    /\ FlushAndSync(IF cur.op = "flush" THEN "reply" ELSE "exit")
    /\ UNCHANGED <<disk, buffer, cur, running, pending, life, pc, ghosts>>

\* Mutant: only a full batch is synced.
CheckSyncFullOnly ==
    /\ wpc = "check"
    /\ IF Len(buffer) >= batch_bytes
       THEN wpc' = "write" /\ wthen' = "recv"
       ELSE wpc' = "recv" /\ UNCHANGED wthen
    /\ UNCHANGED <<disk, chan, buffer, cur, due, running, pending, life, pc,
                   replied, ghosts>>

\* The end of an iteration: sync when the batch is full or the interval over.
CheckSync ==
    /\ wpc = "check"
    /\ \/ /\ (Len(buffer) >= batch_bytes \/ timed_out) /\ buffer # <<>>
          /\ wpc' = "write"
          /\ wthen' = "recv"
       \/ /\ ~((Len(buffer) >= batch_bytes \/ timed_out) /\ buffer # <<>>)
          /\ wpc' = "recv"
          /\ UNCHANGED wthen
    /\ UNCHANGED <<disk, chan, buffer, cur, due, running, pending, life, pc,
                   replied, ghosts>>

(***************************************************************************)
(* flush_and_sync: write_all and flush; an error is printed and ignored.   *)
(* It comes after some of the records have been written.  What the         *)
(* BufWriter had taken it keeps and writes first the next time; a batch it *)
(* had not taken is lost.                                                  *)
(***************************************************************************)
WriteFile ==
    /\ wpc = "write"
    /\ wpc' = "sync"
    /\ \/ file' = (file \o held) \o buffer /\ held' = <<>>
       \/ /\ DiskMayFail
          /\ LET all == held \o buffer
             IN  \E j \in 0..Len(all) :
                    /\ file' = file \o SubSeq(all, 1, j)
                    /\ held' \in {SubSeq(all, j + 1, Len(all)),
                                  SubSeq(held, j + 1, Len(held))}
    /\ UNCHANGED <<synced, chan, buffer, cur, wthen, due, running, pending, life,
                   pc, replied, ghosts>>

\* Mutant: the buffer is not cleared.
SyncFileKeepsBuffer ==
    /\ wpc = "sync"
    /\ synced' = Len(file)
    /\ pending' = 0
    /\ Resume(wthen)
    /\ UNCHANGED <<file, held, buffer, cur, wthen, running, life, pc, ghosts>>

\* Mutant: pending_bytes is not reset.
SyncFileKeepsPending ==
    /\ wpc = "sync"
    /\ synced' = Len(file)
    /\ buffer' = <<>>
    /\ Resume(wthen)
    /\ UNCHANGED <<file, held, cur, wthen, running, pending, life, pc, ghosts>>

\* flush_and_sync: sync_all if enabled (an error is printed and ignored),
\* pending_bytes := 0, buffer.clear(), return.
SyncFile ==
    /\ wpc = "sync"
    /\ \/ synced' = IF fsync_enabled THEN Len(file) ELSE synced
       \/ DiskMayFail /\ UNCHANGED synced
    /\ pending' = 0
    /\ buffer' = <<>>
    /\ Resume(wthen)
    /\ UNCHANGED <<file, held, cur, wthen, running, life, pc, ghosts>>

\* The interval of "Batch" passes.
Tick ==
    /\ Durability = "Batch"
    /\ wpc # "exited" /\ ~due
    /\ due' = TRUE
    /\ UNCHANGED <<disk, chan, buffer, cur, wpc, wthen, running, pending, life,
                   pc, replied, ghosts>>

----------------------------------------------------------------------------

WalLoop ==
    \/ Recv \/ RecvTimeout
    \/ DispatchStopped \/ DispatchRecord \/ DispatchFlush
    \/ CheckSync \/ WriteFile \/ SyncFile

Closing == DropSend \/ ShutdownSend \/ Join

Next ==
    \/ Spawn \/ BeginClose \/ Closing \/ Crash
    \/ WalLoop \/ Tick
    \/ \E t \in Writers :
          CallSend(t) \/ Send(t) \/ CallFlush(t) \/ FlushSend(t) \/ FlushReturn(t)

Spec == Init /\ [][Next]_vars

(***************************************************************************)
(* Fairness: the WAL thread and the clock run on, a thread that closes the *)
(* store or returns from flush() is scheduled, and a sender blocked on a   *)
(* full channel gets in when slots keep becoming free (crossbeam wakes the *)
(* blocked senders).  Calls, closes and crashes may happen or not.         *)
(***************************************************************************)
FairSpec ==
    /\ Spec
    /\ WF_vars(WalLoop) /\ WF_vars(Tick) /\ WF_vars(Closing)
    /\ \A t \in Writers :
          SF_vars(Send(t)) /\ SF_vars(FlushSend(t)) /\ WF_vars(FlushReturn(t))

----------------------------------------------------------------------------
(* Properties *)

TypeOK ==
    /\ file \in Seq(Nat) /\ synced \in 0..Len(file) /\ held \in Seq(Nat)
    /\ chan \in Seq(Command) /\ Len(chan) <= ChannelCap
    /\ buffer \in Seq(Nat)
    /\ cur \in Command
    /\ wpc \in {"exited", "recv", "got", "check", "write", "sync"}
    /\ wthen \in {"recv", "reply", "exit"}
    /\ due \in BOOLEAN /\ running \in BOOLEAN
    /\ pending \in Nat
    /\ life \in {"closed", "up", "drop_send", "drop_join", "shutdown_send",
                 "shutdown_join", "panicked"}
    /\ pc \in [Writers -> {"idle", "send", "flush_send", "flush_wait"}]
    /\ replied \in [Writers -> BOOLEAN]
    /\ log \in Seq(Nat) /\ base \in Nat
    /\ upto \in [Writers -> Nat] /\ acked \in Nat
    /\ written \in Nat /\ opens \in Nat

Records(s) == {i \in DOMAIN s : s[i].op = "record"}

\* Records that were submitted and that flush_and_sync has not finished with.
Unsynced ==
    Cardinality({t \in Writers : pc[t] = "send"}) + Cardinality(Records(chan))
        + (IF wpc = "got" /\ cur.op = "record" THEN 1 ELSE 0) + Len(buffer)

\* G1: the file is a prefix of what the channel accepted, in that order: no
\* record is lost in between, duplicated or overtaken, whatever the batches,
\* the crashes and the closes were.
FileIsLogPrefix ==
    /\ Len(file) <= Len(log)
    /\ \A i \in 1..Len(file) : file[i] = log[i]

\* Records reach the file in the order they were sent in, even when the disk
\* refuses some of them.
FileIsOrdered == \A i, j \in DOMAIN file : i < j => file[i] < file[j]

\* G2: what a flush has vouched for when it returns is fsynced, and stays.
FlushIsSyncPoint == acked <= synced

\* The wake-up record of Drop is never written, or replay would meet a
\* Delete nobody asked for.
WakeIsNotLogged == \A i \in 1..Len(file) : file[i] # 0

\* pending_bytes never reports bytes that are no longer pending: the store of
\* 0 may hide a send under way, but no interleaving of it with fetch_add
\* leaves a residue.
PendingIsBounded == life = "up" => pending <= Unsynced

Contract == INSTANCE DurableLog WITH durable <- synced

\* The thread, its channel and its batches implement the log contract.
ImplementsDurableLog == Contract!Spec

\* flush() returns (unless a crash takes the caller away).
FlushReturns ==
    \A t \in Writers :
        (pc[t] \in {"flush_send", "flush_wait"}) ~> (pc[t] = "idle")

\* The crash window is bounded: a record accepted since the store was opened
\* is fsynced without any flush, as long as the store stays up.
WritesBecomeDurable ==
    \A n \in 1..MaxWrites :
        (life = "up" /\ Len(log) >= n /\ n > base) ~> (synced >= n \/ life # "up")

\* Drop and shutdown() return, a full channel included.
CloseReturns == (life \notin {"closed", "up", "panicked"}) ~> (life = "closed")

\* What consistency.rs and the comments claim and the code does not do.

\* shutdown() drains: what the channel accepted is in the file when it returns.
ShutdownDrains == [][life = "shutdown_join" /\ Join => file = log]_vars

\* "Every write is fsynced before returning."
ImmediateIsDurable == life = "up" /\ Durability = "Immediate" => synced = Len(log)

\* Every documented durability level can be opened.
EveryLevelOpens == life # "panicked"

\* After flush() returns every write before it is durable, those that were
\* replayed from the file when the store was opened included.
FlushCoversReplayed ==
    [][\A t \in Writers : FlushReturn(t) => base <= synced]_vars
============================================================================
