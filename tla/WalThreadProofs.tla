-------------------------- MODULE WalThreadProofs --------------------------
(***************************************************************************)
(* Theorems about WalThread for any writers, channel capacity, batch size  *)
(* and number of writes, crashes and reopenings, on a disk that does not   *)
(* fail and with a durability level that fsyncs.                           *)
(*                                                                         *)
(* That a flush is a sync point is a fact about the whole pipeline: the    *)
(* file, the buffer, the command in hand and the channel together are the  *)
(* log, cut into consecutive pieces.  Inv says so with the position n each *)
(* command was stamped with when the channel accepted it.                  *)
(***************************************************************************)
EXTENDS WalThread, SequenceTheorems, FiniteSetTheorems, TLAPS

\* The records that are in the file (buffer included) or in the thread's hand.
Received ==
    Len(file) + (IF wpc = "sync" THEN 0 ELSE Len(buffer))
              + (IF wpc = "got" /\ cur.op = "record" THEN 1 ELSE 0)

\* A command follows directly the position prev of the log lg.
Follows(cmd, prev, lg) ==
    /\ cmd.n = (IF cmd.op = "record" THEN prev + 1 ELSE prev)
    /\ cmd.n <= Len(lg)
    /\ cmd.op = "record" => cmd.w = lg[cmd.n]

LogIsPositive == \A i \in 1..Len(log) : log[i] > 0

\* The buffer continues the file.
BufferContinues ==
    wpc # "sync" => /\ Len(file) + Len(buffer) <= Len(log)
                    /\ \A i \in 1..Len(buffer) : buffer[i] = log[Len(file) + i]

\* The command in hand continues the buffer.
CurContinues ==
    life = "up" /\ wpc = "got" => Follows(cur, Len(file) + Len(buffer), log)

\* The channel continues the command in hand and ends where the log ends.
\* (Once the store is being closed the thread throws commands away.)
ChannelContinues ==
    life = "up" =>
        /\ chan = <<>> => Received = Len(log)
        /\ chan # <<>> => /\ Follows(chan[1], Received, log)
                          /\ chan[Len(chan)].n = Len(log)
        /\ \A i \in 2..Len(chan) : Follows(chan[i], chan[i-1].n, log)

\* Who may do what in which phase of the store's life.
LifeCycle ==
    /\ life = "up" => running /\ wpc # "exited"
    /\ life \in {"closed", "panicked"} => wpc = "exited"
    /\ life \notin {"up", "closed", "panicked"} => ~running
    /\ wpc = "exited" => buffer = <<>> /\ chan = <<>>
    /\ life = "closed" => Len(log) = Len(file)
    /\ \A t \in Writers : pc[t] # "idle" => life = "up"
    /\ wpc \in {"write", "sync"} /\ wthen = "exit" => life # "up"
    /\ wpc = "got" /\ cur.op \in {"wake", "shutdown"} => life # "up"
    /\ \A i \in 1..Len(chan) : chan[i].op \in {"wake", "shutdown"} => life # "up"

\* The thread is busy with a flush it has not answered.
Flushing ==
    \/ wpc = "got" /\ cur.op = "flush"
    \/ wpc \in {"write", "sync"} /\ wthen = "reply"

\* Writer t waits for the flush that carries its name and position n.
Awaits(t, n) ==
    /\ t \in Writers
    /\ pc[t] = "flush_wait"
    /\ ~replied[t]
    /\ upto[t] <= n

\* Every flush in the channel has a writer waiting for it and covers its writes.
ChannelFlushes ==
    \A i \in 1..Len(chan) : chan[i].op = "flush" => Awaits(chan[i].who, chan[i].n)

\* No writer has two flushes in the channel.
FlushesDistinct ==
    \A i, j \in 1..Len(chan) :
        chan[i].op = "flush" /\ chan[j].op = "flush" /\ chan[i].who = chan[j].who
            => i = j

\* The flush in hand has a writer waiting for it, and that one only.
FlushInHand ==
    Flushing =>
        /\ Awaits(cur.who, Received)
        /\ \A i \in 1..Len(chan) : chan[i].op = "flush" => chan[i].who # cur.who

\* Between two syncs the file is fsynced, unless nothing was written to it
\* since the store was opened.
SyncedBetween ==
    /\ wpc \notin {"sync", "exited"} /\ Len(file) > base => synced = Len(file)
    /\ \A t \in Writers : pc[t] \in {"flush_send", "flush_wait"} =>
          /\ upto[t] = 0 \/ upto[t] > base
          /\ upto[t] <= Len(log)
          /\ pc[t] = "flush_wait" /\ replied[t] => upto[t] <= synced

Inv ==
    /\ TypeOK
    /\ FileIsLogPrefix
    /\ LogIsPositive
    /\ BufferContinues
    /\ CurContinues
    /\ ChannelContinues
    /\ LifeCycle
    /\ ChannelFlushes
    /\ FlushesDistinct
    /\ FlushInHand
    /\ SyncedBetween
    /\ FlushIsSyncPoint

\* The BufWriter keeps nothing from one batch to the next.
NothingHeld == held = <<>>

\* The case the theorems are about.
ReliableDisk == ~DiskMayFail /\ fsync_enabled

----------------------------------------------------------------------------
(* Facts about the sequences of the pipeline *)

\* A prefix of a sequence.
LEMMA SubSeqFacts ==
  ASSUME NEW S, NEW s \in Seq(S), NEW k \in 0..Len(s)
  PROVE  /\ SubSeq(s, 1, k) \in Seq(S)
         /\ Len(SubSeq(s, 1, k)) = k
         /\ \A i \in 1..k : SubSeq(s, 1, k)[i] = s[i]
  BY SubSeqProperties

\* What is left of a sequence after its first elements.
LEMMA SuffixType ==
  ASSUME NEW S, NEW s \in Seq(S), NEW j \in Nat
  PROVE  SubSeq(s, j + 1, Len(s)) \in Seq(S)
  BY SubSeqProperties

\* One sequence after another.
LEMMA ConcatFacts ==
  ASSUME NEW S, NEW s \in Seq(S), NEW t \in Seq(S)
  PROVE  /\ s \o t \in Seq(S)
         /\ Len(s \o t) = Len(s) + Len(t)
         /\ Len(s) \in Nat /\ Len(t) \in Nat
  BY ConcatProperties

\* Nothing in between.
LEMMA ConcatNothing ==
  ASSUME NEW S, NEW s \in Seq(S)
  PROVE  s \o <<>> = s
  BY ConcatEmptySeq

\* Taking the head off a sequence.
LEMMA TailFacts ==
  ASSUME NEW S, NEW s \in Seq(S), s # <<>>
  PROVE  /\ Tail(s) \in Seq(S)
         /\ Len(s) \in Nat \ {0}
         /\ Len(Tail(s)) = Len(s) - 1
         /\ Head(s) = s[1] /\ Head(s) \in S
         /\ \A i \in 1..Len(Tail(s)) : Tail(s)[i] = s[i + 1]
  OBVIOUS

\* Seq(S) and the length of a member.
LEMMA LenFacts ==
  ASSUME NEW S, NEW s \in Seq(S)
  PROVE  /\ Len(s) \in Nat /\ DOMAIN s = 1..Len(s)
         /\ s = <<>> <=> Len(s) = 0
         /\ \A i \in 1..Len(s) : s[i] \in S
  OBVIOUS

----------------------------------------------------------------------------
(* Types *)

USE ChannelCapAssumption, NobodyAssumption

\* The fields of a command.
LEMMA CmdType ==
  ASSUME NEW op \in {"record", "flush", "wake", "shutdown"},
         NEW who \in Writers \cup {Nobody}, NEW w \in Nat, NEW n \in Nat
  PROVE  /\ Cmd(op, who, w, n) \in Command
         /\ Cmd(op, who, w, n).op = op /\ Cmd(op, who, w, n).who = who
         /\ Cmd(op, who, w, n).w = w /\ Cmd(op, who, w, n).n = n
  BY DEF Cmd, Command

\* The types of the fields of a command.
LEMMA CommandFields ==
  ASSUME NEW c \in Command
  PROVE  /\ c.op \in {"record", "flush", "wake", "shutdown"}
         /\ c.who \in Writers \cup {Nobody}
         /\ c.w \in Nat /\ c.n \in Nat
  BY DEF Command

\* What the type invariant says of the sequences, once and for all.
LEMMA SequencesOfInv ==
  ASSUME TypeOK
  PROVE  /\ Len(file) \in Nat /\ Len(log) \in Nat /\ Len(buffer) \in Nat
         /\ Len(chan) \in Nat /\ synced \in Nat
         /\ \A i \in 1..Len(chan) : chan[i] \in Command
         /\ \A i \in 1..Len(file) : file[i] \in Nat
         /\ \A i \in 1..Len(log) : log[i] \in Nat
         /\ \A i \in 1..Len(buffer) : buffer[i] \in Nat
<1>1. /\ file \in Seq(Nat) /\ log \in Seq(Nat) /\ buffer \in Seq(Nat)
      /\ chan \in Seq(Command) /\ synced \in 0..Len(file)
  BY DEF TypeOK
<1>2. /\ Len(file) \in Nat /\ Len(log) \in Nat /\ Len(buffer) \in Nat
      /\ Len(chan) \in Nat
  BY <1>1, LenFacts
<1>3. \A i \in 1..Len(chan) : chan[i] \in Command
  BY <1>1, LenFacts
<1> QED BY <1>1, <1>2, <1>3, LenFacts

\* Received is a number.
LEMMA ReceivedNat == ASSUME TypeOK PROVE Received \in Nat
<1> DEFINE x == IF wpc = "sync" THEN 0 ELSE Len(buffer)
           y == IF wpc = "got" /\ cur.op = "record" THEN 1 ELSE 0
<1>1. Len(file) \in Nat /\ Len(buffer) \in Nat
  BY SequencesOfInv
<1>2. x \in Nat /\ y \in Nat
  BY <1>1
<1>3. Received = Len(file) + x + y
  BY DEF Received
<1> HIDE DEF x, y
<1> QED BY <1>1, <1>2, <1>3

\* What flush_and_sync returns to is well typed.
LEMMA ResumeType ==
  ASSUME TypeOK, NEW then \in {"recv", "reply", "exit"}, Resume(then)
  PROVE  /\ wpc' \in {"exited", "recv"}
         /\ chan' \in Seq(Command) /\ Len(chan') <= ChannelCap
         /\ replied' \in [Writers -> BOOLEAN]
         /\ due' \in BOOLEAN
<1> USE DEF TypeOK, Resume
<1>1. wpc' \in {"exited", "recv"}
  OBVIOUS
<1>2. chan' \in Seq(Command) /\ Len(chan') <= ChannelCap
  BY EmptySeq
<1>3. replied' \in [Writers -> BOOLEAN]
  <2>1. CASE then = "reply"
    BY <2>1
  <2>2. CASE then # "reply"
    BY <2>2
  <2> QED BY <2>1, <2>2
<1>4. due' \in BOOLEAN
  BY Zenon
<1> QED BY <1>1, <1>2, <1>3, <1>4

\* Every step keeps the types, with a disk that may fail too.
LEMMA TypeInv == ASSUME TypeOK, Next PROVE TypeOK'
<1> USE DEF TypeOK
<1> Len(file) \in Nat /\ Len(log) \in Nat /\ Len(buffer) \in Nat /\ Len(chan) \in Nat
  BY LenFacts
<1>0. NoCmd \in Command /\ <<>> \in Seq(Command) /\ <<>> \in Seq(Nat) /\ Len(<<>>) = 0
  BY CmdType, EmptySeq DEF NoCmd
<1>1. CASE Spawn
  <2>1. wpc' \in {"exited", "recv"} /\ life' \in {"panicked", "up"}
    BY <1>1, Zenon DEF Spawn
  <2>2. /\ UNCHANGED <<file, synced, held, pc, replied, log, upto, acked, written>>
        /\ chan' = <<>> /\ buffer' = <<>> /\ cur' = NoCmd /\ wthen' = "recv"
        /\ due' = FALSE /\ running' = TRUE /\ pending' = 0
        /\ base' = Len(log) /\ opens' = opens + 1
    BY <1>1 DEF Spawn, disk
  <2>3. /\ chan' \in Seq(Command) /\ Len(chan') <= ChannelCap
        /\ buffer' \in Seq(Nat) /\ cur' \in Command
    BY <1>0, <2>2
  <2>4. due' \in BOOLEAN /\ running' \in BOOLEAN
    BY <2>2
  <2>5. /\ file' \in Seq(Nat) /\ synced' \in 0..Len(file') /\ held' \in Seq(Nat)
        /\ log' \in Seq(Nat) /\ base' \in Nat
        /\ upto' \in [Writers -> Nat] /\ acked' \in Nat
        /\ written' \in Nat /\ opens' \in Nat /\ pending' \in Nat
        /\ pc' \in [Writers -> {"idle", "send", "flush_send", "flush_wait"}]
        /\ replied' \in [Writers -> BOOLEAN]
    BY <2>2
  <2> QED BY <2>1, <2>2, <2>3, <2>4, <2>5
<1>2. CASE BeginClose
  BY <1>2 DEF BeginClose, disk, thread, ghosts
<1>3. CASE DropSend
  <2>1. /\ Append(chan, Cmd("wake", Nobody, 0, Len(log))) \in Seq(Command)
        /\ Len(Append(chan, Cmd("wake", Nobody, 0, Len(log)))) = Len(chan) + 1
    <3>1. Cmd("wake", Nobody, 0, Len(log)) \in Command
      BY CmdType
    <3> QED BY <3>1, AppendProperties
  <2>2. chan' \in Seq(Command) /\ Len(chan') <= ChannelCap
    BY <1>3, <2>1 DEF DropSend
  <2> QED BY <1>3, <2>2 DEF DropSend, disk, thread, ghosts
<1>4. CASE ShutdownSend
  <2>1. /\ Append(chan, Cmd("shutdown", Nobody, 0, Len(log))) \in Seq(Command)
        /\ Len(Append(chan, Cmd("shutdown", Nobody, 0, Len(log)))) = Len(chan) + 1
    <3>1. Cmd("shutdown", Nobody, 0, Len(log)) \in Command
      BY CmdType
    <3> QED BY <3>1, AppendProperties
  <2>2. chan' \in Seq(Command) /\ Len(chan') <= ChannelCap
    BY <1>4, <2>1 DEF ShutdownSend
  <2> QED BY <1>4, <2>2 DEF ShutdownSend, disk, thread, ghosts
<1>5. CASE Join
  <2>1. PICK j \in 0..Len(held) : file' = file \o SubSeq(held, 1, j)
    BY <1>5 DEF Join
  <2>2. SubSeq(held, 1, j) \in Seq(Nat) /\ Len(SubSeq(held, 1, j)) \in Nat
    BY SubSeqFacts, LenFacts
  <2>3. file' \in Seq(Nat) /\ Len(file') \in Nat /\ Len(file') >= Len(file)
    BY <2>1, <2>2, ConcatFacts, SMTT(30)
  <2>4. log' \in Seq(Nat) /\ held' \in Seq(Nat)
    BY <1>0, <1>5, <2>3 DEF Join
  <2> QED BY <1>5, <2>3, <2>4, SMTT(30) DEF Join, thread
<1>6. CASE Crash
  <2>1. PICK k \in synced..Len(file) : file' = SubSeq(file, 1, k) /\ log' = file'
    BY <1>6 DEF Crash
  <2>2. file' \in Seq(Nat) /\ Len(file') = k
    BY <2>1, SubSeqFacts, SMTT(30)
  <2> QED BY <1>0, <1>6, <2>1, <2>2 DEF Crash
<1>7. ASSUME NEW t \in Writers, CallSend(t) PROVE TypeOK'
  BY <1>7 DEF CallSend, disk, thread, ghosts
<1>8. ASSUME NEW t \in Writers, Send(t) PROVE TypeOK'
  <2>1. chan' \in Seq(Command) /\ Len(chan') = Len(chan) + 1
    BY <1>8, CmdType, AppendProperties DEF Send
  <2>2. log' \in Seq(Nat)
    BY <1>8, AppendProperties DEF Send
  <2> QED BY <1>8, <2>1, <2>2 DEF Send, disk, thread
<1>9. ASSUME NEW t \in Writers, CallFlush(t) PROVE TypeOK'
  BY <1>9 DEF CallFlush, disk, thread
<1>10. ASSUME NEW t \in Writers, FlushSend(t) PROVE TypeOK'
  <2>1. chan' \in Seq(Command) /\ Len(chan') = Len(chan) + 1
    BY <1>10, CmdType, AppendProperties DEF FlushSend
  <2> QED BY <1>10, <2>1 DEF FlushSend, disk, thread, ghosts
<1>11. ASSUME NEW t \in Writers, FlushReturn(t) PROVE TypeOK'
  BY <1>11 DEF FlushReturn, disk, thread
<1>12. CASE Recv
  <2>1. chan' \in Seq(Command) /\ Len(chan') = Len(chan) - 1 /\ cur' \in Command
    BY <1>12, TailFacts DEF Recv
  <2> QED BY <1>12, <2>1 DEF Recv, disk, ghosts
<1>13. CASE RecvTimeout
  BY <1>13 DEF RecvTimeout, disk, ghosts
<1>14. CASE DispatchStopped
  BY <1>0, <1>14 DEF DispatchStopped, FlushAndSync, Resume, disk, ghosts
<1>15. CASE DispatchRecord
  <2>1. buffer' \in Seq(Nat)
    BY <1>15, CommandFields, AppendProperties DEF DispatchRecord
  <2> QED BY <1>15, <2>1 DEF DispatchRecord, disk, ghosts
<1>16. CASE DispatchFlush
  <2>1. ASSUME NEW then \in {"reply", "exit"}, FlushAndSync(then)
        PROVE  /\ wpc' \in {"exited", "recv", "write"}
               /\ chan' \in Seq(Command) /\ Len(chan') <= ChannelCap
               /\ replied' \in [Writers -> BOOLEAN]
               /\ due' \in BOOLEAN
               /\ wthen' \in {"recv", "reply", "exit"}
    <3>1. CASE buffer = <<>>
      BY <1>0, <2>1, <3>1, ResumeType DEF FlushAndSync
    <3>2. CASE buffer # <<>>
      BY <2>1, <3>2 DEF FlushAndSync
    <3> QED BY <3>1, <3>2
  <2>2. cur.op = "flush" => FlushAndSync("reply")
    BY <1>16 DEF DispatchFlush
  <2>3. cur.op # "flush" => FlushAndSync("exit")
    BY <1>16 DEF DispatchFlush
  <2> QED BY <1>16, <2>1, <2>2, <2>3 DEF DispatchFlush, disk, ghosts
<1>17. CASE CheckSync
  BY <1>17 DEF CheckSync, disk, ghosts
<1>18. CASE WriteFile
  <2> DEFINE all == held \o buffer
  <2>1. all \in Seq(Nat) /\ Len(all) \in Nat /\ Len(held) \in Nat
    BY ConcatFacts, LenFacts
  <2>2. CASE file' = (file \o held) \o buffer /\ held' = <<>>
    <3>1. file \o held \in Seq(Nat) /\ Len(file \o held) = Len(file) + Len(held)
      BY ConcatFacts
    <3>2. file' \in Seq(Nat) /\ Len(file') = Len(file) + Len(held) + Len(buffer)
      BY <2>2, <3>1, ConcatFacts
    <3> QED BY <1>0, <1>18, <2>1, <2>2, <3>2 DEF WriteFile, ghosts
  <2>3. ASSUME NEW j \in 0..Len(all), file' = file \o SubSeq(all, 1, j),
               held' \in {SubSeq(all, j + 1, Len(all)), SubSeq(held, j + 1, Len(held))}
        PROVE  TypeOK'
    <3> HIDE DEF all
    <3>1. SubSeq(all, 1, j) \in Seq(Nat) /\ Len(SubSeq(all, 1, j)) \in Nat
      BY <2>1, SubSeqFacts, LenFacts
    <3>2. file' \in Seq(Nat) /\ Len(file') \in Nat /\ Len(file') >= Len(file)
      BY <2>3, <3>1, ConcatFacts, SMTT(30)
    <3>3. held' \in Seq(Nat)
      <4>1. SubSeq(all, j + 1, Len(all)) \in Seq(Nat)
        BY <2>1, SuffixType
      <4>2. SubSeq(held, j + 1, Len(held)) \in Seq(Nat)
        BY <2>1, SuffixType
      <4> QED BY <2>3, <4>1, <4>2
    <3> QED BY <1>18, <3>2, <3>3 DEF WriteFile, ghosts
  <2> QED BY <1>18, <2>2, <2>3 DEF WriteFile
<1>19. CASE SyncFile
  <2>1. /\ wpc' \in {"exited", "recv"}
        /\ chan' \in Seq(Command) /\ Len(chan') <= ChannelCap
        /\ replied' \in [Writers -> BOOLEAN]
        /\ due' \in BOOLEAN
    BY <1>19, ResumeType DEF SyncFile
  <2>2. synced' = Len(file) \/ synced' = synced
    BY <1>19 DEF SyncFile
  <2> QED BY <1>0, <1>19, <2>1, <2>2 DEF SyncFile, ghosts
<1>20. CASE Tick
  BY <1>20 DEF Tick, disk, ghosts
<1> QED
  BY <1>1, <1>2, <1>3, <1>4, <1>5, <1>6, <1>7, <1>8, <1>9, <1>10, <1>11, <1>12,
     <1>13, <1>14, <1>15, <1>16, <1>17, <1>18, <1>19, <1>20
  DEF Next, Closing, WalLoop

----------------------------------------------------------------------------
(* The invariant is inductive *)

\* The initial state satisfies the invariant.
LEMMA InitInv == Init => Inv
<1> SUFFICES ASSUME Init PROVE Inv
  OBVIOUS
<1>1. TypeOK
  <2>1. NoCmd \in Command
    BY CmdType DEF NoCmd
  <2>2. /\ file \in Seq(Nat) /\ log \in Seq(Nat)
        /\ buffer \in Seq(Nat) /\ held \in Seq(Nat)
    BY EmptySeq DEF Init
  <2>3. chan \in Seq(Command) /\ Len(chan) = 0 /\ Len(file) = 0
    BY EmptySeq DEF Init
  <2>4. /\ pc \in [Writers -> {"idle", "send", "flush_send", "flush_wait"}]
        /\ replied \in [Writers -> BOOLEAN] /\ upto \in [Writers -> Nat]
    BY DEF Init
  <2>5. /\ synced = 0 /\ cur = NoCmd /\ wpc = "exited" /\ wthen = "recv"
        /\ due = FALSE /\ running = FALSE /\ pending = 0 /\ life = "closed"
        /\ base = 0 /\ acked = 0 /\ written = 0 /\ opens = 0
    BY DEF Init
  <2>6. synced \in 0..Len(file) /\ Len(chan) <= ChannelCap /\ cur \in Command
    BY <2>1, <2>3, <2>5
  <2> QED BY <2>2, <2>3, <2>4, <2>5, <2>6, Zenon DEF TypeOK
<1> QED
  BY <1>1, EmptySeq
  DEF Init, Inv, FileIsLogPrefix, LogIsPositive, BufferContinues, CurContinues,
      ChannelContinues, LifeCycle, ChannelFlushes, FlushesDistinct, FlushInHand,
      Flushing, SyncedBetween, FlushIsSyncPoint

\* Opening: the log is the file, and the pipeline is empty.
LEMMA SpawnInv ==
  ASSUME Inv, ReliableDisk, TypeOK', Spawn
  PROVE  Inv'
<1>1. FileIsLogPrefix' /\ LogIsPositive'
  BY DEF Inv, TypeOK, FileIsLogPrefix, LogIsPositive, Spawn, disk
<1>2. BufferContinues' /\ CurContinues'
  BY DEF Inv, TypeOK, BufferContinues, CurContinues, Follows, LifeCycle,
     Spawn, disk
<1>3. ChannelContinues'
  BY DEF Inv, TypeOK, ChannelContinues, Follows, Received, LifeCycle, Spawn,
     disk
<1>4. LifeCycle'
  BY DEF Inv, TypeOK, LifeCycle, Spawn, disk
<1>5. ChannelFlushes' /\ FlushesDistinct'
  BY DEF Inv, TypeOK, ChannelFlushes, FlushesDistinct, Awaits, LifeCycle,
     Spawn, disk
<1>6. FlushInHand'
  BY DEF Inv, TypeOK, FlushInHand, Flushing, Awaits, Received, LifeCycle,
     Spawn, disk
<1>7. SyncedBetween' /\ FlushIsSyncPoint'
  BY DEF Inv, TypeOK, SyncedBetween, FlushIsSyncPoint, LifeCycle, Spawn, disk
<1> QED BY <1>1, <1>2, <1>3, <1>4, <1>5, <1>6, <1>7 DEF Inv

\* Closing begins with no writer in a call.
LEMMA BeginCloseInv ==
  ASSUME Inv, ReliableDisk, TypeOK', BeginClose
  PROVE  Inv'
<1>1. FileIsLogPrefix' /\ LogIsPositive'
  BY DEF Inv, TypeOK, FileIsLogPrefix, LogIsPositive, BeginClose, disk,
     thread, ghosts
<1>2. BufferContinues' /\ CurContinues'
  BY DEF Inv, TypeOK, BufferContinues, CurContinues, Follows, LifeCycle,
     BeginClose, disk, thread, ghosts
<1>3. ChannelContinues'
  BY DEF Inv, TypeOK, ChannelContinues, Follows, Received, LifeCycle,
     BeginClose, disk, thread, ghosts
<1>4. LifeCycle'
  BY DEF Inv, TypeOK, LifeCycle, BeginClose, disk, thread, ghosts
<1>5. ChannelFlushes' /\ FlushesDistinct'
  BY DEF Inv, TypeOK, ChannelFlushes, FlushesDistinct, Awaits, LifeCycle,
     BeginClose, disk, thread, ghosts
<1>6. FlushInHand'
  BY DEF Inv, TypeOK, FlushInHand, Flushing, Awaits, Received, LifeCycle,
     BeginClose, disk, thread, ghosts
<1>7. SyncedBetween' /\ FlushIsSyncPoint'
  BY DEF Inv, TypeOK, SyncedBetween, FlushIsSyncPoint, LifeCycle, BeginClose,
     disk, thread, ghosts
<1> QED BY <1>1, <1>2, <1>3, <1>4, <1>5, <1>6, <1>7 DEF Inv

\* The BufWriter has nothing to write when it is dropped.
LEMMA JoinKeepsFile ==
  ASSUME TypeOK, NothingHeld, Join
  PROVE  file' = file /\ log' = file /\ synced' = synced
<1>1. PICK j \in 0..Len(held) : file' = file \o SubSeq(held, 1, j)
  BY DEF Join
<1>2. Len(held) = 0 /\ held \in Seq(Nat)
  BY LenFacts DEF TypeOK, NothingHeld
<1>3. SubSeq(held, 1, j) \in Seq(Nat) /\ Len(SubSeq(held, 1, j)) = 0
  BY <1>1, <1>2, SubSeqFacts
<1>4. SubSeq(held, 1, j) = <<>>
  BY <1>3, LenFacts
<1>5. file' = file
  BY <1>1, <1>4, ConcatNothing DEF TypeOK
<1> QED BY <1>5 DEF Join

\* A closed store's log is its file.
LEMMA JoinInv ==
  ASSUME Inv, ReliableDisk, NothingHeld, TypeOK', Join
  PROVE  Inv'
<1>a. Len(file) \in Nat /\ Len(log) \in Nat
  BY LenFacts DEF Inv, TypeOK
<1>b. file' = file /\ log' = file /\ synced' = synced
  BY JoinKeepsFile DEF Inv
<1>1. FileIsLogPrefix' /\ LogIsPositive'
  <2>1. FileIsLogPrefix'
    BY <1>a, <1>b DEF FileIsLogPrefix
  <2>2. LogIsPositive'
    BY <1>a, <1>b DEF Inv, FileIsLogPrefix, LogIsPositive
  <2> QED BY <2>1, <2>2
<1>2. BufferContinues' /\ CurContinues'
  BY <1>b DEF Inv, TypeOK, BufferContinues, CurContinues, Follows, LifeCycle, Join,
     thread
<1>3. ChannelContinues'
  BY <1>b DEF Inv, TypeOK, ChannelContinues, Follows, Received, LifeCycle, Join,
     thread
<1>4. LifeCycle'
  BY <1>b DEF Inv, TypeOK, LifeCycle, Join, thread
<1>5. ChannelFlushes' /\ FlushesDistinct'
  BY <1>b DEF Inv, TypeOK, ChannelFlushes, FlushesDistinct, Awaits, LifeCycle,
     Join, thread
<1>6. FlushInHand'
  BY <1>b DEF Inv, TypeOK, FlushInHand, Flushing, Awaits, Received, LifeCycle,
     Join, thread
<1>7. SyncedBetween' /\ FlushIsSyncPoint'
  BY <1>b DEF Inv, TypeOK, SyncedBetween, FlushIsSyncPoint, LifeCycle, Join,
     thread
<1> QED BY <1>1, <1>2, <1>3, <1>4, <1>5, <1>6, <1>7 DEF Inv

\* Raising pending_bytes touches nothing else.
LEMMA CallSendInv ==
  ASSUME Inv, ReliableDisk, TypeOK', NEW t \in Writers, CallSend(t)
  PROVE  Inv'
<1>1. FileIsLogPrefix' /\ LogIsPositive'
  BY DEF Inv, TypeOK, FileIsLogPrefix, LogIsPositive, CallSend, disk, thread,
     ghosts
<1>2. BufferContinues' /\ CurContinues'
  BY DEF Inv, TypeOK, BufferContinues, CurContinues, Follows, LifeCycle,
     CallSend, disk, thread, ghosts
<1>3. ChannelContinues'
  BY DEF Inv, TypeOK, ChannelContinues, Follows, Received, LifeCycle,
     CallSend, disk, thread, ghosts
<1>4. LifeCycle'
  BY DEF Inv, TypeOK, LifeCycle, CallSend, disk, thread, ghosts
<1>5. ChannelFlushes' /\ FlushesDistinct'
  BY DEF Inv, TypeOK, ChannelFlushes, FlushesDistinct, Awaits, LifeCycle,
     CallSend, disk, thread, ghosts
<1>6. FlushInHand'
  BY DEF Inv, TypeOK, FlushInHand, Flushing, Awaits, Received, LifeCycle,
     CallSend, disk, thread, ghosts
<1>7. SyncedBetween' /\ FlushIsSyncPoint'
  BY DEF Inv, TypeOK, SyncedBetween, FlushIsSyncPoint, LifeCycle, CallSend,
     disk, thread, ghosts
<1> QED BY <1>1, <1>2, <1>3, <1>4, <1>5, <1>6, <1>7 DEF Inv

\* The flush covers what the log holds.
LEMMA CallFlushInv ==
  ASSUME Inv, ReliableDisk, TypeOK', NEW t \in Writers, CallFlush(t)
  PROVE  Inv'
<1>1. FileIsLogPrefix' /\ LogIsPositive'
  BY DEF Inv, TypeOK, FileIsLogPrefix, LogIsPositive, CallFlush, disk, thread
<1>2. BufferContinues' /\ CurContinues'
  BY DEF Inv, TypeOK, BufferContinues, CurContinues, Follows, LifeCycle,
     CallFlush, disk, thread
<1>3. ChannelContinues'
  BY DEF Inv, TypeOK, ChannelContinues, Follows, Received, LifeCycle,
     CallFlush, disk, thread
<1>4. LifeCycle'
  BY DEF Inv, TypeOK, LifeCycle, CallFlush, disk, thread
<1>5. ChannelFlushes' /\ FlushesDistinct'
  BY DEF Inv, TypeOK, ChannelFlushes, FlushesDistinct, Awaits, LifeCycle,
     CallFlush, disk, thread
<1>6. FlushInHand'
  BY DEF Inv, TypeOK, FlushInHand, Flushing, Awaits, Received, LifeCycle,
     CallFlush, disk, thread
<1>7. SyncedBetween' /\ FlushIsSyncPoint'
  BY SMTT(30) DEF Inv, TypeOK, SyncedBetween, FlushIsSyncPoint, LifeCycle, CallFlush,
     disk, thread
<1> QED BY <1>1, <1>2, <1>3, <1>4, <1>5, <1>6, <1>7 DEF Inv

\* An answered flush covers fsynced records only.
LEMMA FlushReturnInv ==
  ASSUME Inv, ReliableDisk, TypeOK', NEW t \in Writers, FlushReturn(t)
  PROVE  Inv'
<1>1. FileIsLogPrefix' /\ LogIsPositive'
  BY DEF Inv, TypeOK, FileIsLogPrefix, LogIsPositive, FlushReturn, disk,
     thread
<1>2. BufferContinues' /\ CurContinues'
  BY DEF Inv, TypeOK, BufferContinues, CurContinues, Follows, LifeCycle,
     FlushReturn, disk, thread
<1>3. ChannelContinues'
  BY DEF Inv, TypeOK, ChannelContinues, Follows, Received, LifeCycle,
     FlushReturn, disk, thread
<1>4. LifeCycle'
  BY DEF Inv, TypeOK, LifeCycle, FlushReturn, disk, thread
<1>5. ChannelFlushes' /\ FlushesDistinct'
  BY DEF Inv, TypeOK, ChannelFlushes, FlushesDistinct, Awaits, LifeCycle,
     FlushReturn, disk, thread
<1>6. FlushInHand'
  BY DEF Inv, TypeOK, FlushInHand, Flushing, Awaits, Received, LifeCycle,
     ChannelFlushes, FlushReturn, disk, thread
<1>7. SyncedBetween' /\ FlushIsSyncPoint'
  BY DEF Inv, TypeOK, SyncedBetween, FlushIsSyncPoint, LifeCycle, FlushReturn,
     disk, thread
<1> QED BY <1>1, <1>2, <1>3, <1>4, <1>5, <1>6, <1>7 DEF Inv

\* A timeout leaves the pipeline alone.
LEMMA RecvTimeoutInv ==
  ASSUME Inv, ReliableDisk, TypeOK', RecvTimeout
  PROVE  Inv'
<1>1. FileIsLogPrefix' /\ LogIsPositive'
  BY DEF Inv, TypeOK, FileIsLogPrefix, LogIsPositive, RecvTimeout, disk,
     ghosts
<1>2. BufferContinues' /\ CurContinues'
  BY DEF Inv, TypeOK, BufferContinues, CurContinues, Follows, LifeCycle,
     RecvTimeout, disk, ghosts
<1>3. ChannelContinues'
  BY DEF Inv, TypeOK, ChannelContinues, Follows, Received, LifeCycle,
     RecvTimeout, disk, ghosts
<1>4. LifeCycle'
  BY DEF Inv, TypeOK, LifeCycle, RecvTimeout, disk, ghosts
<1>5. ChannelFlushes' /\ FlushesDistinct'
  BY DEF Inv, TypeOK, ChannelFlushes, FlushesDistinct, Awaits, LifeCycle,
     RecvTimeout, disk, ghosts
<1>6. FlushInHand'
  BY DEF Inv, TypeOK, FlushInHand, Flushing, Awaits, Received, LifeCycle,
     RecvTimeout, disk, ghosts
<1>7. SyncedBetween' /\ FlushIsSyncPoint'
  BY DEF Inv, TypeOK, SyncedBetween, FlushIsSyncPoint, LifeCycle, RecvTimeout,
     disk, ghosts
<1> QED BY <1>1, <1>2, <1>3, <1>4, <1>5, <1>6, <1>7 DEF Inv

\* The decision to sync leaves the pipeline alone.
LEMMA CheckSyncInv ==
  ASSUME Inv, ReliableDisk, TypeOK', CheckSync
  PROVE  Inv'
<1>1. FileIsLogPrefix' /\ LogIsPositive'
  BY DEF Inv, TypeOK, FileIsLogPrefix, LogIsPositive, CheckSync, disk, ghosts
<1>2. BufferContinues' /\ CurContinues'
  BY DEF Inv, TypeOK, BufferContinues, CurContinues, Follows, LifeCycle,
     CheckSync, disk, ghosts
<1>3. ChannelContinues'
  BY DEF Inv, TypeOK, ChannelContinues, Follows, Received, LifeCycle,
     CheckSync, disk, ghosts
<1>4. LifeCycle'
  BY DEF Inv, TypeOK, LifeCycle, CheckSync, disk, ghosts
<1>5. ChannelFlushes' /\ FlushesDistinct'
  BY DEF Inv, TypeOK, ChannelFlushes, FlushesDistinct, Awaits, LifeCycle,
     CheckSync, disk, ghosts
<1>6. FlushInHand'
  BY DEF Inv, TypeOK, FlushInHand, Flushing, Awaits, Received, LifeCycle,
     CheckSync, disk, ghosts
<1>7. SyncedBetween' /\ FlushIsSyncPoint'
  BY DEF Inv, TypeOK, SyncedBetween, FlushIsSyncPoint, LifeCycle, CheckSync,
     disk, ghosts
<1> QED BY <1>1, <1>2, <1>3, <1>4, <1>5, <1>6, <1>7 DEF Inv

\* The clock leaves the pipeline alone.
LEMMA TickInv ==
  ASSUME Inv, ReliableDisk, TypeOK', Tick
  PROVE  Inv'
<1>1. FileIsLogPrefix' /\ LogIsPositive'
  BY DEF Inv, TypeOK, FileIsLogPrefix, LogIsPositive, Tick, disk, ghosts
<1>2. BufferContinues' /\ CurContinues'
  BY DEF Inv, TypeOK, BufferContinues, CurContinues, Follows, LifeCycle, Tick,
     disk, ghosts
<1>3. ChannelContinues'
  BY DEF Inv, TypeOK, ChannelContinues, Follows, Received, LifeCycle, Tick,
     disk, ghosts
<1>4. LifeCycle'
  BY DEF Inv, TypeOK, LifeCycle, Tick, disk, ghosts
<1>5. ChannelFlushes' /\ FlushesDistinct'
  BY DEF Inv, TypeOK, ChannelFlushes, FlushesDistinct, Awaits, LifeCycle,
     Tick, disk, ghosts
<1>6. FlushInHand'
  BY DEF Inv, TypeOK, FlushInHand, Flushing, Awaits, Received, LifeCycle,
     Tick, disk, ghosts
<1>7. SyncedBetween' /\ FlushIsSyncPoint'
  BY DEF Inv, TypeOK, SyncedBetween, FlushIsSyncPoint, LifeCycle, Tick, disk,
     ghosts
<1> QED BY <1>1, <1>2, <1>3, <1>4, <1>5, <1>6, <1>7 DEF Inv

\* A stopping thread answers nobody.
LEMMA DispatchStoppedInv ==
  ASSUME Inv, ReliableDisk, TypeOK', DispatchStopped
  PROVE  Inv'
<1>1. FileIsLogPrefix' /\ LogIsPositive'
  BY DEF Inv, TypeOK, FileIsLogPrefix, LogIsPositive, DispatchStopped,
     FlushAndSync, Resume, disk, ghosts
<1>2. BufferContinues' /\ CurContinues'
  BY DEF Inv, TypeOK, BufferContinues, CurContinues, Follows, LifeCycle,
     DispatchStopped, FlushAndSync, Resume, disk, ghosts
<1>3. ChannelContinues'
  BY DEF Inv, TypeOK, ChannelContinues, Follows, Received, LifeCycle,
     DispatchStopped, FlushAndSync, Resume, disk, ghosts
<1>4. LifeCycle'
  BY DEF Inv, TypeOK, LifeCycle, DispatchStopped, FlushAndSync, Resume, disk,
     ghosts
<1>5. ChannelFlushes' /\ FlushesDistinct'
  BY SMTT(30) DEF Inv, TypeOK, ChannelFlushes, FlushesDistinct, Awaits, LifeCycle,
     DispatchStopped, FlushAndSync, Resume, disk, ghosts
<1>6. FlushInHand'
  BY DEF Inv, TypeOK, FlushInHand, Flushing, Awaits, Received, LifeCycle,
     DispatchStopped, FlushAndSync, Resume, disk, ghosts
<1>7. SyncedBetween' /\ FlushIsSyncPoint'
  BY DEF Inv, TypeOK, SyncedBetween, FlushIsSyncPoint, LifeCycle,
     DispatchStopped, FlushAndSync, Resume, disk, ghosts
<1> QED BY <1>1, <1>2, <1>3, <1>4, <1>5, <1>6, <1>7 DEF Inv

\* A crash keeps a prefix of the file that holds all that was fsynced.
LEMMA CrashInv ==
  ASSUME Inv, ReliableDisk, TypeOK', Crash
  PROVE  Inv'
<1>a. Len(file) \in Nat /\ Len(log) \in Nat /\ synced \in 0..Len(file)
  BY LenFacts DEF Inv, TypeOK
<1>b. PICK k \in synced..Len(file) : file' = SubSeq(file, 1, k) /\ log' = file'
  BY DEF Crash
<1>c. Len(file') = k /\ \A i \in 1..k : file'[i] = file[i]
  BY <1>a, <1>b, SubSeqFacts DEF Inv, TypeOK
<1>1. FileIsLogPrefix' /\ LogIsPositive'
  <2>1. FileIsLogPrefix'
    BY <1>a, <1>b, <1>c DEF Inv, FileIsLogPrefix
  <2>2. LogIsPositive'
    BY <1>a, <1>b, <1>c DEF Inv, FileIsLogPrefix, LogIsPositive
  <2> QED BY <2>1, <2>2
<1>2. BufferContinues' /\ CurContinues'
  BY <1>a, <1>b, <1>c DEF Inv, TypeOK, BufferContinues, CurContinues, Follows,
     LifeCycle, Crash
<1>3. ChannelContinues'
  BY <1>a, <1>b, <1>c DEF Inv, TypeOK, ChannelContinues, Follows, Received,
     LifeCycle, Crash
<1>4. LifeCycle'
  BY <1>a, <1>b, <1>c DEF Inv, TypeOK, LifeCycle, Crash
<1>5. ChannelFlushes' /\ FlushesDistinct'
  BY <1>a, <1>b, <1>c DEF Inv, TypeOK, ChannelFlushes, FlushesDistinct,
     Awaits, LifeCycle, Crash
<1>6. FlushInHand'
  BY <1>a, <1>b, <1>c DEF Inv, TypeOK, FlushInHand, Flushing, Awaits,
     Received, LifeCycle, Crash
<1>7. SyncedBetween' /\ FlushIsSyncPoint'
  BY <1>a, <1>b, <1>c DEF Inv, TypeOK, SyncedBetween, FlushIsSyncPoint,
     LifeCycle, Crash
<1> QED BY <1>1, <1>2, <1>3, <1>4, <1>5, <1>6, <1>7 DEF Inv

\* The wake-up command follows everything and is no flush.
LEMMA DropSendInv ==
  ASSUME Inv, ReliableDisk, TypeOK', DropSend
  PROVE  Inv'
<1> DEFINE c == Cmd("wake", Nobody, 0, Len(log))
<1>a. /\ Len(log) \in Nat /\ Len(chan) \in Nat /\ Len(file) \in Nat
      /\ Len(buffer) \in Nat /\ written \in Nat
  BY LenFacts DEF Inv, TypeOK
<1>b. c \in Command /\ c.op = "wake"
  BY <1>a DEF Cmd, Command
<1>c. \/ chan' = chan
      \/ /\ Len(chan') = Len(chan) + 1 /\ chan'[Len(chan) + 1] = c
         /\ \A i \in 1..Len(chan) : chan'[i] = chan[i]
  BY <1>b, AppendProperties DEF DropSend, Inv, TypeOK
<1> HIDE DEF c
<1>d. \A i \in 1..Len(chan) : chan[i] \in Command
  BY LenFacts DEF Inv, TypeOK
<1>g. \A i \in 1..Len(chan') : i \in 1..Len(chan) \/ i = Len(chan) + 1
  BY <1>a, <1>c
<1>1. FileIsLogPrefix' /\ LogIsPositive'
  BY <1>a, <1>b, <1>c, <1>d, <1>g DEF Inv, TypeOK, FileIsLogPrefix,
     LogIsPositive, DropSend, disk, thread, ghosts
<1>2. BufferContinues' /\ CurContinues'
  BY <1>a, <1>b, <1>c, <1>d, <1>g DEF Inv, TypeOK, BufferContinues,
     CurContinues, Follows, LifeCycle, DropSend, disk, thread, ghosts
<1>3. ChannelContinues'
  BY <1>a, <1>b, <1>c, <1>d, <1>g DEF Inv, TypeOK, ChannelContinues, Follows,
     Received, LifeCycle, DropSend, disk, thread, ghosts
<1>4. LifeCycle'
  BY <1>a, <1>b, <1>c, <1>d, <1>g DEF Inv, TypeOK, LifeCycle, DropSend, disk,
     thread, ghosts
<1>5. ChannelFlushes' /\ FlushesDistinct'
  <2>1. UNCHANGED <<pc, replied, upto>>
    BY DEF DropSend, ghosts
  <2>2. \A i \in 1..Len(chan') : chan'[i].op = "flush"
           => i \in 1..Len(chan) /\ chan'[i] = chan[i]
    BY <1>a, <1>b, <1>c, <1>g
  <2>3. ChannelFlushes'
    BY <2>1, <2>2 DEF Inv, ChannelFlushes, Awaits
  <2>4. FlushesDistinct'
    BY <2>2 DEF Inv, FlushesDistinct
  <2> QED BY <2>3, <2>4
<1>6. FlushInHand'
  BY <1>a, <1>b, <1>c, <1>d, <1>g DEF Inv, TypeOK, FlushInHand, Flushing,
     Awaits, Received, LifeCycle, DropSend, disk, thread, ghosts
<1>7. SyncedBetween' /\ FlushIsSyncPoint'
  BY <1>a, <1>b, <1>c, <1>d, <1>g DEF Inv, TypeOK, SyncedBetween,
     FlushIsSyncPoint, LifeCycle, DropSend, disk, thread, ghosts
<1> QED BY <1>1, <1>2, <1>3, <1>4, <1>5, <1>6, <1>7 DEF Inv

\* The shutdown command follows everything and is no flush.
LEMMA ShutdownSendInv ==
  ASSUME Inv, ReliableDisk, TypeOK', ShutdownSend
  PROVE  Inv'
<1> DEFINE c == Cmd("shutdown", Nobody, 0, Len(log))
<1>a. /\ Len(log) \in Nat /\ Len(chan) \in Nat /\ Len(file) \in Nat
      /\ Len(buffer) \in Nat /\ written \in Nat
  BY LenFacts DEF Inv, TypeOK
<1>b. c \in Command /\ c.op = "shutdown"
  BY <1>a DEF Cmd, Command
<1>c. \/ chan' = chan
      \/ /\ Len(chan') = Len(chan) + 1 /\ chan'[Len(chan) + 1] = c
         /\ \A i \in 1..Len(chan) : chan'[i] = chan[i]
  BY <1>b, AppendProperties DEF ShutdownSend, Inv, TypeOK
<1> HIDE DEF c
<1>d. \A i \in 1..Len(chan) : chan[i] \in Command
  BY LenFacts DEF Inv, TypeOK
<1>g. \A i \in 1..Len(chan') : i \in 1..Len(chan) \/ i = Len(chan) + 1
  BY <1>a, <1>c
<1>1. FileIsLogPrefix' /\ LogIsPositive'
  BY <1>a, <1>b, <1>c, <1>d, <1>g DEF Inv, TypeOK, FileIsLogPrefix,
     LogIsPositive, ShutdownSend, disk, thread, ghosts
<1>2. BufferContinues' /\ CurContinues'
  BY <1>a, <1>b, <1>c, <1>d, <1>g DEF Inv, TypeOK, BufferContinues,
     CurContinues, Follows, LifeCycle, ShutdownSend, disk, thread, ghosts
<1>3. ChannelContinues'
  BY <1>a, <1>b, <1>c, <1>d, <1>g DEF Inv, TypeOK, ChannelContinues, Follows,
     Received, LifeCycle, ShutdownSend, disk, thread, ghosts
<1>4. LifeCycle'
  BY <1>a, <1>b, <1>c, <1>d, <1>g DEF Inv, TypeOK, LifeCycle, ShutdownSend,
     disk, thread, ghosts
<1>5. ChannelFlushes' /\ FlushesDistinct'
  <2>1. UNCHANGED <<pc, replied, upto>>
    BY DEF ShutdownSend, ghosts
  <2>2. \A i \in 1..Len(chan') : chan'[i].op = "flush"
           => i \in 1..Len(chan) /\ chan'[i] = chan[i]
    BY <1>a, <1>b, <1>c, <1>g
  <2>3. ChannelFlushes'
    BY <2>1, <2>2 DEF Inv, ChannelFlushes, Awaits
  <2>4. FlushesDistinct'
    BY <2>2 DEF Inv, FlushesDistinct
  <2> QED BY <2>3, <2>4
<1>6. FlushInHand'
  BY <1>a, <1>b, <1>c, <1>d, <1>g DEF Inv, TypeOK, FlushInHand, Flushing,
     Awaits, Received, LifeCycle, ShutdownSend, disk, thread, ghosts
<1>7. SyncedBetween' /\ FlushIsSyncPoint'
  BY <1>a, <1>b, <1>c, <1>d, <1>g DEF Inv, TypeOK, SyncedBetween,
     FlushIsSyncPoint, LifeCycle, ShutdownSend, disk, thread, ghosts
<1> QED BY <1>1, <1>2, <1>3, <1>4, <1>5, <1>6, <1>7 DEF Inv

\* A flush enters the channel behind the writes it covers.
LEMMA FlushSendInv ==
  ASSUME Inv, ReliableDisk, TypeOK', NEW t \in Writers, FlushSend(t)
  PROVE  Inv'
<1> DEFINE c == Cmd("flush", t, 0, Len(log))
<1>a. /\ Len(log) \in Nat /\ Len(chan) \in Nat /\ Len(file) \in Nat
      /\ Len(buffer) \in Nat /\ written \in Nat
  BY LenFacts DEF Inv, TypeOK
<1>b. c \in Command /\ c.op = "flush" /\ c.who = t /\ c.n = Len(log)
  BY <1>a DEF Cmd, Command
<1>c. /\ Len(chan') = Len(chan) + 1 /\ chan'[Len(chan) + 1] = c
      /\ \A i \in 1..Len(chan) : chan'[i] = chan[i]
  BY <1>b, AppendProperties DEF FlushSend, Inv, TypeOK
<1> HIDE DEF c
<1>d. \A i \in 1..Len(chan) : chan[i] \in Command
  BY LenFacts DEF Inv, TypeOK
<1>g. \A i \in 1..Len(chan') : i \in 1..Len(chan) \/ i = Len(chan) + 1
  BY <1>a, <1>c
<1>e. log' = log
  BY DEF FlushSend, ghosts
<1>f. /\ UNCHANGED <<file, buffer, cur, wpc, wthen, upto>>
      /\ pc[t] = "flush_send" /\ pc' = [pc EXCEPT ![t] = "flush_wait"]
      /\ replied' = [replied EXCEPT ![t] = FALSE]
  BY DEF FlushSend, disk, thread, ghosts
<1>h. life = "up"
  BY <1>f DEF Inv, LifeCycle
<1>i. \A u, n : Awaits(u, n) => u # t /\ Awaits(u, n)'
  BY <1>f DEF Awaits, Inv, TypeOK
<1>j. \A i \in 1..Len(chan) : chan[i].op = "flush" => chan[i].who # t
  BY <1>i DEF Inv, ChannelFlushes
<1>1. FileIsLogPrefix' /\ LogIsPositive'
  BY <1>a, <1>b, <1>c, <1>d, <1>g DEF Inv, TypeOK, FileIsLogPrefix,
     LogIsPositive, FlushSend, disk, thread, ghosts
<1>2. BufferContinues' /\ CurContinues'
  BY <1>a, <1>b, <1>c, <1>d, <1>g DEF Inv, TypeOK, BufferContinues,
     CurContinues, Follows, LifeCycle, FlushSend, disk, thread, ghosts
<1>3. ChannelContinues'
  <2>1. Received' = Received
    BY <1>f DEF Received
  <2>2. \A p \in Nat, i \in 1..Len(chan) :
           Follows(chan[i], p, log) => Follows(chan[i], p, log')
    BY <1>a, <1>d, <1>e, CommandFields DEF Follows
  <2>3. Received \in Nat
    BY ReceivedNat DEF Inv
  <2>4. CASE chan = <<>>
    <3>1. Len(chan) = 0 /\ Received = Len(log)
      BY <1>h, <2>4 DEF Inv, ChannelContinues
    <3>2. Follows(chan'[1], Received', log') /\ chan'[Len(chan')].n = Len(log')
      BY <1>a, <1>b, <1>c, <1>e, <2>1, <3>1 DEF Follows
    <3>3. chan' # <<>> /\ 2..Len(chan') = {}
      BY <1>a, <1>c, <3>1
    <3> QED BY <3>2, <3>3 DEF ChannelContinues
  <2>5. CASE chan # <<>>
    <3>1. /\ Len(chan) > 0
          /\ Follows(chan[1], Received, log)
          /\ chan[Len(chan)].n = Len(log)
          /\ \A i \in 2..Len(chan) : Follows(chan[i], chan[i-1].n, log)
      BY <1>a, <1>h, <2>5, LenFacts DEF Inv, TypeOK, ChannelContinues
    <3>2. \A i \in 1..Len(chan) : chan[i].n \in Nat
      BY <1>d, CommandFields
    <3>3. Follows(chan'[1], Received', log')
      BY <1>a, <1>c, <2>1, <2>2, <2>3, <3>1
    <3>4. chan'[Len(chan')].n = Len(log')
      BY <1>a, <1>b, <1>c, <1>e
    <3>5. ASSUME NEW i \in 2..Len(chan') PROVE Follows(chan'[i], chan'[i-1].n, log')
      <4>1. CASE i <= Len(chan)
        <5>1. i \in 1..Len(chan) /\ i-1 \in 1..Len(chan) /\ i \in 2..Len(chan)
          BY <1>a, <3>5, <4>1
        <5>2. chan'[i] = chan[i] /\ chan'[i-1] = chan[i-1]
          BY <1>c, <5>1
        <5>3. Follows(chan[i], chan[i-1].n, log')
          BY <2>2, <3>1, <3>2, <5>1
        <5> QED BY <5>2, <5>3
      <4>2. CASE i = Len(chan) + 1
        BY <1>a, <1>b, <1>c, <1>e, <3>1, <4>2 DEF Follows
      <4> QED BY <1>a, <1>c, <3>5, <4>1, <4>2
    <3>6. chan' # <<>>
      BY <1>a, <1>c
    <3> QED BY <3>3, <3>4, <3>5, <3>6 DEF ChannelContinues
  <2> QED BY <2>4, <2>5
<1>4. LifeCycle'
  BY <1>a, <1>b, <1>c, <1>d, <1>g DEF Inv, TypeOK, LifeCycle, FlushSend, disk,
     thread, ghosts
<1>5. ChannelFlushes' /\ FlushesDistinct'
  <2>1. Awaits(t, Len(log))'
    BY <1>e, <1>f DEF Awaits, Inv, TypeOK, SyncedBetween
  <2>2. ChannelFlushes'
    BY <1>a, <1>b, <1>c, <1>e, <1>g, <1>i, <2>1 DEF Inv, ChannelFlushes
  <2>3. FlushesDistinct'
    BY <1>a, <1>b, <1>c, <1>g, <1>j DEF Inv, FlushesDistinct
  <2> QED BY <2>2, <2>3
<1>6. FlushInHand'
  <2>1. Received' = Received /\ Flushing' = Flushing
    BY <1>f DEF Received, Flushing
  <2>2. ASSUME Flushing PROVE Awaits(cur.who, Received) /\ cur.who # t
    BY <1>i, <2>2 DEF Inv, FlushInHand
  <2>3. ASSUME Flushing PROVE Awaits(cur.who, Received)'
    BY <1>f, <1>i, <2>1, <2>2, <2>3
  <2>4. ASSUME Flushing, NEW i \in 1..Len(chan'), chan'[i].op = "flush"
        PROVE  chan'[i].who # cur.who
    BY <1>b, <1>c, <1>g, <2>2, <2>4 DEF Inv, FlushInHand
  <2> QED BY <1>f, <2>1, <2>3, <2>4 DEF FlushInHand
<1>7. SyncedBetween' /\ FlushIsSyncPoint'
  BY <1>a, <1>b, <1>c, <1>d, <1>g, SMTT(30) DEF Inv, TypeOK, SyncedBetween,
     FlushIsSyncPoint, LifeCycle, FlushSend, disk, thread, ghosts
<1> QED BY <1>1, <1>2, <1>3, <1>4, <1>5, <1>6, <1>7 DEF Inv

\* A record enters the channel and the log at the same position.
LEMMA SendInv ==
  ASSUME Inv, ReliableDisk, TypeOK', NEW t \in Writers, Send(t)
  PROVE  Inv'
<1> DEFINE c == Cmd("record", t, written + 1, Len(log) + 1)
<1>a. /\ Len(log) \in Nat /\ Len(chan) \in Nat /\ Len(file) \in Nat
      /\ Len(buffer) \in Nat /\ written \in Nat
  BY LenFacts DEF Inv, TypeOK
<1>b. c \in Command /\ c.op = "record" /\ c.w = written + 1 /\ c.n = Len(log) + 1
  BY <1>a DEF Cmd, Command
<1>c. /\ Len(chan') = Len(chan) + 1 /\ chan'[Len(chan) + 1] = c
      /\ \A i \in 1..Len(chan) : chan'[i] = chan[i]
  BY <1>b, AppendProperties DEF Send, Inv, TypeOK
<1>e. /\ Len(log') = Len(log) + 1 /\ log'[Len(log) + 1] = written + 1
      /\ \A i \in 1..Len(log) : log'[i] = log[i]
  BY <1>a, AppendProperties DEF Send, Inv, TypeOK
<1>f. /\ UNCHANGED <<file, synced, buffer, cur, wpc, wthen, due, running, pending,
                     life, replied, base, upto, acked, opens>>
      /\ pc[t] = "send" /\ pc' = [pc EXCEPT ![t] = "idle"]
  BY DEF Send, disk, thread
<1> HIDE DEF c
<1>d. \A i \in 1..Len(chan) : chan[i] \in Command
  BY LenFacts DEF Inv, TypeOK
<1>g. \A i \in 1..Len(chan') : i \in 1..Len(chan) \/ i = Len(chan) + 1
  BY <1>a, <1>c
<1>h. life = "up"
  BY <1>f DEF Inv, LifeCycle
<1>i. \A u, n : Awaits(u, n) => Awaits(u, n)'
  BY <1>f DEF Awaits, Inv, TypeOK
<1>1. FileIsLogPrefix' /\ LogIsPositive'
  <2>1. FileIsLogPrefix'
    BY <1>a, <1>e, <1>f DEF Inv, FileIsLogPrefix
  <2>2. LogIsPositive'
    BY <1>a, <1>e DEF Inv, LogIsPositive
  <2> QED BY <2>1, <2>2
<1>2. BufferContinues' /\ CurContinues'
  <2>1. BufferContinues'
    <3> SUFFICES ASSUME wpc # "sync", NEW i \in 1..Len(buffer)
                 PROVE  /\ Len(file) + Len(buffer) <= Len(log')
                        /\ buffer[i] = log'[Len(file) + i]
      BY <1>a, <1>e, <1>f DEF Inv, BufferContinues
    <3>1. Len(file) + i \in 1..Len(log) /\ buffer[i] = log[Len(file) + i]
      BY <1>a DEF Inv, BufferContinues
    <3> QED BY <1>a, <1>e, <3>1 DEF Inv, BufferContinues
  <2>2. ASSUME wpc = "got" PROVE Follows(cur, Len(file) + Len(buffer), log')
    <3>1. Follows(cur, Len(file) + Len(buffer), log) /\ cur \in Command
      BY <1>h, <2>2 DEF Inv, TypeOK, CurContinues
    <3> QED BY <1>a, <1>e, <1>f, <3>1, CommandFields DEF Follows
  <2> QED BY <1>f, <2>1, <2>2 DEF CurContinues
<1>3. ChannelContinues'
  <2>1. Received' = Received
    BY <1>f DEF Received
  <2>2. \A p \in Nat, i \in 1..Len(chan) :
           Follows(chan[i], p, log) => Follows(chan[i], p, log')
    BY <1>a, <1>d, <1>e, CommandFields DEF Follows
  <2>3. Received \in Nat
    BY ReceivedNat DEF Inv
  <2>4. CASE chan = <<>>
    <3>1. Len(chan) = 0 /\ Received = Len(log)
      BY <1>h, <2>4 DEF Inv, ChannelContinues
    <3>2. Follows(chan'[1], Received', log') /\ chan'[Len(chan')].n = Len(log')
      BY <1>a, <1>b, <1>c, <1>e, <2>1, <3>1 DEF Follows
    <3>3. chan' # <<>> /\ 2..Len(chan') = {}
      BY <1>a, <1>c, <3>1
    <3> QED BY <3>2, <3>3 DEF ChannelContinues
  <2>5. CASE chan # <<>>
    <3>1. /\ Len(chan) > 0
          /\ Follows(chan[1], Received, log)
          /\ chan[Len(chan)].n = Len(log)
          /\ \A i \in 2..Len(chan) : Follows(chan[i], chan[i-1].n, log)
      BY <1>a, <1>h, <2>5, LenFacts DEF Inv, TypeOK, ChannelContinues
    <3>2. \A i \in 1..Len(chan) : chan[i].n \in Nat
      BY <1>d, CommandFields
    <3>3. Follows(chan'[1], Received', log')
      BY <1>a, <1>c, <2>1, <2>2, <2>3, <3>1
    <3>4. chan'[Len(chan')].n = Len(log')
      BY <1>a, <1>b, <1>c, <1>e
    <3>5. ASSUME NEW i \in 2..Len(chan') PROVE Follows(chan'[i], chan'[i-1].n, log')
      <4>1. CASE i <= Len(chan)
        <5>1. i \in 1..Len(chan) /\ i-1 \in 1..Len(chan) /\ i \in 2..Len(chan)
          BY <1>a, <3>5, <4>1
        <5>2. chan'[i] = chan[i] /\ chan'[i-1] = chan[i-1]
          BY <1>c, <5>1
        <5>3. Follows(chan[i], chan[i-1].n, log')
          BY <2>2, <3>1, <3>2, <5>1
        <5> QED BY <5>2, <5>3
      <4>2. CASE i = Len(chan) + 1
        BY <1>a, <1>b, <1>c, <1>e, <3>1, <4>2, SMTT(30) DEF Follows
      <4> QED BY <1>a, <1>c, <3>5, <4>1, <4>2
    <3>6. chan' # <<>>
      BY <1>a, <1>c
    <3> QED BY <3>3, <3>4, <3>5, <3>6 DEF ChannelContinues
  <2> QED BY <2>4, <2>5
<1>4. LifeCycle'
  BY <1>a, <1>b, <1>c, <1>d, <1>g, <1>e, <1>f DEF Inv, TypeOK, LifeCycle
<1>5. ChannelFlushes' /\ FlushesDistinct'
  <2>1. \A i \in 1..Len(chan') : chan'[i].op = "flush"
           => i \in 1..Len(chan) /\ chan'[i] = chan[i]
    BY <1>a, <1>b, <1>c, <1>g
  <2>2. ChannelFlushes'
    BY <1>i, <2>1 DEF Inv, ChannelFlushes
  <2>3. FlushesDistinct'
    BY <2>1 DEF Inv, FlushesDistinct
  <2> QED BY <2>2, <2>3
<1>6. FlushInHand'
  <2>1. Received' = Received /\ Flushing' = Flushing
    BY <1>f DEF Received, Flushing
  <2>2. \A i \in 1..Len(chan') : chan'[i].op = "flush"
           => i \in 1..Len(chan) /\ chan'[i] = chan[i]
    BY <1>a, <1>b, <1>c, <1>g
  <2>3. ASSUME Flushing PROVE Awaits(cur.who, Received)'
    BY <1>f, <1>i, <2>1, <2>3 DEF Inv, FlushInHand
  <2> QED BY <1>f, <2>1, <2>2, <2>3 DEF Inv, FlushInHand
<1>7. SyncedBetween' /\ FlushIsSyncPoint'
  <2>1. SyncedBetween /\ upto \in [Writers -> Nat]
    BY DEF Inv, TypeOK
  <2>2. \A u \in Writers : pc'[u] \in {"flush_send", "flush_wait"} => pc[u] = pc'[u]
    BY <1>f DEF Inv, TypeOK
  <2>3. ASSUME NEW u \in Writers, upto[u] <= Len(log) PROVE upto[u] <= Len(log')
    BY <1>a, <1>e, <2>1, <2>3
  <2>4. SyncedBetween'
    BY <1>f, <2>1, <2>2, <2>3 DEF SyncedBetween
  <2> QED BY <1>f, <2>4 DEF Inv, FlushIsSyncPoint
<1> QED BY <1>1, <1>2, <1>3, <1>4, <1>5, <1>6, <1>7 DEF Inv

\* The head of the channel becomes the command in hand.
LEMMA RecvInv ==
  ASSUME Inv, ReliableDisk, TypeOK', Recv
  PROVE  Inv'
<1>a. /\ Len(file) \in Nat /\ Len(log) \in Nat /\ Len(buffer) \in Nat
      /\ Len(chan) \in Nat /\ synced \in 0..Len(file)
      /\ \A i \in 1..Len(chan) : chan[i] \in Command
  BY LenFacts DEF Inv, TypeOK
<1>b. /\ Len(chan) > 0 /\ Len(chan') = Len(chan) - 1 /\ cur' = chan[1]
      /\ \A i \in 1..Len(chan') : chan'[i] = chan[i+1]
      /\ chan # <<>>
  BY TailFacts, SMTT(30) DEF Recv, Inv, TypeOK
<1>c. /\ UNCHANGED <<file, synced, buffer, wthen, running, life, pc, replied, log,
                     base, upto, acked>>
      /\ wpc = "recv" /\ wpc' = "got"
  BY DEF Recv, disk, ghosts
<1>d. chan[1] \in Command /\ chan[1].n \in Nat
  BY <1>a, <1>b, CommandFields
<1>e. \A i \in 1..Len(chan') : i + 1 \in 1..Len(chan)
  BY <1>a, <1>b
<1>f. Received = Len(file) + Len(buffer)
  BY <1>a, <1>c DEF Received
<1>g. ASSUME life = "up"
      PROVE  Follows(chan[1], Received, log) /\ Received' = chan[1].n
  <2>1. Follows(chan[1], Received, log)
    BY <1>b, <1>g DEF Inv, ChannelContinues
  <2>2. CASE chan[1].op = "record"
    BY <1>a, <1>b, <1>c, <1>f, <2>1, <2>2 DEF Received, Follows
  <2>3. CASE chan[1].op # "record"
    BY <1>a, <1>b, <1>c, <1>f, <2>1, <2>3 DEF Received, Follows
  <2> QED BY <2>1, <2>2, <2>3
<1>h. chan[1].op = "flush" => life = "up"
  BY <1>a, <1>b DEF Inv, ChannelFlushes, LifeCycle, Awaits
<1>i. UNCHANGED <<pc, replied, upto>>
  BY <1>c
<1>1. FileIsLogPrefix' /\ LogIsPositive'
  BY <1>a, <1>b, <1>c DEF Inv, TypeOK, FileIsLogPrefix, LogIsPositive, Recv,
     disk, ghosts
<1>2. BufferContinues' /\ CurContinues'
  <2>1. BufferContinues'
    BY <1>c DEF Inv, BufferContinues
  <2>2. CurContinues'
    BY <1>b, <1>c, <1>f, <1>g DEF CurContinues
  <2> QED BY <2>1, <2>2
<1>3. ChannelContinues'
  <2> SUFFICES ASSUME life = "up"
               PROVE  /\ chan' = <<>> => Received' = Len(log)
                      /\ chan' # <<>> => /\ Follows(chan'[1], Received', log)
                                         /\ chan'[Len(chan')].n = Len(log)
                      /\ \A i \in 2..Len(chan') :
                            Follows(chan'[i], chan'[i-1].n, log)
    BY <1>c DEF ChannelContinues
  <2>1. /\ chan[Len(chan)].n = Len(log)
        /\ \A i \in 2..Len(chan) : Follows(chan[i], chan[i-1].n, log)
    BY <1>b DEF Inv, ChannelContinues
  <2>2. chan' = <<>> => Len(chan) = 1
    BY <1>a, <1>b
  <2>3. ASSUME chan' # <<>> PROVE Len(chan') >= 1
    BY <2>3, LenFacts DEF TypeOK
  <2>4. ASSUME chan' # <<>>
        PROVE  Follows(chan'[1], Received', log) /\ chan'[Len(chan')].n = Len(log)
    <3>1. Len(chan) >= 2 /\ chan'[1] = chan[2] /\ chan'[Len(chan')] = chan[Len(chan)]
      BY <1>a, <1>b, <2>3, <2>4
    <3>2. Follows(chan[2], chan[1].n, log)
      BY <1>a, <2>1, <3>1
    <3> QED BY <1>g, <2>1, <3>1, <3>2
  <2>5. ASSUME NEW i \in 2..Len(chan') PROVE Follows(chan'[i], chan'[i-1].n, log)
    <3>1. /\ i + 1 \in 2..Len(chan) /\ (i + 1) - 1 = i
          /\ chan'[i] = chan[i+1] /\ chan'[i-1] = chan[i]
      BY <1>a, <1>b
    <3>2. Follows(chan[i+1], chan[(i+1)-1].n, log)
      BY <2>1, <3>1
    <3> QED BY <3>1, <3>2
  <2> QED BY <1>g, <2>1, <2>2, <2>4, <2>5
<1>4. LifeCycle'
  <2>1. \A i \in 1..Len(chan') : chan'[i].op \in {"wake", "shutdown"} => life # "up"
    BY <1>b, <1>e DEF Inv, LifeCycle
  <2>2. chan[1].op \in {"wake", "shutdown"} => life # "up"
    BY <1>a, <1>b DEF Inv, LifeCycle
  <2> QED BY <1>b, <1>c, <2>1, <2>2 DEF Inv, LifeCycle
<1>5. ChannelFlushes' /\ FlushesDistinct'
  <2>1. ChannelFlushes'
    BY <1>b, <1>e, <1>i DEF Inv, ChannelFlushes, Awaits
  <2>2. FlushesDistinct'
    <3> SUFFICES ASSUME NEW i \in 1..Len(chan'), NEW j \in 1..Len(chan'),
                        chan'[i].op = "flush", chan'[j].op = "flush",
                        chan'[i].who = chan'[j].who
                 PROVE  i = j
      BY DEF FlushesDistinct
    <3>1. i + 1 = j + 1
      BY <1>b, <1>e DEF Inv, FlushesDistinct
    <3> QED BY <1>a, <1>b, <3>1
  <2> QED BY <2>1, <2>2
<1>6. FlushInHand'
  <2> SUFFICES ASSUME chan[1].op = "flush"
               PROVE  /\ Awaits(cur.who, Received)'
                      /\ \A i \in 1..Len(chan') :
                            chan'[i].op = "flush" => chan'[i].who # chan[1].who
    BY <1>b, <1>c DEF FlushInHand, Flushing
  <2>1. Awaits(chan[1].who, chan[1].n)
    BY <1>a, <1>b DEF Inv, ChannelFlushes
  <2>2. \A i \in 1..Len(chan') :
           chan'[i].op = "flush" => chan'[i].who # chan[1].who
    BY <1>a, <1>b, <1>e DEF Inv, FlushesDistinct
  <2> QED BY <1>b, <1>g, <1>h, <1>i, <2>1, <2>2 DEF Awaits
<1>7. SyncedBetween' /\ FlushIsSyncPoint'
  BY <1>a, <1>b, <1>c DEF Inv, TypeOK, SyncedBetween, FlushIsSyncPoint,
     LifeCycle, Recv, disk, ghosts
<1> QED BY <1>1, <1>2, <1>3, <1>4, <1>5, <1>6, <1>7 DEF Inv

\* The record in hand moves to the end of the buffer.
LEMMA DispatchRecordInv ==
  ASSUME Inv, ReliableDisk, TypeOK', DispatchRecord
  PROVE  Inv'
<1>a. /\ Len(file) \in Nat /\ Len(log) \in Nat /\ Len(buffer) \in Nat
      /\ Len(chan) \in Nat /\ synced \in 0..Len(file)
      /\ \A i \in 1..Len(chan) : chan[i] \in Command
  BY LenFacts DEF Inv, TypeOK
<1>b. life = "up" /\ cur.op = "record" /\ wpc = "got"
  BY DEF DispatchRecord, Inv, TypeOK, LifeCycle
<1>c. /\ UNCHANGED <<file, synced, chan, cur, running, life, pc, replied, log,
                     base, upto, acked>>
      /\ wpc' = "check"
  BY DEF DispatchRecord, disk, ghosts
<1>d. cur.w \in Nat /\ cur.n = Len(file) + Len(buffer) + 1
        /\ cur.n <= Len(log) /\ cur.w = log[cur.n]
  BY <1>b, CommandFields DEF Inv, TypeOK, CurContinues, Follows
<1>e. /\ Len(buffer') = Len(buffer) + 1 /\ buffer'[Len(buffer) + 1] = cur.w
      /\ \A i \in 1..Len(buffer) : buffer'[i] = buffer[i]
  BY <1>d, AppendProperties, SMTT(30) DEF DispatchRecord, Inv, TypeOK
<1>f. Received' = Received
  BY <1>a, <1>b, <1>c, <1>e DEF Received
<1>1. FileIsLogPrefix' /\ LogIsPositive'
  BY <1>a, <1>b, <1>c DEF Inv, TypeOK, FileIsLogPrefix, LogIsPositive,
     DispatchRecord, disk, ghosts
<1>2. BufferContinues' /\ CurContinues'
  <2>1. BufferContinues'
    BY <1>a, <1>b, <1>c, <1>d, <1>e, SMTT(30) DEF Inv, BufferContinues
  <2>2. CurContinues'
    BY <1>c DEF CurContinues
  <2> QED BY <2>1, <2>2
<1>3. ChannelContinues'
  BY <1>c, <1>f DEF Inv, ChannelContinues
<1>4. LifeCycle'
  BY <1>a, <1>b, <1>c DEF Inv, TypeOK, LifeCycle, DispatchRecord, disk, ghosts
<1>5. ChannelFlushes' /\ FlushesDistinct'
  BY <1>a, <1>b, <1>c DEF Inv, TypeOK, ChannelFlushes, FlushesDistinct,
     Awaits, LifeCycle, DispatchRecord, disk, ghosts
<1>6. FlushInHand'
  BY <1>a, <1>b, <1>c DEF Inv, TypeOK, FlushInHand, Flushing, Awaits,
     Received, LifeCycle, DispatchRecord, disk, ghosts
<1>7. SyncedBetween' /\ FlushIsSyncPoint'
  BY <1>a, <1>b, <1>c DEF Inv, TypeOK, SyncedBetween, FlushIsSyncPoint,
     LifeCycle, DispatchRecord, disk, ghosts
<1> QED BY <1>1, <1>2, <1>3, <1>4, <1>5, <1>6, <1>7 DEF Inv

\* A flush with an empty buffer finds the file fsynced.
LEMMA DispatchFlushInv ==
  ASSUME Inv, ReliableDisk, TypeOK', DispatchFlush
  PROVE  Inv'
<1>a. /\ Len(file) \in Nat /\ Len(log) \in Nat /\ Len(buffer) \in Nat
      /\ Len(chan) \in Nat /\ synced \in 0..Len(file)
      /\ \A i \in 1..Len(chan) : chan[i] \in Command
  BY LenFacts DEF Inv, TypeOK
<1>b. life = "up" /\ cur.op = "flush" /\ wpc = "got" /\ FlushAndSync("reply")
  BY DEF DispatchFlush, Inv, TypeOK, LifeCycle
<1>c. UNCHANGED <<file, synced, buffer, chan, cur, running, life, pc, log, base,
                  upto, acked>>
  BY <1>b DEF DispatchFlush, FlushAndSync, Resume, disk, ghosts
<1>d. Flushing /\ Awaits(cur.who, Received)
  BY <1>b DEF Inv, FlushInHand, Flushing
<1>e. \/ /\ buffer = <<>> /\ wpc' = "recv"
         /\ replied' = [replied EXCEPT ![cur.who] = TRUE]
      \/ wpc' = "write" /\ wthen' = "reply" /\ replied' = replied
  BY <1>b DEF FlushAndSync, Resume
<1>f. Received' = Received /\ Received = Len(file) + Len(buffer)
  <2>1. Received = Len(file) + Len(buffer)
    BY <1>a, <1>b DEF Received
  <2>2. Received' = Len(file) + Len(buffer)
    <3>1. wpc' # "sync" /\ wpc' # "got"
      BY <1>e
    <3> QED BY <1>a, <1>c, <3>1 DEF Received
  <2> QED BY <2>1, <2>2
<1>g. \A u, n : Awaits(u, n) /\ u # cur.who => Awaits(u, n)'
  BY <1>c, <1>d, <1>e DEF Awaits, Inv, TypeOK
<1>1. FileIsLogPrefix' /\ LogIsPositive'
  BY <1>a, <1>b, <1>c, <1>e DEF Inv, TypeOK, FileIsLogPrefix, LogIsPositive,
     DispatchFlush, disk, ghosts
<1>2. BufferContinues' /\ CurContinues'
  BY <1>a, <1>b, <1>c, <1>e DEF Inv, TypeOK, BufferContinues, CurContinues,
     Follows, LifeCycle, DispatchFlush, disk, ghosts
<1>3. ChannelContinues'
  BY <1>c, <1>f DEF Inv, ChannelContinues
<1>4. LifeCycle'
  BY <1>a, <1>b, <1>c, <1>e DEF Inv, TypeOK, LifeCycle, DispatchFlush, disk,
     ghosts
<1>5. ChannelFlushes' /\ FlushesDistinct'
  <2>1. ChannelFlushes'
    BY <1>c, <1>d, <1>g DEF Inv, ChannelFlushes, FlushInHand
  <2>2. FlushesDistinct'
    BY <1>c DEF Inv, FlushesDistinct
  <2> QED BY <2>1, <2>2
<1>6. FlushInHand'
  <2>1. CASE wpc' = "recv"
    BY <2>1 DEF FlushInHand, Flushing
  <2>2. CASE wpc' = "write" /\ replied' = replied
    BY <1>c, <1>d, <1>f, <2>2 DEF Inv, FlushInHand, Awaits
  <2> QED BY <1>e, <2>1, <2>2
<1>7. SyncedBetween' /\ FlushIsSyncPoint'
  <2>1. wpc' # "sync" /\ wpc' # "exited"
    BY <1>e
  <2>2. Len(file) > base => synced = Len(file)
    BY <1>b DEF Inv, SyncedBetween
  <2>3. ASSUME NEW u \in Writers, pc[u] = "flush_wait", replied'[u]
        PROVE  upto[u] <= synced
    <3>1. CASE u # cur.who
      BY <1>e, <2>3, <3>1 DEF Inv, TypeOK, SyncedBetween
    <3>2. CASE u = cur.who
      <4>1. buffer = <<>>
        BY <1>d, <1>e, <2>3, <3>2 DEF Awaits
      <4>2. upto[u] <= Len(file)
        BY <1>a, <1>d, <1>f, <3>2, <4>1 DEF Awaits
      <4>3. upto[u] = 0 \/ upto[u] > base
        BY <2>3 DEF Inv, SyncedBetween
      <4>4. upto[u] \in Nat /\ base \in Nat
        BY DEF Inv, TypeOK
      <4> QED BY <1>a, <2>2, <4>2, <4>3, <4>4
    <3> QED BY <3>1, <3>2
  <2>4. SyncedBetween'
    BY <1>c, <2>1, <2>2, <2>3 DEF Inv, SyncedBetween
  <2> QED BY <1>c, <2>4 DEF Inv, FlushIsSyncPoint
<1> QED BY <1>1, <1>2, <1>3, <1>4, <1>5, <1>6, <1>7 DEF Inv

\* The buffer moves to the end of the file.
LEMMA WriteFileInv ==
  ASSUME Inv, ReliableDisk, NothingHeld, TypeOK', WriteFile
  PROVE  Inv'
<1>a. /\ Len(file) \in Nat /\ Len(log) \in Nat /\ Len(buffer) \in Nat
      /\ Len(chan) \in Nat /\ synced \in 0..Len(file)
      /\ \A i \in 1..Len(chan) : chan[i] \in Command
  BY LenFacts DEF Inv, TypeOK
<1>b. /\ Len(file') = Len(file) + Len(buffer)
      /\ \A i \in 1..Len(file') :
            file'[i] = IF i <= Len(file) THEN file[i] ELSE buffer[i - Len(file)]
  <2>1. file' = file \o buffer
    <3>1. file' = (file \o held) \o buffer
      BY DEF WriteFile, ReliableDisk
    <3> QED BY <3>1, ConcatNothing DEF NothingHeld, Inv, TypeOK
  <2>2. file \in Seq(Nat) /\ buffer \in Seq(Nat)
    BY DEF Inv, TypeOK
  <2>3. Len(file \o buffer) = Len(file) + Len(buffer)
    BY <2>2, ConcatProperties
  <2>4. \A i \in 1..(Len(file) + Len(buffer)) : (file \o buffer)[i] =
           IF i <= Len(file) THEN file[i] ELSE buffer[i - Len(file)]
    BY <2>2, ConcatProperties
  <2> QED BY <2>1, <2>3, <2>4
<1>c. /\ UNCHANGED <<synced, chan, buffer, cur, wthen, running, life, pc, replied,
                     log, base, upto, acked>>
      /\ wpc = "write" /\ wpc' = "sync"
  BY DEF WriteFile, ghosts
<1>d. Received' = Received
  BY <1>a, <1>b, <1>c DEF Received
<1>e. Flushing' = Flushing
  BY <1>c DEF Flushing
<1>1. FileIsLogPrefix' /\ LogIsPositive'
  <2>1. /\ Len(file') <= Len(log)
        /\ \A i \in 1..Len(buffer) : buffer[i] = log[Len(file) + i]
    BY <1>b, <1>c DEF Inv, BufferContinues
  <2>2. ASSUME NEW i \in 1..Len(file') PROVE file'[i] = log[i]
    <3>1. CASE i <= Len(file)
      BY <1>a, <1>b, <3>1 DEF Inv, FileIsLogPrefix
    <3>2. CASE i > Len(file)
      <4>1. i - Len(file) \in 1..Len(buffer) /\ Len(file) + (i - Len(file)) = i
        BY <1>a, <1>b, <3>2
      <4> QED BY <1>a, <1>b, <2>1, <3>2, <4>1
    <3> QED BY <1>a, <1>b, <3>1, <3>2
  <2> QED BY <1>c, <2>1, <2>2 DEF Inv, FileIsLogPrefix, LogIsPositive
<1>2. BufferContinues' /\ CurContinues'
  BY <1>c DEF BufferContinues, CurContinues
<1>3. ChannelContinues'
  BY <1>c, <1>d DEF Inv, ChannelContinues
<1>4. LifeCycle'
  BY <1>a, <1>b, <1>c DEF Inv, TypeOK, LifeCycle, WriteFile, ghosts
<1>5. ChannelFlushes' /\ FlushesDistinct'
  BY <1>c DEF Inv, ChannelFlushes, FlushesDistinct, Awaits
<1>6. FlushInHand'
  BY <1>c, <1>d, <1>e DEF Inv, FlushInHand, Awaits
<1>7. SyncedBetween' /\ FlushIsSyncPoint'
  BY <1>a, <1>b, <1>c DEF Inv, TypeOK, SyncedBetween, FlushIsSyncPoint,
     LifeCycle, WriteFile, ghosts
<1> QED BY <1>1, <1>2, <1>3, <1>4, <1>5, <1>6, <1>7 DEF Inv

\* The fsync covers the file, and with it the flush in hand.
LEMMA SyncFileInv ==
  ASSUME Inv, ReliableDisk, TypeOK', SyncFile
  PROVE  Inv'
<1>a. /\ Len(file) \in Nat /\ Len(log) \in Nat /\ Len(buffer) \in Nat
      /\ Len(chan) \in Nat /\ synced \in 0..Len(file)
      /\ \A i \in 1..Len(chan) : chan[i] \in Command
  BY LenFacts DEF Inv, TypeOK
<1>b. /\ UNCHANGED <<file, cur, running, life, pc, log, base, upto, acked>>
      /\ wpc = "sync" /\ synced' = Len(file)
      /\ buffer' = <<>> /\ Len(buffer') = 0
  BY EmptySeq DEF SyncFile, ReliableDisk, ghosts
<1>c. /\ wthen = "exit" => wpc' = "exited" /\ chan' = <<>> /\ life # "up"
      /\ wthen # "exit" => wpc' = "recv" /\ chan' = chan
      /\ wthen # "reply" => replied' = replied
      /\ wthen = "reply" => replied' = [replied EXCEPT ![cur.who] = TRUE]
  BY DEF SyncFile, Resume, Inv, LifeCycle
<1>d. Received = Len(file)
  BY <1>a, <1>b DEF Received
<1>e. Received' = Len(file)
  BY <1>a, <1>b, <1>c DEF Received
<1>f. wthen = "reply" => Awaits(cur.who, Received)
  BY <1>b DEF Inv, FlushInHand, Flushing
<1>g. \A u, n : Awaits(u, n) /\ (wthen = "reply" => u # cur.who) => Awaits(u, n)'
  BY <1>b, <1>c, <1>f DEF Awaits, Inv, TypeOK
<1>1. FileIsLogPrefix' /\ LogIsPositive'
  BY <1>a, <1>b, <1>c DEF Inv, TypeOK, FileIsLogPrefix, LogIsPositive,
     SyncFile, ghosts
<1>2. BufferContinues' /\ CurContinues'
  <2>1. wpc' # "got" /\ Len(file) + 0 <= Len(log)
    BY <1>a, <1>c DEF Inv, FileIsLogPrefix
  <2>2. 1..0 = {}
    OBVIOUS
  <2> QED BY <1>a, <1>b, <2>1, <2>2 DEF BufferContinues, CurContinues
<1>3. ChannelContinues'
  BY <1>b, <1>c, <1>d, <1>e DEF Inv, ChannelContinues
<1>4. LifeCycle'
  BY <1>a, <1>b, <1>c DEF Inv, TypeOK, LifeCycle, SyncFile, ghosts
<1>5. ChannelFlushes' /\ FlushesDistinct'
  <2>1. CASE wthen = "exit"
    BY <1>c, <2>1, EmptySeq DEF ChannelFlushes, FlushesDistinct
  <2>2. CASE wthen # "exit"
    <3>1. \A i \in 1..Len(chan) :
             chan[i].op = "flush" /\ wthen = "reply" => chan[i].who # cur.who
      BY <1>b DEF Inv, FlushInHand, Flushing
    <3>2. ChannelFlushes'
      BY <1>c, <1>g, <2>2, <3>1 DEF Inv, ChannelFlushes
    <3> QED BY <1>c, <2>2, <3>2 DEF Inv, FlushesDistinct
  <2> QED BY <2>1, <2>2
<1>6. FlushInHand'
  BY <1>c DEF FlushInHand, Flushing
<1>7. SyncedBetween' /\ FlushIsSyncPoint'
  <2>1. ASSUME NEW u \in Writers, pc[u] = "flush_wait", replied'[u]
        PROVE  upto[u] <= Len(file)
    <3>1. CASE replied[u]
      <4>1. upto[u] <= synced /\ upto[u] \in Nat
        BY <2>1, <3>1 DEF Inv, TypeOK, SyncedBetween
      <4> QED BY <1>a, <4>1
    <3>2. CASE ~replied[u]
      <4>1. wthen = "reply" /\ u = cur.who
        BY <1>c, <2>1, <3>2 DEF Inv, TypeOK
      <4> QED BY <1>d, <1>f, <4>1 DEF Awaits
    <3> QED BY <3>1, <3>2
  <2>2. SyncedBetween'
    BY <1>b, <2>1 DEF Inv, SyncedBetween
  <2>3. FlushIsSyncPoint'
    BY <1>a, <1>b DEF Inv, TypeOK, FlushIsSyncPoint
  <2> QED BY <2>2, <2>3
<1> QED BY <1>1, <1>2, <1>3, <1>4, <1>5, <1>6, <1>7 DEF Inv

\* A disk that does not fail leaves nothing in the BufWriter.
LEMMA HeldInv == ASSUME ~DiskMayFail PROVE NothingHeld /\ [Next]_vars => NothingHeld'
<1> SUFFICES ASSUME NothingHeld, [Next]_vars PROVE NothingHeld'
  OBVIOUS
<1>1. CASE Join \/ Crash \/ WriteFile
  BY <1>1 DEF Join, Crash, WriteFile, NothingHeld
<1>2. CASE \/ Spawn \/ BeginClose \/ DropSend \/ ShutdownSend \/ Tick
           \/ Recv \/ RecvTimeout \/ DispatchStopped \/ DispatchRecord
           \/ DispatchFlush \/ CheckSync \/ SyncFile
  BY <1>2 DEF Spawn, BeginClose, DropSend, ShutdownSend, Tick, Recv, RecvTimeout,
     DispatchStopped, DispatchRecord, DispatchFlush, CheckSync, SyncFile, disk,
     NothingHeld
<1>3. ASSUME NEW t \in Writers,
             \/ CallSend(t) \/ Send(t) \/ CallFlush(t) \/ FlushSend(t)
             \/ FlushReturn(t)
      PROVE  NothingHeld'
  BY <1>3 DEF CallSend, Send, CallFlush, FlushSend, FlushReturn, disk, NothingHeld
<1>4. CASE UNCHANGED vars
  BY <1>4 DEF vars, NothingHeld
<1> QED BY <1>1, <1>2, <1>3, <1>4 DEF Next, Closing, WalLoop

\* Every step keeps the invariant.
LEMMA NextInv ==
  ASSUME ReliableDisk PROVE Inv /\ NothingHeld /\ [Next]_vars => Inv'
<1> SUFFICES ASSUME Inv, NothingHeld, [Next]_vars PROVE Inv'
  OBVIOUS
<1>1. CASE UNCHANGED vars
  <2>1. TypeOK' /\ LifeCycle' /\ Received' = Received /\ Flushing' = Flushing
    BY <1>1 DEF vars, Inv, TypeOK, LifeCycle, Received, Flushing
  <2>2. FileIsLogPrefix' /\ LogIsPositive' /\ BufferContinues' /\ CurContinues'
    BY <1>1 DEF vars, Inv, FileIsLogPrefix, LogIsPositive, BufferContinues,
       CurContinues
  <2>3. ChannelContinues'
    BY <1>1, <2>1 DEF vars, Inv, ChannelContinues
  <2>4. ChannelFlushes' /\ FlushesDistinct' /\ FlushInHand'
    BY <1>1, <2>1
    DEF vars, Inv, ChannelFlushes, FlushesDistinct, FlushInHand, Awaits
  <2>5. SyncedBetween' /\ FlushIsSyncPoint'
    BY <1>1 DEF vars, Inv, SyncedBetween, FlushIsSyncPoint
  <2> QED BY <2>1, <2>2, <2>3, <2>4, <2>5 DEF Inv
<1>2. CASE Next
  <2>1. TypeOK'
    BY <1>2, TypeInv DEF Inv
  <2> QED
    BY <1>2, <2>1, SpawnInv, BeginCloseInv, JoinInv, CrashInv, DropSendInv,
       ShutdownSendInv, CallSendInv, SendInv, CallFlushInv, FlushSendInv,
       FlushReturnInv, RecvInv, RecvTimeoutInv, DispatchStoppedInv,
       DispatchRecordInv, DispatchFlushInv, CheckSyncInv, WriteFileInv,
       SyncFileInv, TickInv
    DEF Next, Closing, WalLoop
<1> QED BY <1>1, <1>2

\* Inv holds in every reachable state when the disk does not fail.
THEOREM InvHolds == ASSUME ReliableDisk PROVE Spec => []Inv
<1>1. Inv /\ NothingHeld /\ [Next]_vars => (Inv /\ NothingHeld)'
  BY NextInv, HeldInv DEF ReliableDisk
<1>2. Init => NothingHeld
  BY DEF Init, NothingHeld
<1> QED BY <1>1, <1>2, InitInv, PTL DEF Spec

\* Nor is anything held in the BufWriter then.
THEOREM NothingIsHeld == ASSUME ReliableDisk PROVE Spec => []NothingHeld
<1>1. NothingHeld /\ [Next]_vars => NothingHeld'
  BY HeldInv DEF ReliableDisk
<1>2. Init => NothingHeld
  BY DEF Init, NothingHeld
<1> QED BY <1>1, <1>2, PTL DEF Spec

----------------------------------------------------------------------------
(* What follows from it *)

\* Type correctness, with a disk that may fail too.
THEOREM TypeCorrect == Spec => []TypeOK
<1>1. Init => TypeOK
  BY InitInv DEF Inv
<1>2. TypeOK /\ [Next]_vars => TypeOK'
  BY TypeInv, ZenonT(60) DEF vars, TypeOK
<1> QED BY <1>1, <1>2, PTL DEF Spec

\* G1: the file is always a prefix of what the channel accepted.
THEOREM WriteOrdering == ASSUME ReliableDisk PROVE Spec => []FileIsLogPrefix
<1>1. Inv => FileIsLogPrefix
  BY DEF Inv
<1> QED BY <1>1, InvHolds, PTL

\* G2: whatever a flush that returned has vouched for is fsynced.
THEOREM FlushMakesDurable == ASSUME ReliableDisk PROVE Spec => []FlushIsSyncPoint
<1>1. Inv => FlushIsSyncPoint
  BY DEF Inv
<1> QED BY <1>1, InvHolds, PTL

\* The wake-up record of Drop never reaches the file.
THEOREM WakeStaysOut == ASSUME ReliableDisk PROVE Spec => []WakeIsNotLogged
<1>1. Inv => WakeIsNotLogged
  <2> SUFFICES ASSUME Inv, NEW i \in 1..Len(file) PROVE file[i] # 0
    BY DEF WakeIsNotLogged
  <2>1. Len(file) \in Nat /\ Len(log) \in Nat
    BY SequencesOfInv DEF Inv
  <2>2. i \in 1..Len(log) /\ file[i] = log[i]
    BY <2>1 DEF Inv, FileIsLogPrefix
  <2> QED BY <2>2 DEF Inv, LogIsPositive
<1> QED BY <1>1, InvHolds, PTL

----------------------------------------------------------------------------
(* WalThread implements DurableLog *)

\* A step that leaves the log and both its marks alone stutters.
LEMMA QuietStep ==
  ASSUME UNCHANGED <<log, synced, acked>> PROVE UNCHANGED Contract!vars
  BY DEF Contract!vars

\* Send is AppendWrite, SyncFile is Harden, the return of a flush is
\* Acknowledge, a crash and the end of a close are Lose, the rest stutters.
THEOREM Implementation == ASSUME ReliableDisk PROVE Spec => ImplementsDurableLog
<1>1. Init => Contract!Init
  BY DEF Init, Contract!Init
<1>2. Inv /\ Inv' /\ NothingHeld /\ [Next]_vars => [Contract!Next]_Contract!vars
  <2> SUFFICES ASSUME Inv, Inv', NothingHeld, [Next]_vars
               PROVE  [Contract!Next]_Contract!vars
    OBVIOUS
  <2>0. /\ Len(file) \in Nat /\ Len(log) \in Nat /\ synced \in 0..Len(file)
        /\ Len(file) <= Len(log) /\ \A i \in 1..Len(file) : file[i] = log[i]
        /\ acked \in Nat
    BY LenFacts DEF Inv, TypeOK, FileIsLogPrefix
  <2>1. ASSUME NEW t \in Writers, Send(t) PROVE Contract!AppendWrite
    <3>1. written + 1 \in Nat /\ log \in Seq(Nat)
      BY DEF Inv, TypeOK
    <3>2. Len(log') = Len(log) + 1 /\ \A i \in 1..Len(log) : log'[i] = log[i]
      BY <2>1, <3>1, AppendProperties DEF Send
    <3> QED BY <2>1, <3>2 DEF Send, disk, Contract!AppendWrite
  <2>2. ASSUME NEW t \in Writers, FlushReturn(t) PROVE Contract!Acknowledge
    <3>1. acked' <= synced' /\ acked' \in Nat
      BY DEF Inv, TypeOK, FlushIsSyncPoint
    <3>2. acked' >= acked
      BY <2>2, <2>0 DEF FlushReturn, Inv, TypeOK
    <3> QED BY <2>0, <2>2, <3>1, <3>2 DEF FlushReturn, disk, Contract!Acknowledge
  <2>3. CASE SyncFile
    <3>1. synced' = Len(file) /\ UNCHANGED <<log, acked>>
      BY <2>3 DEF SyncFile, ReliableDisk, ghosts
    <3>2. synced' \in synced..Len(log)
      BY <2>0, <3>1
    <3> QED BY <3>1, <3>2 DEF Contract!Next, Contract!Harden
  <2>4. CASE Crash
    <3>1. PICK k \in synced..Len(file) : log' = SubSeq(file, 1, k)
      BY <2>4 DEF Crash
    <3>2. Len(log') = k /\ \A i \in 1..k : log'[i] = file[i]
      BY <2>0, <3>1, SubSeqFacts DEF Inv, TypeOK
    <3>3. Len(log') \in synced..Len(log) /\ \A i \in 1..Len(log') : log'[i] = log[i]
      BY <2>0, <3>2
    <3> QED BY <2>4, <3>3 DEF Crash, Contract!Next, Contract!Lose
  <2>5. CASE Join
    <3>1. log' = file /\ synced' = synced
      BY <2>5, JoinKeepsFile DEF Inv
    <3> QED BY <2>0, <2>5, <3>1 DEF Join, Contract!Next, Contract!Lose
  <2>6. ASSUME \/ Spawn \/ BeginClose \/ DropSend \/ ShutdownSend
               \/ Recv \/ RecvTimeout \/ DispatchStopped \/ DispatchRecord
               \/ DispatchFlush \/ CheckSync \/ WriteFile \/ Tick
        PROVE  UNCHANGED <<log, synced, acked>>
    BY <2>6
    DEF Spawn, BeginClose, DropSend, ShutdownSend, Recv, RecvTimeout,
        DispatchStopped, DispatchRecord, DispatchFlush, CheckSync, WriteFile,
        Tick, disk, ghosts
  <2>7. ASSUME NEW t \in Writers, CallSend(t) \/ CallFlush(t) \/ FlushSend(t)
        PROVE  UNCHANGED <<log, synced, acked>>
    BY <2>7 DEF CallSend, CallFlush, FlushSend, disk, ghosts
  <2>8. CASE UNCHANGED vars
    BY <2>8, QuietStep DEF vars
  <2> QED
    BY <2>1, <2>2, <2>3, <2>4, <2>5, <2>6, <2>7, <2>8, QuietStep
    DEF Next, Closing, WalLoop, Contract!Next
<1> QED
  BY <1>1, <1>2, InvHolds, NothingIsHeld, PTL
  DEF Spec, ImplementsDurableLog, Contract!Spec
----------------------------------------------------------------------------
(* What holds on a disk that may fail, under every durability level *)

\* Who may do what in which phase of the store's life, whatever the disk does.
LifeInv ==
    /\ life = "up" => running /\ wpc # "exited"
    /\ life \in {"closed", "panicked"} => wpc = "exited"
    /\ life \notin {"up", "closed", "panicked"} => ~running
    /\ wpc = "exited" => buffer = <<>>
    /\ \A t \in Writers : pc[t] # "idle" => life = "up"
    /\ life = "up" /\ wpc \in {"write", "sync"} => wthen # "exit"
    /\ life = "up" /\ wpc = "got" => cur.op \in {"record", "flush"}
    /\ life = "up" => \A i \in 1..Len(chan) : chan[i].op \in {"record", "flush"}

\* The records on their way from the channel to the file: what is in the file,
\* what the BufWriter holds, and the buffer until it has been written.
Piped == IF wpc = "sync" THEN file \o held ELSE (file \o held) \o buffer

InHand == wpc = "got" /\ cur.op = "record"

Increasing(s) == \A i, j \in 1..Len(s) : i < j => s[i] < s[j]

\* They are in order, the record in hand comes after them, and those in the
\* channel after that one.
PipeIsOrdered ==
    /\ Increasing(Piped)
    /\ \A i \in 1..Len(Piped) : /\ Piped[i] <= written
                                /\ InHand => Piped[i] < cur.w
                                /\ \A k \in Records(chan) : Piped[i] < chan[k].w
    /\ InHand => cur.w <= written /\ \A k \in Records(chan) : cur.w < chan[k].w
    /\ \A k \in Records(chan) : chan[k].w <= written
    /\ \A j, k \in Records(chan) : j < k => chan[j].w < chan[k].w

\* s is the beginning of t.
Begins(s, t) == Len(s) <= Len(t) /\ \A i \in 1..Len(s) : s[i] = t[i]

\* The phases, step by step.
LEMMA LifeStep == ASSUME TypeOK, TypeOK', LifeInv, Next PROVE LifeInv'
<1>0. /\ chan \in Seq(Command) /\ Len(chan) \in Nat /\ pc \in [Writers -> {"idle", "send", "flush_send", "flush_wait"}]
      /\ Len(<<>>) = 0
  BY LenFacts DEF TypeOK
<1>1. CASE Spawn
  <2>1. /\ life' \in {"panicked", "up"} /\ (life' = "up" => wpc' = "recv") /\ (life' # "up" => wpc' = "exited")
    BY <1>1 DEF Spawn
  <2>2. buffer' = <<>> /\ chan' = <<>> /\ running' /\ pc' = pc /\ life = "closed" /\ wpc' # "got"
    BY <1>1, <2>1 DEF Spawn
  <2> QED BY <1>0, <2>1, <2>2 DEF LifeInv
<1>2. CASE BeginClose
  BY <1>2 DEF BeginClose, LifeInv, thread
<1>3. CASE DropSend
  BY <1>3 DEF DropSend, LifeInv, thread
<1>4. CASE ShutdownSend
  BY <1>4 DEF ShutdownSend, LifeInv, thread
<1>5. CASE Join
  BY <1>5 DEF Join, LifeInv, thread
<1>6. CASE Crash
  BY <1>6 DEF Crash, LifeInv
<1>7. CASE Recv
  <2>1. /\ wpc = "recv" /\ cur' = chan[1] /\ Len(chan) >= 1 /\ Len(chan') = Len(chan) - 1
        /\ \A i \in 1..Len(chan') : chan'[i] = chan[i + 1]
        /\ UNCHANGED <<buffer, wthen, running, life, pc>> /\ wpc' = "got"
    BY <1>0, <1>7, TailFacts DEF Recv
  <2>2. \A i \in 1..Len(chan') : i + 1 \in 1..Len(chan)
    BY <1>0, <2>1
  <2>3. 1 \in 1..Len(chan)
    BY <1>0, <2>1
  <2> QED BY <2>1, <2>2, <2>3 DEF LifeInv
<1>8. CASE RecvTimeout
  BY <1>8 DEF RecvTimeout, LifeInv
<1>9. CASE DispatchStopped
  <2>1. life # "up" /\ life \notin {"closed", "panicked"}
    BY <1>9 DEF DispatchStopped, LifeInv
  <2>2. /\ UNCHANGED <<buffer, running, life, pc>>
        /\ wpc' \in {"exited", "write"} /\ (wpc' = "exited" => buffer = <<>>)
    BY <1>9 DEF DispatchStopped, FlushAndSync, Resume
  <2> QED BY <2>1, <2>2 DEF LifeInv
<1>10. CASE DispatchRecord
  BY <1>10 DEF DispatchRecord, LifeInv
<1>11. CASE DispatchFlush
  <2>1. life = "up" /\ cur.op = "flush"
    BY <1>11 DEF DispatchFlush, LifeInv, TypeOK
  <2>2. /\ UNCHANGED <<buffer, running, life, pc, cur, chan>>
        /\ \/ wpc' = "recv" \/ (wpc' = "write" /\ wthen' = "reply")
    BY <1>11, <2>1 DEF DispatchFlush, FlushAndSync, Resume
  <2> QED BY <2>1, <2>2 DEF LifeInv
<1>12. CASE CheckSync
  BY <1>12 DEF CheckSync, LifeInv
<1>13. CASE WriteFile
  BY <1>13 DEF WriteFile, LifeInv
<1>14. CASE SyncFile
  <2>1. UNCHANGED <<running, life, pc, cur, wthen>> /\ buffer' = <<>> /\ wpc = "sync"
    BY <1>14 DEF SyncFile
  <2>2. wpc' = (IF wthen = "exit" THEN "exited" ELSE "recv") /\ chan' = (IF wthen = "exit" THEN <<>> ELSE chan)
    BY <1>14 DEF SyncFile, Resume
  <2> QED BY <2>1, <2>2 DEF LifeInv
<1>15. CASE Tick
  BY <1>15 DEF Tick, LifeInv
<1>16. ASSUME NEW t \in Writers, CallSend(t) \/ CallFlush(t) \/ FlushReturn(t) PROVE LifeInv'
  <2>1. UNCHANGED <<chan, buffer, cur, wpc, wthen, running, life>> /\ (life = "up" \/ pc[t] = "flush_wait")
    BY <1>16 DEF CallSend, CallFlush, FlushReturn, thread
  <2>2. \A u \in Writers : u # t => pc'[u] = pc[u]
    BY <1>0, <1>16 DEF CallSend, CallFlush, FlushReturn
  <2> QED BY <2>1, <2>2 DEF LifeInv
<1>17. ASSUME NEW t \in Writers, Send(t) \/ FlushSend(t) PROVE LifeInv'
  <2>1. UNCHANGED <<buffer, cur, wpc, wthen, running, life>> /\ life = "up"
    BY <1>17 DEF Send, FlushSend, thread, LifeInv
  <2>2. PICK c \in Command : chan' = Append(chan, c) /\ c.op \in {"record", "flush"}
    <3>1. CASE Send(t)
      <4>1. Len(log) + 1 \in Nat /\ written + 1 \in Nat
        BY LenFacts, SMTT(30) DEF TypeOK
      <4>2. chan' = Append(chan, Cmd("record", t, written + 1, Len(log) + 1))
        BY <3>1 DEF Send
      <4>3. /\ Cmd("record", t, written + 1, Len(log) + 1) \in Command
            /\ Cmd("record", t, written + 1, Len(log) + 1).op = "record"
        BY <4>1, CmdType
      <4> QED BY <4>2, <4>3
    <3>2. CASE FlushSend(t)
      <4>1. Len(log) \in Nat
        BY LenFacts DEF TypeOK
      <4> QED BY <3>2, <4>1, CmdType, SMTT(30) DEF FlushSend
    <3> QED BY <1>17, <3>1, <3>2
  <2>3. Len(chan') = Len(chan) + 1 /\ chan'[Len(chan) + 1] = c /\ \A i \in 1..Len(chan) : chan'[i] = chan[i]
    BY <1>0, <2>2, AppendProperties
  <2>4. \A i \in 1..Len(chan') : i \in 1..Len(chan) \/ i = Len(chan) + 1
    BY <1>0, <2>3
  <2> QED BY <2>1, <2>2, <2>3, <2>4 DEF LifeInv
<1> QED
  BY <1>1, <1>2, <1>3, <1>4, <1>5, <1>6, <1>7, <1>8, <1>9, <1>10, <1>11, <1>12, <1>13, <1>14, <1>15, <1>16, <1>17
  DEF Next, Closing, WalLoop

\* LifeInv holds on every disk.
LEMMA AlwaysLifeInv == Spec => []LifeInv
<1>1. Init => LifeInv
  BY DEF Init, LifeInv
<1>2. TypeOK /\ LifeInv /\ [Next]_vars => LifeInv'
  <2>1. ASSUME LifeInv, UNCHANGED vars PROVE LifeInv'
    BY <2>1 DEF vars, LifeInv
  <2> QED BY <2>1, LifeStep, TypeInv
<1> QED BY <1>1, <1>2, TypeCorrect, PTL DEF Spec
----------------------------------------------------------------------------
(* The order of the records *)

\* One sequence after another, element by element.
LEMMA ConcatElements ==
  ASSUME NEW s \in Seq(Nat), NEW t \in Seq(Nat)
  PROVE  /\ s \o t \in Seq(Nat) /\ Len(s \o t) = Len(s) + Len(t) /\ Len(s) \in Nat /\ Len(t) \in Nat
         /\ \A i \in 1..Len(s) : (s \o t)[i] = s[i]
         /\ \A i \in 1..Len(t) : (s \o t)[Len(s) + i] = t[i]
         /\ \A i \in 1..Len(s) + Len(t) : i \in 1..Len(s) \/ (i - Len(s) \in 1..Len(t) /\ i = Len(s) + (i - Len(s)))
<1>1. /\ s \o t \in Seq(Nat) /\ Len(s \o t) = Len(s) + Len(t) /\ Len(s) \in Nat /\ Len(t) \in Nat
      /\ \A i \in 1..Len(s) + Len(t) : (s \o t)[i] = IF i <= Len(s) THEN s[i] ELSE t[i - Len(s)]
  BY ConcatProperties, LenProperties
<1>2. \A i \in 1..Len(s) : i \in 1..Len(s) + Len(t) /\ i <= Len(s)
  BY <1>1
<1>3. \A i \in 1..Len(t) : Len(s) + i \in 1..Len(s) + Len(t) /\ ~(Len(s) + i <= Len(s)) /\ (Len(s) + i) - Len(s) = i
  BY <1>1
<1>4. \A i \in 1..Len(s) : (s \o t)[i] = s[i]
  BY <1>1, <1>2
<1>5. \A i \in 1..Len(t) : (s \o t)[Len(s) + i] = t[i]
  BY <1>1, <1>3
<1>6. \A i \in 1..Len(s) + Len(t) : i \in 1..Len(s) \/ (i - Len(s) \in 1..Len(t) /\ i = Len(s) + (i - Len(s)))
  BY <1>1
<1> QED BY <1>1, <1>4, <1>5, <1>6

\* What comes first may be replaced by what it begins with when nothing
\* follows; and a common beginning may be put before both.
LEMMA BeginsFacts ==
  ASSUME NEW s \in Seq(Nat), NEW t \in Seq(Nat)
  PROVE  /\ Begins(s, s) /\ Begins(s, s \o t)
         /\ \A u \in Seq(Nat) : Begins(s, t) => Begins(u \o s, u \o t)
         /\ \A u \in Seq(Nat) : Begins(s, t) /\ Begins(t, u) => Begins(s, u)
<1>1. Len(s) \in Nat /\ Len(t) \in Nat
  BY LenProperties
<1>2. Begins(s, s)
  BY <1>1 DEF Begins
<1>3. Begins(s, s \o t)
  BY ConcatElements DEF Begins
<1>4. ASSUME NEW u \in Seq(Nat), Begins(s, t) PROVE Begins(u \o s, u \o t)
  <2>1. /\ Len(u \o s) = Len(u) + Len(s) /\ Len(u \o t) = Len(u) + Len(t) /\ Len(u) \in Nat
        /\ \A i \in 1..Len(u) : (u \o s)[i] = u[i]
        /\ \A i \in 1..Len(u) : (u \o t)[i] = u[i]
        /\ \A i \in 1..Len(s) : (u \o s)[Len(u) + i] = s[i]
        /\ \A i \in 1..Len(t) : (u \o t)[Len(u) + i] = t[i]
        /\ \A i \in 1..Len(u) + Len(s) : i \in 1..Len(u) \/ (i - Len(u) \in 1..Len(s) /\ i = Len(u) + (i - Len(u)))
    BY ConcatElements
  <2>2. Len(s) <= Len(t) /\ \A i \in 1..Len(s) : i \in 1..Len(t) /\ s[i] = t[i]
    BY <1>1, <1>4 DEF Begins
  <2>3. \A i \in 1..Len(s) : (u \o s)[Len(u) + i] = (u \o t)[Len(u) + i]
    BY <2>1, <2>2
  <2>4. \A i \in 1..Len(u) + Len(s) : (u \o s)[i] = (u \o t)[i]
    <3> SUFFICES ASSUME NEW i \in 1..Len(u) + Len(s) PROVE (u \o s)[i] = (u \o t)[i]
      OBVIOUS
    <3>1. CASE i \in 1..Len(u)
      BY <2>1, <3>1
    <3>2. ASSUME NEW j \in 1..Len(s), i = Len(u) + j PROVE (u \o s)[i] = (u \o t)[i]
      BY <2>3, <3>2
    <3> QED BY <2>1, <3>1, <3>2
  <2>5. Len(u) + Len(s) <= Len(u) + Len(t)
    BY <1>1, <2>1, <2>2
  <2> QED BY <2>1, <2>4, <2>5 DEF Begins
<1>5. ASSUME NEW u \in Seq(Nat), Begins(s, t), Begins(t, u) PROVE Begins(s, u)
  <2>1. Len(u) \in Nat
    BY LenProperties
  <2>2. Len(s) <= Len(t) /\ Len(t) <= Len(u)
    BY <1>5 DEF Begins
  <2>3. \A i \in 1..Len(s) : i \in 1..Len(t) /\ s[i] = t[i]
    BY <1>1, <1>5, <2>2 DEF Begins
  <2>4. \A i \in 1..Len(s) : s[i] = u[i]
    BY <1>5, <2>3 DEF Begins
  <2>5. Len(s) <= Len(u)
    BY <1>1, <2>1, <2>2
  <2> QED BY <2>4, <2>5 DEF Begins
<1> QED BY <1>2, <1>3, <1>4, <1>5

\* What a sequence begins with begins it however much is put after it.
LEMMA BeginsFurther ==
  ASSUME NEW s \in Seq(Nat), NEW t \in Seq(Nat), NEW u \in Seq(Nat)
  PROVE  Begins(s, s \o t) /\ Begins(s, (s \o t) \o u)
<1> DEFINE v == s \o t
           w == v \o u
<1>1. Begins(s, v) /\ v \in Seq(Nat)
  BY BeginsFacts, ConcatElements
<1> HIDE DEF v
<1>2. Begins(v, w) /\ w \in Seq(Nat)
  BY <1>1, BeginsFacts, ConcatElements
<1> HIDE DEF w
<1>3. Begins(s, w)
  BY <1>1, <1>2, BeginsFacts
<1> QED BY <1>1, <1>3 DEF v, w

\* Putting sequences one after another is associative.
LEMMA Associates ==
  ASSUME NEW s \in Seq(Nat), NEW t \in Seq(Nat), NEW u \in Seq(Nat)
  PROVE  (s \o t) \o u = s \o (t \o u)
  BY ConcatAssociative, SMTT(60)

\* The rest of a sequence, element by element.
LEMMA SuffixFacts ==
  ASSUME NEW s \in Seq(Nat), NEW j \in Nat
  PROVE  LET t == SubSeq(s, j + 1, Len(s))
         IN  /\ t \in Seq(Nat) /\ Len(t) = (IF j <= Len(s) THEN Len(s) - j ELSE 0)
             /\ \A i \in 1..Len(t) : t[i] = s[j + i]
<1> DEFINE n == Len(s)
           t == SubSeq(s, j + 1, n)
<1>1. n \in Nat /\ \A i \in 1..n : s[i] \in Nat
  BY LenFacts
<1>2. t \in Seq(Nat)
  BY SuffixType
<1> HIDE DEF n
<1>3. j + 1 \in Int /\ n \in Int /\ \A i \in j + 1..n : s[i] \in Nat
  BY <1>1
<1>4. /\ Len(t) = (IF j + 1 <= n THEN n - (j + 1) + 1 ELSE 0)
      /\ \A i \in 1..n - (j + 1) + 1 : t[i] = s[(j + 1) + i - 1]
  BY <1>3, SubSeqProperties
<1> HIDE DEF t
<1>5. Len(t) = (IF j <= n THEN n - j ELSE 0)
  BY <1>1, <1>4
<1>6. ASSUME NEW i \in 1..Len(t) PROVE t[i] = s[j + i]
  <2>1. i \in 1..n - (j + 1) + 1 /\ (j + 1) + i - 1 = j + i
    BY <1>1, <1>5
  <2> QED BY <1>4, <2>1
<1> QED BY <1>2, <1>5, <1>6 DEF n, t

\* Cutting a sequence in two, and what a failed write leaves of it: the whole
\* batch, or only what the BufWriter had before.
LEMMA CutFacts ==
  ASSUME NEW h \in Seq(Nat), NEW b \in Seq(Nat), NEW j \in 0..Len(h \o b)
  PROVE  LET all == h \o b
             x == SubSeq(all, 1, j)
             y == SubSeq(all, j + 1, Len(all))
             z == SubSeq(h, j + 1, Len(h))
         IN  /\ x \in Seq(Nat) /\ y \in Seq(Nat) /\ z \in Seq(Nat)
             /\ Begins(x, all) /\ Begins(x \o y, all) /\ Begins(x \o z, all)
<1> DEFINE all == h \o b
           x == SubSeq(all, 1, j)
           y == SubSeq(all, j + 1, Len(all))
           z == SubSeq(h, j + 1, Len(h))
<1>1. /\ all \in Seq(Nat) /\ Len(all) = Len(h) + Len(b) /\ Len(h) \in Nat /\ Len(b) \in Nat
      /\ \A i \in 1..Len(h) : all[i] = h[i]
  BY ConcatElements
<1> HIDE DEF all
<1>2. j \in 0..Len(all) /\ Len(all) \in Nat /\ j \in Nat
  BY <1>1 DEF all
<1>3. x \in Seq(Nat) /\ Len(x) = j /\ \A i \in 1..j : x[i] = all[i]
  BY <1>1, <1>2, SubSeqFacts
<1>4. /\ y \in Seq(Nat) /\ Len(y) = Len(all) - j /\ \A i \in 1..Len(all) - j : y[i] = all[j + i]
  <2>1. /\ y \in Seq(Nat) /\ Len(y) = (IF j <= Len(all) THEN Len(all) - j ELSE 0)
        /\ \A i \in 1..Len(y) : y[i] = all[j + i]
    BY <1>1, <1>2, SuffixFacts
  <2>2. j <= Len(all)
    BY <1>2
  <2> QED BY <2>1, <2>2
<1>5. /\ z \in Seq(Nat) /\ Len(z) = (IF j <= Len(h) THEN Len(h) - j ELSE 0)
      /\ \A i \in 1..Len(z) : z[i] = h[j + i]
  BY <1>2, SuffixFacts
<1> HIDE DEF x, y, z
<1>6. Begins(x, all)
  BY <1>2, <1>3 DEF Begins
<1>7. Begins(x \o y, all)
  <2>1. /\ Len(x \o y) = j + Len(y)
        /\ \A i \in 1..j : (x \o y)[i] = x[i]
        /\ \A i \in 1..Len(y) : (x \o y)[j + i] = y[i]
        /\ \A i \in 1..j + Len(y) : i \in 1..j \/ (i - j \in 1..Len(y) /\ i = j + (i - j))
    BY <1>3, <1>4, ConcatElements, ZenonT(60)
  <2>2. \A i \in 1..Len(y) : (x \o y)[j + i] = all[j + i]
    BY <1>4, <2>1
  <2>3. \A i \in 1..j : (x \o y)[i] = all[i]
    BY <1>3, <2>1
  <2>4. \A i \in 1..j + Len(y) : (x \o y)[i] = all[i]
    BY <2>1, <2>2, <2>3
  <2> QED BY <1>2, <1>4, <2>1, <2>4 DEF Begins
<1>8. Begins(x \o z, all)
  <2>1. /\ Len(x \o z) = j + Len(z) /\ Len(z) \in Nat
        /\ \A i \in 1..j : (x \o z)[i] = x[i]
        /\ \A i \in 1..Len(z) : (x \o z)[j + i] = z[i]
        /\ \A i \in 1..j + Len(z) : i \in 1..j \/ (i - j \in 1..Len(z) /\ i = j + (i - j))
    <3>1. x \in Seq(Nat) /\ z \in Seq(Nat) /\ Len(x) = j
      BY <1>3, <1>5
    <3>2. /\ Len(x \o z) = Len(x) + Len(z) /\ Len(z) \in Nat
          /\ \A i \in 1..Len(x) : (x \o z)[i] = x[i]
          /\ \A i \in 1..Len(z) : (x \o z)[Len(x) + i] = z[i]
          /\ \A i \in 1..Len(x) + Len(z) : i \in 1..Len(x) \/ (i - Len(x) \in 1..Len(z) /\ i = Len(x) + (i - Len(x)))
      BY <3>1, ConcatElements
    <3> QED BY <3>1, <3>2
  <2>2. \A i \in 1..Len(z) : j + i \in 1..Len(h)
    BY <1>1, <1>2, <1>5
  <2>3. \A i \in 1..Len(z) : (x \o z)[j + i] = all[j + i]
    BY <1>1, <1>5, <2>1, <2>2
  <2>4. \A i \in 1..j : (x \o z)[i] = all[i]
    BY <1>3, <2>1
  <2>5. \A i \in 1..j + Len(z) : (x \o z)[i] = all[i]
    BY <2>1, <2>3, <2>4
  <2>6. j + Len(z) <= Len(all)
    BY <1>1, <1>2, <1>5
  <2> QED BY <2>1, <2>5, <2>6 DEF Begins
<1> QED BY <1>3, <1>4, <1>5, <1>6, <1>7, <1>8 DEF x, y, z, all

\* A step that takes nothing new in.
LEMMA PipeKeeps ==
  ASSUME TypeOK, TypeOK', PipeIsOrdered, Begins(Piped', Piped), Piped \in Seq(Nat), written' = written,
         InHand' => InHand /\ cur' = cur,
         \A k \in Records(chan') : k \in Records(chan) /\ chan'[k] = chan[k]
  PROVE  PipeIsOrdered'
<1> DEFINE p == Piped
           q == Piped'
<1>1. Len(p) \in Nat /\ Len(q) <= Len(p) /\ \A i \in 1..Len(q) : q[i] = p[i]
  BY LenProperties DEF Begins
<1>2. Len(q) \in Int => \A i \in 1..Len(q) : i \in 1..Len(p) /\ q[i] = p[i]
  BY <1>1
<1>3. Len(q) \in Nat
  <2>1. file' \in Seq(Nat) /\ held' \in Seq(Nat) /\ buffer' \in Seq(Nat)
    BY DEF TypeOK
  <2>2. q = (IF wpc' = "sync" THEN file' \o held' ELSE (file' \o held') \o buffer')
    BY DEF Piped
  <2>3. q \in Seq(Nat)
    BY <2>1, <2>2, ConcatElements
  <2> QED BY <2>3, LenProperties
<1>4. Increasing(p) /\ \A i \in 1..Len(p) : p[i] <= written /\ (InHand => p[i] < cur.w) /\ \A k \in Records(chan) : p[i] < chan[k].w
  BY DEF PipeIsOrdered
<1>5. PipeIsOrdered' <=>
        /\ Increasing(q)
        /\ \A i \in 1..Len(q) : q[i] <= written' /\ (InHand' => q[i] < cur'.w) /\ \A k \in Records(chan') : q[i] < chan'[k].w
        /\ InHand' => cur'.w <= written' /\ \A k \in Records(chan') : cur'.w < chan'[k].w
        /\ \A k \in Records(chan') : chan'[k].w <= written'
        /\ \A j, k \in Records(chan') : j < k => chan'[j].w < chan'[k].w
  BY DEF PipeIsOrdered, Increasing, Records
<1> HIDE DEF p, q
<1>6. \A i \in 1..Len(q) : i \in 1..Len(p) /\ q[i] = p[i]
  BY <1>2, <1>3
<1>7. Increasing(q)
  BY <1>4, <1>6 DEF Increasing
<1>8. \A i \in 1..Len(q) : q[i] <= written' /\ (InHand' => q[i] < cur'.w) /\ \A k \in Records(chan') : q[i] < chan'[k].w
  BY <1>4, <1>6
<1>9. /\ InHand' => cur'.w <= written' /\ \A k \in Records(chan') : cur'.w < chan'[k].w
      /\ \A k \in Records(chan') : chan'[k].w <= written'
      /\ \A j, k \in Records(chan') : j < k => chan'[j].w < chan'[k].w
  BY DEF PipeIsOrdered
<1> QED BY <1>5, <1>7, <1>8, <1>9

\* One more command in the channel.
LEMMA RecordsAppend ==
  ASSUME NEW s \in Seq(Command), NEW c \in Command
  PROVE  /\ Records(Append(s, c)) = (IF c.op = "record" THEN Records(s) \cup {Len(s) + 1} ELSE Records(s))
         /\ Len(s) + 1 \notin Records(s)
         /\ \A k \in Records(s) : k \in 1..Len(s) /\ Append(s, c)[k] = s[k] /\ k < Len(s) + 1
         /\ Append(s, c)[Len(s) + 1] = c /\ Len(s) \in Nat
<1>1. Len(s) \in Nat /\ DOMAIN s = 1..Len(s)
  BY LenProperties
<1>2. /\ DOMAIN Append(s, c) = 1..Len(s) + 1 /\ Append(s, c)[Len(s) + 1] = c
      /\ \A i \in 1..Len(s) : Append(s, c)[i] = s[i]
  <2>1. Append(s, c) \in Seq(Command) /\ Len(Append(s, c)) = Len(s) + 1
    BY AppendProperties
  <2> QED BY <2>1, AppendProperties, LenProperties
<1>3. \A i : i \in 1..Len(s) + 1 <=> i \in 1..Len(s) \/ i = Len(s) + 1
  BY <1>1
<1>4. Len(s) + 1 \notin 1..Len(s) /\ \A i \in 1..Len(s) : i < Len(s) + 1
  BY <1>1
<1> QED BY <1>1, <1>2, <1>3, <1>4 DEF Records

\* The first command is taken out of the channel.
LEMMA RecordsTail ==
  ASSUME NEW s \in Seq(Command), s # <<>>
  PROVE  /\ \A k \in Records(Tail(s)) : k + 1 \in Records(s) /\ Tail(s)[k] = s[k + 1] /\ k \in Nat /\ 1 < k + 1
         /\ \A k \in Records(s) : k # 1 => k - 1 \in Records(Tail(s)) /\ (k - 1) + 1 = k
         /\ 1 \in Records(s) <=> s[1].op = "record"
<1>1. /\ Tail(s) \in Seq(Command) /\ Len(s) \in Nat \ {0} /\ Len(Tail(s)) = Len(s) - 1
      /\ \A i \in 1..Len(Tail(s)) : Tail(s)[i] = s[i + 1]
  BY TailFacts
<1>2. DOMAIN s = 1..Len(s) /\ DOMAIN Tail(s) = 1..Len(s) - 1
  BY <1>1, LenProperties
<1>3. \A k \in 1..Len(s) - 1 : k + 1 \in 1..Len(s) /\ k \in Nat /\ 1 < k + 1
  BY <1>1
<1>4. \A k \in 1..Len(s) : k # 1 => k - 1 \in 1..Len(s) - 1 /\ (k - 1) + 1 = k
  BY <1>1
<1>5. 1 \in 1..Len(s)
  BY <1>1
<1> QED BY <1>1, <1>2, <1>3, <1>4, <1>5 DEF Records

\* The records of the pipe are numbers.
LEMMA PipedType == ASSUME TypeOK PROVE Piped \in Seq(Nat)
<1>1. file \in Seq(Nat) /\ held \in Seq(Nat) /\ buffer \in Seq(Nat)
  BY DEF TypeOK
<1> QED BY <1>1, ConcatElements DEF Piped

\* A step that leaves the file, the BufWriter and the buffer alone.
LEMMA PipedStays ==
  ASSUME UNCHANGED <<file, held, buffer>>, wpc' = wpc \/ (wpc # "sync" /\ wpc' # "sync")
  PROVE  Piped' = Piped
  BY DEF Piped

\* Every step keeps the records in order.
LEMMA OrderStep ==
  ASSUME TypeOK, TypeOK', LifeInv, PipeIsOrdered, Next PROVE PipeIsOrdered'
<1>0. /\ file \in Seq(Nat) /\ held \in Seq(Nat) /\ buffer \in Seq(Nat) /\ chan \in Seq(Command)
      /\ written \in Nat /\ Piped \in Seq(Nat) /\ Len(log) \in Nat /\ cur \in Command /\ <<>> \in Seq(Nat)
      /\ file \o held \in Seq(Nat) /\ Len(chan) \in Nat
  <2>1. /\ file \in Seq(Nat) /\ held \in Seq(Nat) /\ buffer \in Seq(Nat) /\ chan \in Seq(Command)
        /\ written \in Nat /\ cur \in Command /\ log \in Seq(Nat)
    BY DEF TypeOK
  <2>2. Len(log) \in Nat /\ Len(chan) \in Nat
    BY <2>1, LenProperties
  <2>3. file \o held \in Seq(Nat)
    BY <2>1, ConcatElements
  <2>4. <<>> \in Seq(Nat)
    OBVIOUS
  <2> QED BY <2>1, <2>2, <2>3, <2>4, PipedType
<1>a. Begins(Piped, Piped)
  BY <1>0, BeginsFacts
<1>b. Records(<<>>) = {}
  BY DEF Records
\* What PipeKeeps asks of the channel.
<1> DEFINE Kept == \A k \in Records(chan') : k \in Records(chan) /\ chan'[k] = chan[k]
<1>c. chan' = chan \/ chan' = <<>> => Kept
  BY <1>b
<1>d. ASSUME Begins(Piped', Piped), written' = written, InHand' => InHand /\ cur' = cur, Kept PROVE PipeIsOrdered'
  BY <1>0, <1>d, PipeKeeps
<1>e. ASSUME NEW c \in Command, c.op # "record", chan' = Append(chan, c) PROVE Kept
  BY <1>0, <1>e, RecordsAppend
<1> HIDE DEF Kept
<1>1. CASE Spawn
  <2>1. /\ UNCHANGED <<file, held, written>> /\ buffer' = <<>> /\ chan' = <<>> /\ wpc' \in {"exited", "recv"}
        /\ wpc = "exited" /\ buffer = <<>>
    BY <1>1 DEF Spawn, disk, LifeInv
  <2>2. Piped' = Piped /\ ~InHand'
    BY <2>1 DEF Piped, InHand
  <2> QED BY <1>a, <1>c, <1>d, <2>1, <2>2
<1>2. CASE BeginClose \/ Tick
  <2>1. UNCHANGED <<file, held, buffer, wpc, cur, chan, written>>
    BY <1>2 DEF BeginClose, Tick, disk, thread, ghosts
  <2>2. Piped' = Piped /\ InHand' = InHand
    BY <2>1 DEF Piped, InHand
  <2> QED BY <1>a, <1>c, <1>d, <2>1, <2>2
<1>3. CASE DropSend \/ ShutdownSend
  <2>1. UNCHANGED <<file, held, buffer, wpc, cur, written>>
    BY <1>3 DEF DropSend, ShutdownSend, disk, thread, ghosts
  <2>2. Piped' = Piped /\ InHand' = InHand
    BY <2>1 DEF Piped, InHand
  <2>3. /\ Cmd("wake", Nobody, 0, Len(log)) \in Command /\ Cmd("wake", Nobody, 0, Len(log)).op # "record"
        /\ Cmd("shutdown", Nobody, 0, Len(log)) \in Command /\ Cmd("shutdown", Nobody, 0, Len(log)).op # "record"
    BY <1>0, CmdType, SMTT(30)
  <2>4. \/ chan' = chan \/ chan' = Append(chan, Cmd("wake", Nobody, 0, Len(log)))
        \/ chan' = Append(chan, Cmd("shutdown", Nobody, 0, Len(log)))
    BY <1>3 DEF DropSend, ShutdownSend
  <2>5. Kept
    BY <1>c, <1>e, <2>3, <2>4
  <2> QED BY <1>a, <1>d, <2>1, <2>2, <2>5
<1>4. CASE Join
  <2>1. PICK j \in 0..Len(held) : file' = file \o SubSeq(held, 1, j)
    BY <1>4 DEF Join
  <2>2. /\ held' = <<>> /\ wpc = "exited" /\ UNCHANGED <<buffer, wpc, cur, chan, written>> /\ buffer = <<>>
    BY <1>4 DEF Join, thread, LifeInv
  <2>3. /\ SubSeq(held, 1, j) \in Seq(Nat) /\ Begins(SubSeq(held, 1, j), held)
    <3>1. SubSeq(held, 1, j) \in Seq(Nat) /\ Len(SubSeq(held, 1, j)) = j /\ \A i \in 1..j : SubSeq(held, 1, j)[i] = held[i]
      BY <1>0, SubSeqFacts
    <3>2. j <= Len(held)
      BY <1>0, LenProperties
    <3> QED BY <3>1, <3>2 DEF Begins
  <2>4. Begins(file \o SubSeq(held, 1, j), file \o held)
    BY <1>0, <2>3, BeginsFacts
  <2>5. Piped' = file \o SubSeq(held, 1, j) /\ Piped = file \o held
    <3>1. Piped' = (file' \o <<>>) \o <<>> /\ Piped = (file \o held) \o <<>>
      BY <2>2 DEF Piped
    <3>2. file' \in Seq(Nat)
      BY DEF TypeOK
    <3> QED BY <1>0, <2>1, <3>1, <3>2, ConcatNothing
  <2>6. InHand' = InHand
    BY <2>2 DEF InHand
  <2> QED BY <1>c, <1>d, <2>2, <2>4, <2>5, <2>6
<1>5. CASE Crash
  <2>1. PICK k \in synced..Len(file) : file' = SubSeq(file, 1, k)
    BY <1>5 DEF Crash
  <2>2. held' = <<>> /\ buffer' = <<>> /\ chan' = <<>> /\ wpc' = "exited" /\ written' = written
    BY <1>5 DEF Crash
  <2>3. Begins(file', file)
    <3>1. k \in 0..Len(file) /\ k <= Len(file)
      BY <1>0, LenProperties DEF TypeOK
    <3>2. Len(file') = k /\ \A i \in 1..k : file'[i] = file[i]
      BY <1>0, <2>1, <3>1, SubSeqFacts
    <3> QED BY <3>1, <3>2 DEF Begins
  <2>4. Piped' = file'
    <3>1. Piped' = (file' \o <<>>) \o <<>> /\ file' \in Seq(Nat)
      BY <2>2 DEF Piped, TypeOK
    <3> QED BY <3>1, ConcatNothing
  <2>5. Begins(file, file \o held) /\ Begins(file, (file \o held) \o buffer)
    BY <1>0, BeginsFurther
  <2>6. Begins(file', Piped)
    <3>1. Begins(file, Piped)
      BY <2>5 DEF Piped
    <3>2. file' \in Seq(Nat)
      BY DEF TypeOK
    <3> QED BY <1>0, <2>3, <3>1, <3>2, BeginsFacts
  <2>7. ~InHand'
    BY <2>2 DEF InHand
  <2> QED BY <1>c, <1>d, <2>2, <2>4, <2>6, <2>7
<1>6. CASE Recv
  <2>1. /\ wpc = "recv" /\ chan # <<>> /\ cur' = Head(chan) /\ chan' = Tail(chan) /\ wpc' = "got"
        /\ UNCHANGED <<file, held, buffer, written>>
    BY <1>6 DEF Recv, disk, ghosts
  <2>2. Piped' = Piped
    BY <2>1, PipedStays
  <2>3. cur' = chan[1]
    BY <1>0, <2>1, TailFacts
  <2>4. /\ \A k \in Records(chan') : k + 1 \in Records(chan) /\ chan'[k] = chan[k + 1] /\ k \in Nat /\ 1 < k + 1
        /\ 1 \in Records(chan) <=> chan[1].op = "record"
    BY <1>0, <2>1, RecordsTail
  <2>5. InHand' => 1 \in Records(chan)
    BY <2>3, <2>4 DEF InHand
  <2> DEFINE p == Piped
  <2>6. /\ Increasing(p) /\ \A i \in 1..Len(p) : p[i] <= written /\ \A k \in Records(chan) : p[i] < chan[k].w
        /\ \A k \in Records(chan) : chan[k].w <= written
        /\ \A j, k \in Records(chan) : j < k => chan[j].w < chan[k].w
    BY DEF PipeIsOrdered
  <2> HIDE DEF p
  <2>7. \A i \in 1..Len(p) : p[i] <= written' /\ (InHand' => p[i] < cur'.w) /\ \A k \in Records(chan') : p[i] < chan'[k].w
    BY <2>1, <2>3, <2>4, <2>5, <2>6
  <2>8. InHand' => cur'.w <= written' /\ \A k \in Records(chan') : cur'.w < chan'[k].w
    BY <2>1, <2>3, <2>4, <2>5, <2>6
  <2>9. \A k \in Records(chan') : chan'[k].w <= written'
    BY <2>1, <2>4, <2>6
  <2>10. \A j, k \in Records(chan') : j < k => chan'[j].w < chan'[k].w
    <3> SUFFICES ASSUME NEW j \in Records(chan'), NEW k \in Records(chan'), j < k PROVE chan'[j].w < chan'[k].w
      OBVIOUS
    <3>1. j + 1 < k + 1
      BY <2>4
    <3> QED BY <2>4, <2>6, <3>1
  <2>11. Records(chan)' = Records(chan')
    BY DEF Records
  <2> QED BY <2>2, <2>6, <2>7, <2>8, <2>9, <2>10, <2>11 DEF PipeIsOrdered, p
<1>7. CASE RecvTimeout \/ CheckSync
  <2>1. /\ UNCHANGED <<file, held, buffer, cur, chan, written>> /\ wpc # "sync" /\ wpc' # "sync" /\ wpc' # "got"
    BY <1>7 DEF RecvTimeout, CheckSync, disk, ghosts
  <2>2. Piped' = Piped /\ ~InHand'
    BY <2>1, PipedStays DEF InHand
  <2> QED BY <1>a, <1>c, <1>d, <2>1, <2>2
<1>8. CASE DispatchStopped \/ DispatchFlush
  <2>1. /\ UNCHANGED <<file, held, buffer, cur, written>> /\ (chan' = chan \/ chan' = <<>>)
        /\ wpc = "got" /\ wpc' \in {"exited", "recv", "write"}
    BY <1>8 DEF DispatchStopped, DispatchFlush, FlushAndSync, Resume, disk, ghosts
  <2>2. Piped' = Piped /\ ~InHand'
    BY <2>1, PipedStays DEF InHand
  <2> QED BY <1>a, <1>c, <1>d, <2>1, <2>2
<1>9. CASE DispatchRecord
  <2>1. /\ wpc = "got" /\ running /\ buffer' = Append(buffer, cur.w) /\ wpc' = "check"
        /\ UNCHANGED <<file, held, cur, chan, written>> /\ cur.op \in {"record", "wake"}
    BY <1>9 DEF DispatchRecord, disk, ghosts
  <2>2. life = "up" /\ cur.op = "record"
    <3>1. life = "up"
      BY <2>1 DEF LifeInv
    <3> QED BY <2>1, <3>1 DEF LifeInv
  <2>3. InHand /\ ~InHand' /\ cur.w \in Nat
    BY <1>0, <2>1, <2>2, CommandFields DEF InHand
  <2> DEFINE p == Piped
             q == Piped'
  <2>4. q = Append(p, cur.w)
    <3> DEFINE u == file \o held
    <3>1. q = u \o Append(buffer, cur.w) /\ p = u \o buffer /\ u \in Seq(Nat)
      BY <1>0, <2>1 DEF Piped
    <3> HIDE DEF u, q, p
    <3>2. Append(buffer, cur.w) = buffer \o <<cur.w>> /\ <<cur.w>> \in Seq(Nat)
      BY <1>0, <2>3, AppendIsConcat
    <3>3. u \o (buffer \o <<cur.w>>) = (u \o buffer) \o <<cur.w>>
      BY <1>0, <3>1, <3>2, Associates, ZenonT(60)
    <3>4. p \in Seq(Nat)
      BY <1>0 DEF p
    <3>5. Append(p, cur.w) = p \o <<cur.w>>
      BY <2>3, <3>4, AppendIsConcat
    <3> QED BY <3>1, <3>2, <3>3, <3>5
  <2>5. /\ Increasing(p) /\ \A i \in 1..Len(p) : p[i] <= written /\ p[i] < cur.w /\ \A k \in Records(chan) : p[i] < chan[k].w
        /\ cur.w <= written /\ \A k \in Records(chan) : cur.w < chan[k].w
        /\ \A k \in Records(chan) : chan[k].w <= written
        /\ \A j, k \in Records(chan) : j < k => chan[j].w < chan[k].w
    BY <2>3 DEF PipeIsOrdered
  <2>6. p \in Seq(Nat)
    BY <1>0
  <2>7. PipeIsOrdered' <=>
        /\ Increasing(q)
        /\ \A i \in 1..Len(q) : q[i] <= written /\ \A k \in Records(chan) : q[i] < chan[k].w
        /\ \A k \in Records(chan) : chan[k].w <= written
        /\ \A j, k \in Records(chan) : j < k => chan[j].w < chan[k].w
    BY <2>1, <2>3 DEF PipeIsOrdered, Increasing, Records
  <2> HIDE DEF p, q
  <2>8. Len(q) = Len(p) + 1 /\ Len(p) \in Nat /\ q[Len(p) + 1] = cur.w /\ \A i \in 1..Len(p) : q[i] = p[i]
    BY <2>3, <2>4, <2>6, AppendProperties, LenProperties
  <2>9. \A i \in 1..Len(q) : i \in 1..Len(p) \/ i = Len(p) + 1
    BY <2>8
  <2>10. Increasing(q)
    <3> SUFFICES ASSUME NEW i \in 1..Len(q), NEW j \in 1..Len(q), i < j PROVE q[i] < q[j]
      BY DEF Increasing
    <3>1. i \in 1..Len(p)
      BY <2>8
    <3> QED BY <2>5, <2>8, <2>9, <3>1 DEF Increasing
  <2>11. \A i \in 1..Len(q) : q[i] <= written /\ \A k \in Records(chan) : q[i] < chan[k].w
    BY <2>5, <2>8, <2>9
  <2> QED BY <2>5, <2>7, <2>10, <2>11
<1>10. CASE WriteFile
  <2>1. wpc = "write" /\ wpc' = "sync" /\ UNCHANGED <<buffer, cur, chan, written>>
    BY <1>10 DEF WriteFile, ghosts
  <2>2. Piped' = file' \o held' /\ Piped = (file \o held) \o buffer /\ ~InHand'
    BY <2>1 DEF Piped, InHand
  <2> DEFINE all == held \o buffer
  <2>3. Piped = file \o all /\ all \in Seq(Nat)
    <3>1. all \in Seq(Nat)
      BY <1>0, ConcatElements
    <3>2. (file \o held) \o buffer = file \o (held \o buffer)
      <4>1. file \in Seq(Nat) /\ held \in Seq(Nat) /\ buffer \in Seq(Nat)
        BY <1>0
      <4> QED BY <4>1, Associates
    <3> QED BY <2>2, <3>1, <3>2
  <2>4. CASE file' = (file \o held) \o buffer /\ held' = <<>>
    <3>1. Piped' = Piped
      <4>1. file' \in Seq(Nat)
        BY DEF TypeOK
      <4>2. file' \o <<>> = file'
        BY <4>1, ConcatNothing
      <4> QED BY <2>2, <2>4, <4>2
    <3> QED BY <1>a, <1>c, <1>d, <2>1, <2>2, <3>1
  <2>5. ASSUME NEW j \in 0..Len(all), file' = file \o SubSeq(all, 1, j),
               held' \in {SubSeq(all, j + 1, Len(all)), SubSeq(held, j + 1, Len(held))}
        PROVE  PipeIsOrdered'
    <3> DEFINE x == SubSeq(all, 1, j)
               y == SubSeq(all, j + 1, Len(all))
               z == SubSeq(held, j + 1, Len(held))
    <3>1. x \in Seq(Nat) /\ y \in Seq(Nat) /\ z \in Seq(Nat) /\ Begins(x \o y, all) /\ Begins(x \o z, all)
      BY <1>0, CutFacts
    <3>2. file' = file \o x /\ held' \in {y, z}
      BY <2>5
    <3> HIDE DEF x, y, z, all
    <3>3. ASSUME NEW r \in Seq(Nat), Begins(x \o r, all) PROVE Begins((file \o x) \o r, file \o all)
      <4>1. x \o r \in Seq(Nat)
        BY <3>1, ConcatElements
      <4>2. Begins(file \o (x \o r), file \o all)
        BY <1>0, <2>3, <3>3, <4>1, BeginsFacts
      <4>3. (file \o x) \o r = file \o (x \o r)
        <5>1. file \in Seq(Nat) /\ x \in Seq(Nat) /\ r \in Seq(Nat)
          BY <1>0, <3>1
        <5> HIDE DEF x
        <5> QED BY <5>1, Associates
      <4> QED BY <4>2, <4>3
    <3>4. Begins(Piped', Piped)
      BY <2>2, <2>3, <3>1, <3>2, <3>3
    <3> QED BY <1>c, <1>d, <2>1, <2>2, <3>4
  <2> QED BY <1>10, <2>4, <2>5 DEF WriteFile
<1>11. CASE SyncFile
  <2>1. wpc = "sync" /\ wpc' \in {"exited", "recv"} /\ UNCHANGED <<file, held, cur, written>> /\ buffer' = <<>> /\ (chan' = chan \/ chan' = <<>>)
    BY <1>11 DEF SyncFile, Resume, ghosts
  <2>2. Piped' = Piped
    <3>1. Piped' = (file \o held) \o <<>> /\ Piped = file \o held
      BY <2>1 DEF Piped
    <3> QED BY <1>0, <3>1, ConcatNothing
  <2>3. ~InHand'
    BY <2>1 DEF InHand
  <2> QED BY <1>a, <1>c, <1>d, <2>1, <2>2, <2>3
<1>12. ASSUME NEW t \in Writers, CallSend(t) \/ CallFlush(t) \/ FlushReturn(t) PROVE PipeIsOrdered'
  <2>1. UNCHANGED <<file, held, buffer, wpc, cur, chan, written>>
    BY <1>12 DEF CallSend, CallFlush, FlushReturn, disk, thread, ghosts
  <2>2. Piped' = Piped /\ InHand' = InHand
    BY <2>1 DEF Piped, InHand
  <2> QED BY <1>a, <1>c, <1>d, <2>1, <2>2
<1>13. ASSUME NEW t \in Writers, FlushSend(t) PROVE PipeIsOrdered'
  <2>1. UNCHANGED <<file, held, buffer, wpc, cur, written>> /\ chan' = Append(chan, Cmd("flush", t, 0, Len(log)))
    BY <1>13 DEF FlushSend, disk, thread, ghosts
  <2>2. Piped' = Piped /\ InHand' = InHand
    BY <2>1 DEF Piped, InHand
  <2>3. Cmd("flush", t, 0, Len(log)) \in Command /\ Cmd("flush", t, 0, Len(log)).op # "record"
    BY <1>0, CmdType
  <2>4. Kept
    BY <1>e, <2>1, <2>3
  <2> QED BY <1>a, <1>d, <2>1, <2>2, <2>4
<1>14. ASSUME NEW t \in Writers, Send(t) PROVE PipeIsOrdered'
  <2> DEFINE c == Cmd("record", t, written + 1, Len(log) + 1)
             n == Len(chan) + 1
  <2>1. UNCHANGED <<file, held, buffer, wpc, cur>> /\ written' = written + 1 /\ chan' = Append(chan, c)
    BY <1>14 DEF Send, disk, thread
  <2>2. Piped' = Piped /\ InHand' = InHand
    BY <2>1 DEF Piped, InHand
  <2>3. c \in Command /\ c.op = "record" /\ c.w = written + 1
    <3>1. written + 1 \in Nat /\ Len(log) + 1 \in Nat
      BY <1>0
    <3> QED BY <3>1, CmdType
  <2> HIDE DEF c
  <2>4. /\ Records(chan') = Records(chan) \cup {n} /\ n \notin Records(chan)
        /\ \A k \in Records(chan) : k \in 1..Len(chan) /\ chan'[k] = chan[k] /\ k < n
        /\ chan'[n] = c
    BY <1>0, <2>1, <2>3, RecordsAppend
  <2> DEFINE p == Piped
  <2>5. /\ Increasing(p)
        /\ \A i \in 1..Len(p) : p[i] <= written /\ (InHand => p[i] < cur.w) /\ \A k \in Records(chan) : p[i] < chan[k].w
        /\ InHand => cur.w <= written /\ \A k \in Records(chan) : cur.w < chan[k].w
        /\ \A k \in Records(chan) : chan[k].w <= written
        /\ \A j, k \in Records(chan) : j < k => chan[j].w < chan[k].w
    BY DEF PipeIsOrdered
  <2>6. PipeIsOrdered' <=>
        /\ Increasing(p)
        /\ \A i \in 1..Len(p) : p[i] <= written + 1 /\ (InHand => p[i] < cur.w) /\ \A k \in Records(chan') : p[i] < chan'[k].w
        /\ InHand => cur.w <= written + 1 /\ \A k \in Records(chan') : cur.w < chan'[k].w
        /\ \A k \in Records(chan') : chan'[k].w <= written + 1
        /\ \A j, k \in Records(chan') : j < k => chan'[j].w < chan'[k].w
    BY <2>1, <2>2 DEF PipeIsOrdered, Increasing, Records
  <2>7. (\A i \in 1..Len(p) : p[i] \in Nat) /\ cur.w \in Nat /\ (\A k \in Records(chan) : chan[k].w \in Nat) /\ n \in Nat
    <3>1. \A i \in 1..Len(p) : p[i] \in Nat
      BY <1>0, LenFacts
    <3>2. \A k \in Records(chan) : chan[k] \in Command
      BY <1>0, <2>4, LenFacts
    <3> QED BY <1>0, <3>1, <3>2, CommandFields
  <2> HIDE DEF p, n
  <2>8. \A i \in 1..Len(p) : p[i] <= written + 1 /\ (InHand => p[i] < cur.w) /\ \A k \in Records(chan') : p[i] < chan'[k].w
    <3> SUFFICES ASSUME NEW i \in 1..Len(p)
                 PROVE  p[i] <= written + 1 /\ (InHand => p[i] < cur.w) /\ \A k \in Records(chan') : p[i] < chan'[k].w
      OBVIOUS
    <3>1. p[i] <= written + 1 /\ p[i] < written + 1
      BY <1>0, <2>5, <2>7
    <3> QED BY <2>3, <2>4, <2>5, <3>1
  <2>9. InHand => cur.w <= written + 1 /\ \A k \in Records(chan') : cur.w < chan'[k].w
    <3> SUFFICES ASSUME InHand PROVE cur.w <= written + 1 /\ \A k \in Records(chan') : cur.w < chan'[k].w
      OBVIOUS
    <3>1. cur.w <= written + 1 /\ cur.w < written + 1
      BY <1>0, <2>5, <2>7
    <3> QED BY <2>3, <2>4, <2>5, <3>1
  <2>10. \A k \in Records(chan) : chan'[k].w < written + 1 /\ chan'[k].w <= written + 1
    <3> SUFFICES ASSUME NEW k \in Records(chan) PROVE chan'[k].w < written + 1 /\ chan'[k].w <= written + 1
      OBVIOUS
    <3> DEFINE x == chan[k].w
    <3>1. chan'[k].w = x /\ x \in Nat /\ x <= written
      BY <2>4, <2>5, <2>7
    <3> HIDE DEF x
    <3>2. x < written + 1 /\ x <= written + 1
      BY <1>0, <3>1
    <3> QED BY <3>1, <3>2
  <2>11. \A k \in Records(chan') : chan'[k].w <= written + 1
    BY <1>0, <2>3, <2>4, <2>10
  <2>12. \A j, k \in Records(chan') : j < k => chan'[j].w < chan'[k].w
    <3> SUFFICES ASSUME NEW j \in Records(chan'), NEW k \in Records(chan'), j < k PROVE chan'[j].w < chan'[k].w
      OBVIOUS
    <3>1. j \in Records(chan)
      <4>1. k \in Nat /\ k <= n
        BY <1>0, <2>4, <2>7
      <4>2. j # n
        BY <2>7, <4>1
      <4> QED BY <2>4, <4>2
    <3>2. CASE k = n
      BY <2>3, <2>4, <2>10, <3>1, <3>2
    <3>3. CASE k # n
      BY <2>4, <2>5, <3>1, <3>3
    <3> QED BY <3>2, <3>3
  <2> QED BY <2>5, <2>6, <2>8, <2>9, <2>11, <2>12
<1> QED
  BY <1>1, <1>2, <1>3, <1>4, <1>5, <1>6, <1>7, <1>8, <1>9, <1>10, <1>11, <1>12, <1>13, <1>14
  DEF Next, Closing, WalLoop

\* Records reach the file in the order they were sent in, on a disk that may
\* refuse any part of any write, under every durability level and through
\* every close, crash and reopening.
THEOREM FileStaysOrdered == Spec => []FileIsOrdered
<1>1. Init => PipeIsOrdered
  <2> SUFFICES ASSUME Init PROVE PipeIsOrdered
    OBVIOUS
  <2>1. Piped = <<>> /\ ~InHand /\ Records(chan) = {}
    <3>1. (<<>> \o <<>>) \o <<>> = <<>>
      OBVIOUS
    <3> QED BY <3>1 DEF Init, Piped, InHand, Records
  <2> QED BY <2>1 DEF PipeIsOrdered, Increasing
<1>2. TypeOK /\ LifeInv /\ PipeIsOrdered /\ [Next]_vars => PipeIsOrdered'
  <2>1. ASSUME PipeIsOrdered, UNCHANGED vars PROVE PipeIsOrdered'
    BY <2>1 DEF vars, PipeIsOrdered, Increasing, Piped, InHand, Records
  <2> QED BY <2>1, OrderStep, TypeInv
<1>3. TypeOK /\ PipeIsOrdered => FileIsOrdered
  <2> SUFFICES ASSUME TypeOK, PipeIsOrdered PROVE FileIsOrdered
    OBVIOUS
  <2>1. file \in Seq(Nat) /\ held \in Seq(Nat) /\ buffer \in Seq(Nat) /\ file \o held \in Seq(Nat)
    BY ConcatElements DEF TypeOK
  <2>2. Begins(file, Piped)
    <3>1. Begins(file, file \o held) /\ Begins(file, (file \o held) \o buffer)
      BY <2>1, BeginsFurther
    <3> QED BY <3>1 DEF Piped
  <2>3. Piped \in Seq(Nat) /\ Len(Piped) \in Nat /\ Len(file) \in Nat /\ DOMAIN file = 1..Len(file)
    BY <2>1, PipedType, LenProperties
  <2> DEFINE p == Piped
  <2>4. Increasing(p)
    BY DEF PipeIsOrdered
  <2> HIDE DEF p
  <2>5. \A i \in 1..Len(file) : i \in 1..Len(p) /\ file[i] = p[i]
    BY <2>2, <2>3 DEF Begins, p
  <2> QED BY <2>3, <2>4, <2>5 DEF FileIsOrdered, Increasing
<1> QED BY <1>1, <1>2, <1>3, TypeCorrect, AlwaysLifeInv, PTL DEF Spec
----------------------------------------------------------------------------
(* pending_bytes *)

Senders == {t \in Writers : pc[t] = "send"}
InHandCount == IF InHand THEN 1 ELSE 0

\* Only finitely many writers are ever between fetch_add and their send, be
\* there as many threads as may: each has got there by a step of its own.
PendingInv == IsFiniteSet(Senders) /\ PendingIsBounded

\* The sum of the property, its parts named.
LEMMA UnsyncedIs ==
  /\ Unsynced = Cardinality(Senders) + Cardinality(Records(chan)) + InHandCount + Len(buffer)
  /\ Unsynced' = Cardinality(Senders') + Cardinality(Records(chan')) + InHandCount' + Len(buffer')
<1>1. Records(chan)' = Records(chan')
  BY DEF Records
<1> QED BY <1>1 DEF Unsynced, Senders, InHandCount, InHand

\* The records in a channel are counted.
LEMMA RecordsFinite ==
  ASSUME NEW s \in Seq(Command) PROVE IsFiniteSet(Records(s)) /\ Cardinality(Records(s)) \in Nat
<1>1. Len(s) \in Nat /\ DOMAIN s = 1..Len(s)
  BY LenProperties
<1>2. IsFiniteSet(1..Len(s))
  BY <1>1, FS_Interval
<1>3. Records(s) \in SUBSET (1..Len(s))
  BY <1>1 DEF Records
<1>4. IsFiniteSet(Records(s))
  BY <1>2, <1>3, FS_Subset
<1> QED BY <1>4, FS_CardinalityType

\* The parts of the sum are numbers.
LEMMA PartsType ==
  ASSUME NEW S, IsFiniteSet(S), NEW c \in Seq(Command), NEW b \in Seq(Nat)
  PROVE  Cardinality(S) \in Nat /\ Cardinality(Records(c)) \in Nat /\ Len(b) \in Nat
  BY FS_CardinalityType, RecordsFinite, LenProperties

\* Taking the first command out takes one record out, or none.
LEMMA CountTail ==
  ASSUME NEW s \in Seq(Command), s # <<>>
  PROVE  Cardinality(Records(s)) = Cardinality(Records(Tail(s))) + (IF s[1].op = "record" THEN 1 ELSE 0)
<1> DEFINE R == Records(s)
           Q == Records(Tail(s))
           f == [k \in Q |-> k + 1]
<1>1. /\ \A k \in Q : k + 1 \in R /\ k \in Nat /\ 1 < k + 1
      /\ \A k \in R : k # 1 => k - 1 \in Q /\ (k - 1) + 1 = k
      /\ 1 \in R <=> s[1].op = "record"
  BY RecordsTail
<1>2. Tail(s) \in Seq(Command)
  BY TailFacts
<1>3. IsFiniteSet(R) /\ IsFiniteSet(Q) /\ Cardinality(R) \in Nat /\ Cardinality(Q) \in Nat
  BY <1>2, RecordsFinite
<1> HIDE DEF R, Q
<1>4. f \in Bijection(Q, R \ {1})
  <2>1. f \in [Q -> R \ {1}]
    BY <1>1
  <2>2. \A a, b \in Q : f[a] = f[b] => a = b
    BY <1>1
  <2>3. \A k \in R \ {1} : \E a \in Q : f[a] = k
    <3> SUFFICES ASSUME NEW k \in R \ {1} PROVE \E a \in Q : f[a] = k
      OBVIOUS
    <3>1. k - 1 \in Q /\ (k - 1) + 1 = k
      BY <1>1
    <3> QED BY <3>1
  <2>4. DOMAIN f = Q
    OBVIOUS
  <2> HIDE DEF f
  <2>5. f \in Injection(Q, R \ {1})
    BY <2>1, <2>2, <2>4 DEF Injection, IsInjective
  <2>6. f \in Surjection(Q, R \ {1})
    BY <2>1, <2>3 DEF Surjection
  <2> QED BY <2>5, <2>6 DEF Bijection
<1>5. ExistsBijection(Q, R \ {1})
  BY <1>4 DEF ExistsBijection
<1>6. Cardinality(R \ {1}) = Cardinality(Q)
  BY <1>3, <1>5, FS_Bijection
<1>7. Cardinality(R \ {1}) = IF 1 \in R THEN Cardinality(R) - 1 ELSE Cardinality(R)
  BY <1>3, FS_RemoveElement
<1> QED BY <1>1, <1>3, <1>6, <1>7 DEF R, Q

\* Putting a command in adds one record, or none.
LEMMA CountAppend ==
  ASSUME NEW s \in Seq(Command), NEW c \in Command
  PROVE  Cardinality(Records(Append(s, c))) = Cardinality(Records(s)) + (IF c.op = "record" THEN 1 ELSE 0)
<1>1. /\ Records(Append(s, c)) = (IF c.op = "record" THEN Records(s) \cup {Len(s) + 1} ELSE Records(s))
      /\ Len(s) + 1 \notin Records(s)
  BY RecordsAppend
<1>2. IsFiniteSet(Records(s)) /\ Cardinality(Records(s)) \in Nat
  BY RecordsFinite
<1>3. Cardinality(Records(s) \cup {Len(s) + 1}) = Cardinality(Records(s)) + 1
  BY <1>1, <1>2, FS_AddElement
<1> QED BY <1>1, <1>2, <1>3

\* pending_bytes is bounded through every step.
LEMMA PendingStep ==
  ASSUME TypeOK, TypeOK', LifeInv, PendingInv, Next PROVE PendingInv'
<1> DEFINE S == Cardinality(Senders)
           R == Cardinality(Records(chan))
           B == Len(buffer)
           S1 == Cardinality(Senders')
           R1 == Cardinality(Records(chan'))
           B1 == Len(buffer')
<1>0. /\ chan \in Seq(Command) /\ chan' \in Seq(Command) /\ buffer \in Seq(Nat) /\ buffer' \in Seq(Nat)
      /\ IsFiniteSet(Senders) /\ pending \in Nat /\ pending' \in Nat
      /\ (life = "up" => pending <= Unsynced) /\ Len(log) \in Nat
      /\ pc \in [Writers -> {"idle", "send", "flush_send", "flush_wait"}]
  <2>1. log \in Seq(Nat)
    BY DEF TypeOK
  <2>2. Len(log) \in Nat
    BY <2>1, LenProperties
  <2> QED BY <2>2 DEF TypeOK, PendingInv, PendingIsBounded
<1>a. /\ Unsynced = S + R + InHandCount + B
      /\ Unsynced' = S1 + R1 + InHandCount' + B1
      /\ InHandCount \in {0, 1} /\ InHandCount' \in {0, 1}
  BY UnsyncedIs DEF InHandCount
<1>b. S \in Nat /\ R \in Nat /\ B \in Nat
  BY <1>0, PartsType
<1>c. IsFiniteSet(Senders') => S1 \in Nat /\ R1 \in Nat /\ B1 \in Nat
  BY <1>0, PartsType
<1>d. PendingInv' <=> IsFiniteSet(Senders') /\ (life' = "up" => pending' <= Unsynced')
  BY DEF PendingInv, PendingIsBounded
<1>e. UNCHANGED pc => Senders' = Senders
  BY DEF Senders
<1>f. R1 = R <=> Cardinality(Records(chan')) = Cardinality(Records(chan))
  OBVIOUS
<1>g. chan' = chan => R1 = R
  OBVIOUS
<1>h. buffer' = buffer => B1 = B
  OBVIOUS
<1>i. Senders' = Senders => S1 = S
  OBVIOUS
<1> HIDE DEF S, R, B, S1, R1, B1
\* A step that does not change the sum, or resets the counter, or leaves the store closed.
<1>k. ASSUME IsFiniteSet(Senders'),
             \/ life' # "up"
             \/ pending' = 0
             \/ life = "up" /\ pending' = pending /\ S + R + InHandCount + B <= S1 + R1 + InHandCount' + B1
      PROVE  PendingInv'
  BY <1>0, <1>a, <1>b, <1>c, <1>d, <1>k
<1>1. CASE Spawn \/ BeginClose \/ DropSend \/ ShutdownSend \/ Join
  <2>1. UNCHANGED pc /\ (pending' = 0 \/ life' # "up")
    BY <1>1 DEF Spawn, BeginClose, DropSend, ShutdownSend, Join
  <2> QED BY <1>0, <1>e, <1>k, <2>1
<1>2. CASE Crash
  <2>1. life' = "closed" /\ Senders' = {}
    BY <1>2 DEF Crash, Senders
  <2> QED BY <1>k, <2>1, FS_EmptySet
<1>3. ASSUME UNCHANGED <<chan, buffer, pc, life, pending>>, InHandCount' = InHandCount PROVE PendingInv'
  <2>1. Senders' = Senders /\ S1 = S /\ R1 = R /\ B1 = B
    BY <1>3, <1>e, <1>g, <1>h, <1>i
  <2>2. S + R + InHandCount + B <= S1 + R1 + InHandCount' + B1
    BY <1>3, <1>a, <1>b, <2>1
  <2> QED BY <1>0, <1>3, <1>k, <2>1, <2>2
<1>4. CASE Tick \/ RecvTimeout \/ CheckSync \/ WriteFile
  <2>1. UNCHANGED <<chan, buffer, pc, life, pending, cur>> /\ (wpc' = wpc \/ (wpc # "got" /\ wpc' # "got"))
    BY <1>4 DEF Tick, RecvTimeout, CheckSync, WriteFile
  <2>2. InHandCount' = InHandCount
    BY <2>1 DEF InHandCount, InHand
  <2> QED BY <1>3, <2>1, <2>2
<1>5. CASE SyncFile
  <2>1. UNCHANGED pc /\ pending' = 0
    BY <1>5 DEF SyncFile
  <2> QED BY <1>0, <1>e, <1>k, <2>1
<1>6. CASE DispatchStopped
  <2>1. UNCHANGED <<pc, life>> /\ ~running
    BY <1>6 DEF DispatchStopped
  <2>2. life # "up"
    BY <2>1 DEF LifeInv
  <2> QED BY <1>0, <1>e, <1>k, <2>1, <2>2
<1>7. CASE DispatchFlush
  <2>0. UNCHANGED <<pc, life, buffer, cur, pending>> /\ wpc = "got"
    BY <1>7 DEF DispatchFlush
  <2>1. CASE life # "up"
    BY <1>0, <1>e, <1>k, <2>0, <2>1
  <2>2. CASE life = "up"
    <3>1. cur.op = "flush"
      BY <1>7, <2>0, <2>2 DEF DispatchFlush, LifeInv
    <3>2. FlushAndSync("reply")
      BY <1>7, <3>1 DEF DispatchFlush
    <3>3. chan' = chan /\ wpc' # "got"
      BY <3>2 DEF FlushAndSync, Resume
    <3>4. InHandCount' = InHandCount
      BY <2>0, <3>1, <3>3 DEF InHandCount, InHand
    <3> QED BY <1>3, <2>0, <3>3, <3>4
  <2> QED BY <2>1, <2>2
<1>8. CASE Recv
  <2>1. /\ wpc = "recv" /\ chan # <<>> /\ cur' = Head(chan) /\ chan' = Tail(chan) /\ wpc' = "got"
        /\ UNCHANGED <<buffer, pending, life, pc>>
    BY <1>8 DEF Recv
  <2>2. cur' = chan[1]
    BY <1>0, <2>1, TailFacts
  <2>3. R = R1 + (IF chan[1].op = "record" THEN 1 ELSE 0)
    BY <1>0, <2>1, CountTail DEF R, R1
  <2>4. InHandCount = 0 /\ InHandCount' = (IF chan[1].op = "record" THEN 1 ELSE 0)
    BY <2>1, <2>2 DEF InHandCount, InHand
  <2>5. Senders' = Senders /\ S1 = S /\ B1 = B
    BY <2>1, <1>e, <1>h, <1>i
  <2>6. R1 \in Nat
    BY <1>0, <1>c, <2>5
  <2>7. S + R + InHandCount + B <= S1 + R1 + InHandCount' + B1
    BY <1>b, <2>3, <2>4, <2>5, <2>6
  <2>8. life = "up" \/ life' # "up"
    BY <2>1
  <2> QED BY <1>0, <1>k, <2>1, <2>5, <2>7, <2>8
<1>9. CASE DispatchRecord
  <2>1. /\ wpc = "got" /\ running /\ buffer' = Append(buffer, cur.w) /\ wpc' = "check"
        /\ UNCHANGED <<chan, pending, life, pc, cur>> /\ cur.op \in {"record", "wake"}
    BY <1>9 DEF DispatchRecord
  <2>2. Senders' = Senders /\ S1 = S /\ R1 = R
    BY <2>1, <1>e, <1>g, <1>i
  <2>3. CASE life # "up"
    BY <1>0, <1>k, <2>1, <2>2, <2>3
  <2>4. CASE life = "up"
    <3>1. cur.op = "record"
      BY <2>1, <2>4 DEF LifeInv
    <3>2. InHandCount = 1 /\ InHandCount' = 0
      BY <2>1, <3>1 DEF InHandCount, InHand
    <3>3. cur.w \in Nat
      BY CommandFields DEF TypeOK
    <3>4. B1 = B + 1
      BY <1>0, <2>1, <3>3, AppendProperties DEF B, B1
    <3>5. S + R + InHandCount + B <= S1 + R1 + InHandCount' + B1
      BY <1>b, <2>2, <3>2, <3>4
    <3> QED BY <1>0, <1>k, <2>1, <2>2, <2>4, <3>5
  <2> QED BY <2>3, <2>4
<1>10. ASSUME NEW t \in Writers, CallSend(t) PROVE PendingInv'
  <2>1. /\ life = "up" /\ pc[t] = "idle" /\ pending' = pending + 1 /\ pc' = [pc EXCEPT ![t] = "send"]
        /\ UNCHANGED <<chan, buffer, cur, wpc, life>>
    BY <1>10 DEF CallSend, thread
  <2>2. Senders' = Senders \cup {t} /\ t \notin Senders
    BY <1>0, <2>1 DEF Senders
  <2>3. IsFiniteSet(Senders') /\ S1 = S + 1
    BY <1>0, <2>2, FS_AddElement DEF S, S1
  <2>4. R1 = R /\ B1 = B /\ InHandCount' = InHandCount
    BY <2>1, <1>g, <1>h DEF InHandCount, InHand
  <2>5. pending <= S + R + InHandCount + B
    BY <1>0, <1>a, <2>1
  <2>6. pending + 1 <= (S + 1) + R + InHandCount + B
    BY <1>0, <1>a, <1>b, <2>5
  <2> QED BY <1>a, <1>d, <2>1, <2>3, <2>4, <2>6
<1>11. ASSUME NEW t \in Writers, Send(t) PROVE PendingInv'
  <2> DEFINE c == Cmd("record", t, written + 1, Len(log) + 1)
  <2>1. /\ pc[t] = "send" /\ pc' = [pc EXCEPT ![t] = "idle"] /\ chan' = Append(chan, c)
        /\ UNCHANGED <<pending, buffer, cur, wpc, life>>
    BY <1>11 DEF Send, thread
  <2>2. Senders' = Senders \ {t} /\ t \in Senders
    BY <1>0, <2>1 DEF Senders
  <2>3. IsFiniteSet(Senders') /\ S1 = S - 1
    BY <1>0, <2>2, FS_RemoveElement DEF S, S1
  <2>4. c \in Command /\ c.op = "record"
    <3>1. written + 1 \in Nat /\ Len(log) + 1 \in Nat
      <4>1. written \in Nat
        BY DEF TypeOK
      <4> QED BY <1>0, <4>1
    <3> QED BY <3>1, CmdType
  <2> HIDE DEF c
  <2>5. R1 = R + 1
    BY <1>0, <2>1, <2>4, CountAppend DEF R, R1
  <2>6. B1 = B /\ InHandCount' = InHandCount
    BY <2>1, <1>h DEF InHandCount, InHand
  <2>7. S + R + InHandCount + B <= S1 + R1 + InHandCount' + B1
    BY <1>a, <1>b, <2>3, <2>5, <2>6
  <2>8. life = "up" \/ life' # "up"
    BY <2>1
  <2> QED BY <1>k, <2>1, <2>3, <2>7, <2>8
<1>12. ASSUME NEW t \in Writers, CallFlush(t) PROVE PendingInv'
  <2>1. /\ pc[t] = "idle" /\ pc' = [pc EXCEPT ![t] = "flush_send"] /\ UNCHANGED <<chan, pending, buffer, cur, wpc, life>>
    BY <1>12 DEF CallFlush, thread
  <2>2. Senders' = Senders
    BY <1>0, <2>1 DEF Senders
  <2>3. R1 = R /\ B1 = B /\ S1 = S /\ InHandCount' = InHandCount
    BY <2>1, <2>2, <1>g, <1>h, <1>i DEF InHandCount, InHand
  <2>4. S + R + InHandCount + B <= S1 + R1 + InHandCount' + B1
    BY <1>a, <1>b, <2>3
  <2>5. life = "up" \/ life' # "up"
    BY <2>1
  <2> QED BY <1>0, <1>k, <2>1, <2>2, <2>4, <2>5
<1>13. ASSUME NEW t \in Writers, FlushSend(t) PROVE PendingInv'
  <2> DEFINE c == Cmd("flush", t, 0, Len(log))
  <2>1. /\ pc[t] = "flush_send" /\ pc' = [pc EXCEPT ![t] = "flush_wait"] /\ chan' = Append(chan, c)
        /\ UNCHANGED <<pending, buffer, cur, wpc, life>>
    BY <1>13 DEF FlushSend, thread
  <2>2. Senders' = Senders
    BY <1>0, <2>1 DEF Senders
  <2>3. c \in Command /\ c.op = "flush"
    <3>1. 0 \in Nat /\ Len(log) \in Nat
      BY <1>0
    <3> QED BY <3>1, CmdType
  <2> HIDE DEF c
  <2>4. R1 = R + 0
    BY <1>0, <2>1, <2>3, CountAppend DEF R, R1
  <2>5. B1 = B /\ S1 = S /\ InHandCount' = InHandCount
    BY <2>1, <2>2, <1>h, <1>i DEF InHandCount, InHand
  <2>6. S + R + InHandCount + B <= S1 + R1 + InHandCount' + B1
    BY <1>a, <1>b, <2>4, <2>5
  <2>7. life = "up" \/ life' # "up"
    BY <2>1
  <2> QED BY <1>0, <1>k, <2>1, <2>2, <2>6, <2>7
<1>14. ASSUME NEW t \in Writers, FlushReturn(t) PROVE PendingInv'
  <2>1. pc[t] = "flush_wait" /\ pc' = [pc EXCEPT ![t] = "idle"] /\ pending' = 0
    BY <1>14 DEF FlushReturn
  <2>2. Senders' = Senders
    BY <1>0, <2>1 DEF Senders
  <2> QED BY <1>0, <1>k, <2>1, <2>2
<1> QED
  BY <1>1, <1>2, <1>4, <1>5, <1>6, <1>7, <1>8, <1>9, <1>10, <1>11, <1>12, <1>13, <1>14
  DEF Next, Closing, WalLoop

\* pending_bytes never claims more than is on its way, whatever the
\* interleaving of its three writers (fetch_add before a send, the store of 0
\* by the thread and the one by a returning flush), on any disk.
THEOREM PendingStaysBounded == Spec => []PendingIsBounded
<1>1. Init => PendingInv
  <2> SUFFICES ASSUME Init PROVE PendingInv
    OBVIOUS
  <2>1. Senders = {}
    BY DEF Init, Senders
  <2> QED BY <2>1, FS_EmptySet DEF Init, PendingInv, PendingIsBounded
<1>2. TypeOK /\ LifeInv /\ PendingInv /\ [Next]_vars => PendingInv'
  <2>1. ASSUME PendingInv, UNCHANGED vars PROVE PendingInv'
    <3>1. UNCHANGED <<pc, life, pending, chan, wpc, cur, buffer>>
      BY <2>1 DEF vars
    <3>2. Senders' = Senders /\ Unsynced' = Unsynced
      BY <3>1 DEF Senders, Unsynced, Records
    <3> QED BY <2>1, <3>1, <3>2 DEF PendingInv, PendingIsBounded
  <2> QED BY <2>1, PendingStep, TypeInv
<1>3. PendingInv => PendingIsBounded
  BY DEF PendingInv
<1> QED BY <1>1, <1>2, <1>3, TypeCorrect, AlwaysLifeInv, PTL DEF Spec
----------------------------------------------------------------------------
(* Flushes that wait for their answer *)

\* The flush of writer t is in the channel, or the thread is busy with it.
InReach(t) ==
    \/ \E i \in 1..Len(chan) : chan[i].op = "flush" /\ chan[i].who = t
    \/ Flushing /\ cur.who = t

\* A writer that waits in flush() is waited on: its command has not been
\* thrown away, and the thread that is to answer it has not gone.  (What
\* FlushReturns needs besides fairness.)
FlushIsNotForgotten ==
    \A t \in Writers : pc[t] = "flush_wait" /\ ~replied[t] => InReach(t) /\ wpc # "exited"

\* What remains to be shown of a step when nobody has started to wait: the
\* commands of those who wait are still in reach.
LEMMA StillInReach ==
  ASSUME LifeInv', FlushIsNotForgotten,
         \A t \in Writers : pc'[t] = "flush_wait" /\ ~replied'[t] => pc[t] = "flush_wait" /\ ~replied[t],
         \A t \in Writers : pc'[t] = "flush_wait" /\ ~replied'[t] /\ InReach(t) => InReach(t)'
  PROVE  FlushIsNotForgotten'
<1> SUFFICES ASSUME NEW t \in Writers, pc'[t] = "flush_wait", ~replied'[t] PROVE InReach(t)' /\ wpc' # "exited"
  BY DEF FlushIsNotForgotten
<1>1. InReach(t)
  BY DEF FlushIsNotForgotten
<1>2. wpc' # "exited"
  BY DEF LifeInv
<1> QED BY <1>1, <1>2

\* The commands of those who wait, step by step.
LEMMA ReachStep ==
  ASSUME TypeOK, LifeInv, LifeInv', FlushIsNotForgotten, Next
  PROVE  FlushIsNotForgotten'
<1>0. /\ chan \in Seq(Command) /\ Len(chan) \in Nat
      /\ pc \in [Writers -> {"idle", "send", "flush_send", "flush_wait"}]
      /\ replied \in [Writers -> BOOLEAN]
  BY LenFacts DEF TypeOK
<1>1. CASE Spawn \/ BeginClose \/ DropSend \/ ShutdownSend \/ Join \/ Crash
  <2>1. \A t \in Writers : pc'[t] # "flush_wait"
    BY <1>0, <1>1 DEF Spawn, BeginClose, DropSend, ShutdownSend, Join, Crash, LifeInv
  <2> QED BY <2>1 DEF FlushIsNotForgotten
<1>2. CASE Recv
  <2>1. /\ wpc = "recv" /\ cur' = chan[1] /\ Len(chan) >= 1 /\ Len(chan') = Len(chan) - 1
        /\ \A i \in 1..Len(chan') : chan'[i] = chan[i + 1]
        /\ UNCHANGED <<replied, pc>> /\ wpc' = "got"
    BY <1>0, <1>2, TailFacts DEF Recv
  <2>2. ASSUME NEW t \in Writers, InReach(t) PROVE InReach(t)'
    <3>1. PICK i \in 1..Len(chan) : chan[i].op = "flush" /\ chan[i].who = t
      BY <2>1, <2>2 DEF InReach, Flushing
    <3>2. CASE i = 1
      BY <2>1, <3>1, <3>2 DEF InReach, Flushing
    <3>3. CASE i # 1
      <4>1. i - 1 \in 1..Len(chan') /\ (i - 1) + 1 = i
        BY <1>0, <2>1, <3>3
      <4>2. chan'[i - 1] = chan[i]
        BY <2>1, <4>1
      <4> QED BY <3>1, <4>1, <4>2 DEF InReach
    <3> QED BY <3>2, <3>3
  <2> QED BY <2>1, <2>2, StillInReach
<1>3. CASE RecvTimeout \/ DispatchRecord \/ CheckSync
  <2>1. UNCHANGED <<chan, cur, replied, pc>> /\ ~Flushing
    BY <1>3 DEF RecvTimeout, DispatchRecord, CheckSync, Flushing
  <2>2. ASSUME NEW t \in Writers, InReach(t) PROVE InReach(t)'
    BY <2>1, <2>2 DEF InReach
  <2> QED BY <2>1, <2>2, StillInReach
<1>4. CASE DispatchStopped
  <2>1. life # "up" /\ pc' = pc
    BY <1>4 DEF DispatchStopped, LifeInv
  <2>2. \A t \in Writers : pc'[t] # "flush_wait"
    BY <2>1 DEF LifeInv
  <2> QED BY <2>2 DEF FlushIsNotForgotten
<1>5. CASE DispatchFlush
  <2>1. cur.op = "flush" /\ wpc = "got" /\ UNCHANGED <<cur, pc>>
    BY <1>5 DEF DispatchFlush, LifeInv
  <2>2. CASE buffer = <<>>
    <3>1. chan' = chan /\ replied' = [replied EXCEPT ![cur.who] = TRUE]
      BY <1>5, <2>1, <2>2 DEF DispatchFlush, FlushAndSync, Resume
    <3>2. ASSUME NEW t \in Writers, ~replied'[t] PROVE t # cur.who /\ ~replied[t]
      BY <1>0, <3>1, <3>2
    <3>3. ASSUME NEW t \in Writers, ~replied'[t], InReach(t) PROVE InReach(t)'
      BY <3>1, <3>2, <3>3 DEF InReach
    <3> QED BY <2>1, <3>2, <3>3, StillInReach
  <2>3. CASE buffer # <<>>
    <3>1. UNCHANGED <<chan, replied>> /\ wpc' = "write" /\ wthen' = "reply"
      BY <1>5, <2>1, <2>3 DEF DispatchFlush, FlushAndSync
    <3>2. ASSUME NEW t \in Writers, InReach(t) PROVE InReach(t)'
      BY <2>1, <3>1, <3>2 DEF InReach, Flushing
    <3> QED BY <2>1, <3>1, <3>2, StillInReach
  <2> QED BY <2>2, <2>3
<1>6. CASE WriteFile \/ Tick
  <2>1. UNCHANGED <<chan, cur, replied, pc>> /\ (Flushing => Flushing')
    BY <1>6 DEF WriteFile, Tick, Flushing
  <2>2. ASSUME NEW t \in Writers, InReach(t) PROVE InReach(t)'
    BY <2>1, <2>2 DEF InReach
  <2> QED BY <2>1, <2>2, StillInReach
<1>7. CASE SyncFile
  <2>1. /\ wpc = "sync" /\ UNCHANGED <<cur, pc, life>>
        /\ chan' = (IF wthen = "exit" THEN <<>> ELSE chan)
        /\ replied' = IF wthen = "reply" THEN [replied EXCEPT ![cur.who] = TRUE] ELSE replied
    BY <1>7 DEF SyncFile, Resume
  <2>2. ASSUME NEW t \in Writers, pc'[t] = "flush_wait", ~replied'[t]
        PROVE  pc[t] = "flush_wait" /\ ~replied[t] /\ wthen # "exit" /\ (wthen = "reply" => t # cur.who)
    BY <1>0, <2>1, <2>2 DEF LifeInv
  <2>3. ASSUME NEW t \in Writers, pc'[t] = "flush_wait", ~replied'[t], InReach(t) PROVE InReach(t)'
    <3>1. chan' = chan /\ (wthen = "reply" => t # cur.who)
      BY <2>1, <2>2, <2>3
    <3> QED BY <2>1, <2>3, <3>1 DEF InReach, Flushing
  <2> QED BY <2>2, <2>3, StillInReach
<1>8. ASSUME NEW u \in Writers, CallSend(u) \/ CallFlush(u) \/ FlushReturn(u) PROVE FlushIsNotForgotten'
  <2>1. /\ UNCHANGED <<chan, cur, wpc, wthen, replied>>
        /\ pc' = [pc EXCEPT ![u] = "send"] \/ pc' = [pc EXCEPT ![u] = "flush_send"] \/ pc' = [pc EXCEPT ![u] = "idle"]
    BY <1>8 DEF CallSend, CallFlush, FlushReturn, thread
  <2>2. \A t \in Writers : pc'[t] = "flush_wait" => pc[t] = "flush_wait"
    BY <1>0, <2>1
  <2>3. ASSUME NEW t \in Writers, InReach(t) PROVE InReach(t)'
    BY <2>1, <2>3 DEF InReach, Flushing
  <2> QED BY <2>1, <2>2, <2>3, StillInReach
<1>9. ASSUME NEW u \in Writers, Send(u) \/ FlushSend(u) PROVE FlushIsNotForgotten'
  <2>1. UNCHANGED <<cur, wpc, wthen>>
    BY <1>9 DEF Send, FlushSend, thread
  <2>2. PICK c : chan' = Append(chan, c) /\ (FlushSend(u) => c.op = "flush" /\ c.who = u) /\ c \in Command
    <3>1. Len(log) \in Nat /\ Len(log) + 1 \in Nat /\ written + 1 \in Nat
      BY LenFacts, SMTT(30) DEF TypeOK
    <3>2. CASE FlushSend(u)
      BY <3>1, <3>2, CmdType DEF FlushSend
    <3>3. CASE Send(u)
      <4>1. ~FlushSend(u)
        BY <3>3 DEF Send, FlushSend
      <4>2. chan' = Append(chan, Cmd("record", u, written + 1, Len(log) + 1))
        BY <3>3 DEF Send
      <4>3. Cmd("record", u, written + 1, Len(log) + 1) \in Command
        BY <3>1, CmdType
      <4> QED BY <4>1, <4>2, <4>3
    <3> QED BY <1>9, <3>2, <3>3
  <2>3. Len(chan') = Len(chan) + 1 /\ chan'[Len(chan) + 1] = c /\ \A i \in 1..Len(chan) : chan'[i] = chan[i]
    BY <1>0, <2>2, AppendProperties
  <2>4. Len(chan) + 1 \in 1..Len(chan') /\ \A i \in 1..Len(chan) : i \in 1..Len(chan')
    BY <1>0, <2>3
  <2>5. ASSUME NEW t \in Writers, InReach(t) PROVE InReach(t)'
    BY <2>1, <2>3, <2>4, <2>5 DEF InReach, Flushing
  <2>6. ASSUME NEW t \in Writers, pc'[t] = "flush_wait", ~replied'[t]
        PROVE  (pc[t] = "flush_wait" /\ ~replied[t]) \/ (t = u /\ FlushSend(u))
    <3>1. CASE FlushSend(u)
      BY <1>0, <2>6, <3>1 DEF FlushSend
    <3>2. CASE Send(u)
      BY <1>0, <2>6, <3>2 DEF Send
    <3> QED BY <1>9, <3>1, <3>2
  <2> SUFFICES ASSUME NEW t \in Writers, pc'[t] = "flush_wait", ~replied'[t] PROVE InReach(t)' /\ wpc' # "exited"
    BY DEF FlushIsNotForgotten
  <2>7. wpc' # "exited"
    BY DEF LifeInv
  <2>8. CASE pc[t] = "flush_wait" /\ ~replied[t]
    BY <2>5, <2>7, <2>8 DEF FlushIsNotForgotten
  <2>9. CASE t = u /\ FlushSend(u)
    BY <2>2, <2>3, <2>4, <2>7, <2>9 DEF InReach
  <2> QED BY <2>6, <2>8, <2>9
<1> QED
  BY <1>1, <1>2, <1>3, <1>4, <1>5, <1>6, <1>7, <1>8, <1>9 DEF Next, Closing, WalLoop

\* flush() never waits for an answer that nobody will give: its command is in
\* the channel or in the hands of a thread that runs, on any disk, under every
\* durability level, and however the store is closed or dies.
THEOREM NoFlushIsForgotten == Spec => []FlushIsNotForgotten
<1>1. Init => FlushIsNotForgotten
  BY DEF Init, FlushIsNotForgotten
<1>2. TypeOK /\ LifeInv /\ LifeInv' /\ FlushIsNotForgotten /\ [Next]_vars => FlushIsNotForgotten'
  <2>1. ASSUME FlushIsNotForgotten, UNCHANGED vars PROVE FlushIsNotForgotten'
    BY <2>1 DEF vars, FlushIsNotForgotten, InReach, Flushing
  <2> QED BY <2>1, ReachStep
<1> QED BY <1>1, <1>2, TypeCorrect, AlwaysLifeInv, PTL DEF Spec

============================================================================
