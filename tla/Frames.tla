------------------------------- MODULE Frames -------------------------------
(***************************************************************************)
(* The byte framing of the three log formats and what replay makes of a    *)
(* file: src/storage/wal_thread.rs ("wal_thread"), src/storage/store_log.rs*)
(* ("store_log") and src/wal/mod.rs ("wal_writer").                        *)
(*                                                                         *)
(* A record is an operation and the number w of the write; its payload is  *)
(* w again, in as many bytes as tell an insert from a delete.              *)
(***************************************************************************)
EXTENDS Integers, Sequences

Kinds == {"wal_thread", "store_log", "wal_writer"}

\* INSERT and DELETE; of a WalRecord the tags of two variants.
Ops == {1, 2}
Record == [op : Ops, w : 1 .. 255]

MAGIC == <<76, 71, 68, 66>>
Header(kind) == IF kind = "wal_writer" THEN <<>> ELSE MAGIC

\* u32::to_le_bytes and u32::from_le_bytes; a u64 here is below 2^32.
le32(n) == <<n % 256, (n \div 256) % 256, (n \div 65536) % 256, n \div 16777216>>
le64(n) == le32(n) \o <<0, 0, 0, 0>>
from_le(b) == b[1] + 256 * b[2] + 65536 * b[3] + 16777216 * b[4]

Payload(r) == IF r.op = 1 THEN <<r.w, r.w>> ELSE <<r.w>>

Body(kind, r) ==
    CASE kind = "wal_thread" -> <<r.op>> \o le64(r.w) \o Payload(r)
      [] kind = "store_log" -> <<r.op>> \o Payload(r)
      [] kind = "wal_writer" -> <<r.op>> \o Payload(r)

\* What the length in front of the body does not count.
Uncounted(kind) == IF kind = "store_log" THEN 1 ELSE 0

\* Mutant: the opcode is counted where the reader does not expect it, or the
\* other way round.
encodeMiscounts(kind, r) ==
    le32(Len(Body(kind, r)) - 1 + Uncounted(kind)) \o Body(kind, r)

\* encode_insert and encode_delete; encode_record; WalWriter::write.
encode(kind, r) == le32(Len(Body(kind, r)) - Uncounted(kind)) \o Body(kind, r)

-----------------------------------------------------------------------------
(* replay_wal, replay_log, WalReader::replay                               *)

\* Shorter than opcode and id: "record too short".
TooShort(kind, len) == kind = "wal_thread" /\ len < 9

\* bincode knows the tag and finds the fields it needs.
Deserializes(body) == Len(body) >= 2 /\ body[1] \in Ops

\* What the body is to the caller; a tombstone is nothing.
Decoded(kind, body) ==
    IF kind = "store_log" /\ body[1] = 0 THEN <<>>
    ELSE <<[op |-> body[1],
            w |-> IF kind = "wal_thread" THEN from_le(SubSeq(body, 2, 5)) ELSE body[2]]>>

Result(ok, recs, tail) == [ok |-> ok, recs |-> recs, tail |-> tail]

\* The length at byte p, the byte behind the record there, and its body.
LenAt(b, p) == from_le(SubSeq(b, p, p + 3))
NextAt(kind, b, p) == p + 4 + LenAt(b, p) + Uncounted(kind)
BodyAt(kind, b, p) == SubSeq(b, p + 4, NextAt(kind, b, p) - 1)

\* The errors of one round of the loop.
Fails(kind, b, p) ==
    \/ TooShort(kind, LenAt(b, p))
    \/ NextAt(kind, b, p) > Len(b) + 1
    \/ kind = "wal_writer" /\ ~Deserializes(BodyAt(kind, b, p))

\* One round of the loop at byte p, when the bytes behind the record there
\* give rest: whether it ends in Ok, the records it has delivered, and how
\* many bytes at the end it did not understand.  An end of file inside the
\* length is taken for the end of the log.
Round(kind, b, p, rest) ==
    LET left == Len(b) + 1 - p
    IN  IF left < 4 THEN Result(TRUE, <<>>, left)
        ELSE IF Fails(kind, b, p) THEN Result(FALSE, <<>>, left)
        ELSE Result(rest.ok, Decoded(kind, BodyAt(kind, b, p)) \o rest.recs, rest.tail)

\* The loop from byte p on, for every p.
ReplayLoop(kind, b) ==
    LET From[p \in 1 .. Len(b) + 1] == Round(kind, b, p, From[NextAt(kind, b, p)])
    IN  From

\* A file too short for the magic is an empty log.  WalReader::replay hands
\* over its records at the end, or none.
replay(kind, b) ==
    IF Len(b) < Len(Header(kind)) THEN Result(TRUE, <<>>, Len(b))
    ELSE IF SubSeq(b, 1, Len(Header(kind))) # Header(kind) THEN Result(FALSE, <<>>, Len(b))
    ELSE LET r == ReplayLoop(kind, b)[Len(Header(kind)) + 1]
         IN  IF kind = "wal_writer" /\ ~r.ok THEN [r EXCEPT !.recs = <<>>] ELSE r
=============================================================================
