----------------------------- MODULE SegmentedWal -----------------------------
(***************************************************************************)
(* The segmented write-ahead log (src/src/storage/wal/segmented.rs).  One  *)
(* writer thread serialises appends, flushes and rotations, so each        *)
(* command is one atomic function from a log to a log:                     *)
(*                                                                         *)
(*   disk        : [seq -> sequence of records that an fsync covers]       *)
(*   active      : sequence number of the segment being written            *)
(*   tail        : records in the writer's buffer past the last fsync      *)
(*   active_size : bytes of the appends that returned Ok in this segment   *)
(*                                                                         *)
(* A frame is a record; blocks, padding and O_DIRECT are left out: what    *)
(* matters of them is that a crash keeps a prefix of the tail.             *)
(***************************************************************************)
EXTENDS Naturals, FiniteSetsExt, SequencesExt

\* The elements of seq that are in S, in their order.
Keep(seq, S) ==
    FoldLeft(LAMBDA kept, x : IF x \in S THEN Append(kept, x) ELSE kept, <<>>, seq)

\* The records that files has under the names, one file after the other.
Joined(files, names) ==
    FoldLeft(LAMBDA recs, name : recs \o files[name], <<>>, names)

\* open_new_segment: an empty segment with the given sequence number.
open_new_segment(disk, seq) == [s \in DOMAIN disk \cup {seq} |-> IF s = seq THEN <<>> ELSE disk[s]]

\* SegmentedWal::new over the segments found on disk: all become sealed and a
\* fresh active segment is created past them.
wal_new(disk) ==
    LET seq == IF DOMAIN disk = {} THEN 0 ELSE Max(DOMAIN disk) + 1
    IN  [disk |-> open_new_segment(disk, seq), active |-> seq, tail |-> <<>>, active_size |-> 0]

\* Persist the tail of the active segment and fsync.
flush(wal) ==
    [wal EXCEPT !.disk[wal.active] = @ \o wal.tail, !.tail = <<>>]

\* handle_append returning Ok.
handle_append(wal, rec, fsync_on_write) ==
    LET w == [wal EXCEPT !.tail = Append(@, rec), !.active_size = @ + rec.size]
    IN  IF fsync_on_write THEN flush(w) ELSE w

\* handle_append returning Err: the frame was put in the tail before the write
\* or the fsync failed, and it stays there.
handle_append_err(wal, rec) == [wal EXCEPT !.tail = Append(@, rec)]
\* handle_maybe_seal when it decides to seal: flush, then rotate.
handle_maybe_seal(wal) ==
    LET w == flush(wal)
    IN  [disk |-> open_new_segment(w.disk, w.active + 1),
         active |-> w.active + 1, tail |-> <<>>, active_size |-> 0]

\* Sequence numbers of the sealed segments, oldest first.
sealed_segments(wal) == Keep([i \in 1 .. wal.active |-> i - 1], DOMAIN wal.disk)

delete_segment(wal, seq) ==
    [wal EXCEPT !.disk = [s \in DOMAIN @ \ {seq} |-> @[s]]]

\* The records of every segment but the active one, in segment order.
recover(wal) == Joined(wal.disk, sealed_segments(wal))

\* What a crash may leave on disk of the active segment: walk_frames stops at
\* the first zero or incomplete frame, so a prefix of the unsynced tail.
CrashDisks(wal) ==
    {[wal.disk EXCEPT ![wal.active] = @ \o p] : p \in Prefixes(wal.tail)}

===============================================================================
