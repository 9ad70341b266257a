------------------------------- MODULE LogFile -------------------------------
(***************************************************************************)
(* A thread's log file: inner_vflog() of libdank/modules/logging/logging.c    *)
(* appends messages through a line buffered stream and goes back to the       *)
(* start when the file is full; free_logctx() cuts off what is older.         *)
(***************************************************************************)
EXTENDS Integers, Sequences

CONSTANTS LOGFILE_MAX_SIZE,
          Lengths,      \* of messages
          MaxMessages   \* a bound

ASSUME LogAssumption == LOGFILE_MAX_SIZE \in Nat /\ Lengths \subseteq Nat

VARIABLES lfile,         \* "open", "NULL" or "freed"
          disk,          \* the file, each place with the number of its message
          pos, buffered, \* of the stream: where it writes, and what it has yet to write
          lfile_offset, lineswritten,
          lap            \* everything written since the file began at its start

logvars == <<lfile, disk, pos, buffered, lfile_offset, lineswritten, lap>>

LogInit == /\ lfile = "open" /\ disk = <<>> /\ pos = 0 /\ buffered = <<>>
           /\ lfile_offset = 0 /\ lineswritten = 0 /\ lap = <<>>

Longer(a, b) == IF a > b THEN a ELSE b
Overwritten(d, p, data) ==
  [k \in 1 .. Longer(Len(d), p + Len(data)) |->
     IF k > p /\ k <= p + Len(data) THEN data[k - p] ELSE d[k]]
\* A file of a given length, zeros behind its end.
Truncated(d, length) == [k \in 1 .. length |-> IF k <= Len(d) THEN d[k] ELSE 0]

Message(n) == [k \in 1 .. n |-> lineswritten + 1]

\* The stream writes once a line is complete; the file may be full then.
Appended(n, ends) ==
  LET all == buffered \o Message(n)
  IN /\ disk' = IF ends THEN Overwritten(disk, pos, all) ELSE disk
     /\ pos' = IF ends THEN pos + Len(all) ELSE pos
     /\ buffered' = IF ends THEN <<>> ELSE all
     /\ lfile_offset' = lfile_offset + n
     /\ lap' = lap \o Message(n)
     /\ UNCHANGED lfile

KeepsOffset(n, ends) ==
  LET all == buffered \o Message(n)
      flushed == IF ends THEN Overwritten(disk, pos, all) ELSE disk
      cut == Truncated(flushed, LOGFILE_MAX_SIZE)
  IN /\ disk' = IF ends THEN cut ELSE Overwritten(cut, pos, all)
     /\ pos' = 0 /\ buffered' = <<>> /\ lfile_offset' = lfile_offset + n /\ lap' = <<>>
     /\ UNCHANGED lfile

\* A full file is cut to its greatest size, and rewind() writes what the stream still
\* had, behind that.
Wrapped(n, ends) ==
  LET all == buffered \o Message(n)
      flushed == IF ends THEN Overwritten(disk, pos, all) ELSE disk
      cut == Truncated(flushed, LOGFILE_MAX_SIZE)
  IN /\ disk' = IF ends THEN cut ELSE Overwritten(cut, pos, all)
     /\ pos' = 0 /\ buffered' = <<>> /\ lfile_offset' = 0 /\ lap' = <<>>
     /\ UNCHANGED lfile

\* fwrite() or ftruncate() failed: the thread logs to no file any more.
Loses == lfile' = "NULL" /\ UNCHANGED <<disk, pos, buffered, lfile_offset, lap>>

inner_vflog(n, ends) ==
  /\ lfile = "open" /\ lineswritten < MaxMessages /\ lineswritten' = lineswritten + 1
  /\ \/ lfile_offset + n <= LOGFILE_MAX_SIZE /\ Appended(n, ends)
     \/ lfile_offset + n > LOGFILE_MAX_SIZE /\ Wrapped(n, ends)
     \/ Loses

\* A last line ends the file, and is cut off again with what lies behind the offset.
free_logctx ==
  /\ lfile = "open" /\ lfile' = "freed"
  /\ disk' = Truncated(Overwritten(disk, pos, buffered \o <<lineswritten + 1>>), lfile_offset)
  /\ buffered' = <<>> /\ pos' = pos + Len(buffered)
  /\ UNCHANGED <<lfile_offset, lineswritten, lap>>

LogNext == free_logctx \/ \E n \in Lengths, ends \in BOOLEAN : inner_vflog(n, ends)

LogSpec == LogInit /\ [][LogNext]_logvars

-------------------------------------------------------------------------------
(* Properties. *)

\* The file never outgrows its greatest size by more than a message, its first
\* lfile_offset places are the messages since it began at its start, complete and in
\* order, whenever the stream wrote them, and a log that has ended is these messages
\* and nothing of an older lap.
LogKeepsLatest ==
  /\ \A n \in DOMAIN disk : \E m \in Lengths : n <= LOGFILE_MAX_SIZE + m
  /\ lfile = "open" => /\ lfile_offset = Len(lap)
                       /\ SubSeq(disk, 1, pos) \o buffered = lap
  /\ lfile = "freed" => disk = lap
===============================================================================
