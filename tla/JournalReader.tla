--------------------------- MODULE JournalReader ---------------------------
(***************************************************************************)
(* How _consume of services/sealdice_log_monitor.py cuts journalctl's      *)
(* output into records.  Output arrives in chunks that end anywhere; each  *)
(* chunk is split at its newlines, and each piece is handled by one step.  *)
(* A record longer than the limit is skipped without being kept, and the   *)
(* next one is read again.                                                 *)
(*                                                                         *)
(* Bytes are counted, not represented.  Records are numbered in the order  *)
(* of their newlines; read() never returns more than Chunk bytes, newlines *)
(* included, and the last piece of a chunk has no newline yet.             *)
(***************************************************************************)
EXTENDS Naturals

CONSTANTS
  Limit,       \* _JOURNAL_RECORD_LIMIT
  Chunk,       \* _JOURNAL_READ_CHUNK
  MaxBytes,    \* bound: bytes of one record
  MaxRecords   \* bound: records

ASSUME NumbersAssumption ==
  /\ Limit \in Nat /\ Chunk \in Nat \ {0}
  /\ MaxBytes \in Nat /\ MaxRecords \in Nat

VARIABLES
  room,        \* bytes the chunk at hand may still hold
  buffer,      \* length of buffer
  discarding,
  handed,      \* records given to process_line or refused as malformed
  written,     \* the world: bytes of the record in the pipe so far
  complete,    \* history: records that ended
  short        \* history: those that had at most Limit bytes

readerVars == <<room, buffer, discarding, handed>>
worldVars  == <<written, complete, short>>
journalVars == <<readerVars, worldVars>>

Room(n) == n <= room /\ written + n <= MaxBytes

\* if len(buffer) + len(piece) > limit: discard, else extend.
TakePiece(n) ==
  IF discarding
  THEN UNCHANGED <<buffer, discarding>>
  ELSE IF buffer + n > Limit
       THEN buffer' = 0 /\ discarding' = TRUE
       ELSE buffer' = buffer + n /\ UNCHANGED discarding

\* The last piece of a chunk.
LastPiece(n) ==
  /\ Room(n)
  /\ TakePiece(n)
  /\ written' = written + n
  /\ room' = Chunk
  /\ UNCHANGED <<handed, complete, short>>

\* Mutation: discarding outlives the newline.
EndRecordDiscarding(n) ==
  /\ Room(n + 1)
  /\ complete < MaxRecords
  /\ IF discarding \/ buffer + n > Limit
     THEN discarding' = TRUE /\ UNCHANGED handed
     ELSE handed' = handed \cup {complete + 1} /\ UNCHANGED discarding
  /\ buffer' = 0
  /\ complete' = complete + 1
  /\ short' = IF written + n <= Limit THEN short \cup {complete + 1} ELSE short
  /\ written' = 0
  /\ room' = room - (n + 1)

\* A piece with its newline: the record is handed on unless it is discarded.
EndRecord(n) ==
  /\ Room(n + 1)
  /\ complete < MaxRecords
  /\ handed' = IF discarding \/ buffer + n > Limit THEN handed ELSE handed \cup {complete + 1}
  /\ buffer' = 0
  /\ discarding' = FALSE
  /\ complete' = complete + 1
  /\ short' = IF written + n <= Limit THEN short \cup {complete + 1} ELSE short
  /\ written' = 0
  /\ room' = room - (n + 1)

\* process_line raised or journalctl ended: run() starts another journalctl
\* from now on, with a new buffer; what was in the pipe is not read.
ReaderRestart ==
  /\ buffer' = 0
  /\ discarding' = FALSE
  /\ written' = 0
  /\ room' = Chunk
  /\ UNCHANGED <<handed, complete, short>>

ReaderInit ==
  /\ room = Chunk /\ buffer = 0 /\ discarding = FALSE /\ handed = {}
  /\ written = 0 /\ complete = 0 /\ short = {}

ReaderNext ==
  \/ \E n \in 0 .. Chunk : LastPiece(n) \/ EndRecord(n)
  \/ ReaderRestart

ReaderSpec == ReaderInit /\ [][ReaderNext]_journalVars

-----------------------------------------------------------------------------
ReaderTypeOK ==
  /\ room \in 0 .. Chunk
  /\ buffer \in 0 .. Limit
  /\ discarding \in BOOLEAN
  /\ written \in Nat
  /\ complete \in Nat
  /\ handed \subseteq 1 .. complete
  /\ short \subseteq 1 .. complete

\* However the output is cut into chunks, exactly the records that fit are
\* handed on: an oversized one neither hides its successor nor leaks its tail
\* as a record of its own.
ShortRecordsAreHandedOn == handed = short

\* What the reader holds is the record in the pipe, or nothing of one that is
\* already too long.
BufferIsTheRecord ==
  IF discarding THEN written > Limit /\ buffer = 0 ELSE buffer = written

=============================================================================
