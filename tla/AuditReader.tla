---------------------------- MODULE AuditReader ----------------------------
(***************************************************************************)
(* Paging through audit.log while it grows (audit_reader.rs).  A reader    *)
(* asks for the tail, then keeps asking with the cursor it was given.      *)
(*                                                                         *)
(* A byte is a newline, an ordinary byte, or one no record may hold.  A    *)
(* page is one action: it reads only up to the length found when it opened *)
(* the file, and a file replaced meanwhile makes it fail and change        *)
(* nothing.  Fingerprints and times always agree for a file that is only   *)
(* appended to, and edits by other programs, which they only sample, are   *)
(* left out, so a cursor fails here exactly when the file was rotated.     *)
(***************************************************************************)
EXTENDS Integers, Sequences, FiniteSets, SequencesExt

CONSTANTS
  FileBytes,    \* bound: how long the file grows
  Rotations,    \* bound: how often it is replaced
  Limit,        \* records asked for
  MaxRecord,    \* MAX_RECORD_BYTES
  MaxRead,      \* MAX_READ_BYTES, less what is kept for fingerprints
  MaxResponse   \* MAX_RESPONSE_BYTES, less its reserve

\* At least one record fits in what is read and in what is answered.
ASSUME ReaderAssumption ==
  /\ {FileBytes, Rotations} \subseteq Nat
  /\ {Limit, MaxRecord} \subseteq Nat \ {0}
  /\ {MaxRead, MaxResponse} \subseteq Nat
  /\ MaxRead > MaxRecord + 1 /\ MaxResponse > MaxRecord

VARIABLES
  file,      \* the bytes of audit.log
  rotations,
  cursor,    \* what the reader was given last: where to go on, and how
  shown,     \* history: where the records shown since the last reset start
  skipped,   \* history: the lines the pages after it counted as skipped
  base       \* history: the offset that the last reset ended at

readerVars == <<file, rotations, cursor, shown, skipped, base>>

Byte == {"newline", "ordinary", "bad"}

\* None, or one the file it came from is gone for.
NoCursor == [current |-> FALSE, from |-> 0, offset |-> 0, discard |-> FALSE, hasMore |-> FALSE]

-----------------------------------------------------------------------------
(* Rows::retain().  A line is where it starts and how long it is. *)

Valid(start, length) ==
  /\ length \in 1 .. MaxRecord
  /\ \A i \in start .. start + length - 1 : file[i] # "bad"

\* A valid record that does not fit in the answer has to wait.
MustWait(rows, start, length) ==
  Valid(start, length) /\ rows.bytes + length + 1 > MaxResponse

Retain(rows, start, length) ==
  IF Valid(start, length)
    THEN [rows EXCEPT !.entries = Append(@, start), !.bytes = @ + length + 1]
    ELSE [rows EXCEPT !.skipped = @ + 1]

NoRows == [entries |-> <<>>, bytes |-> 0, skipped |-> 0]

-----------------------------------------------------------------------------
(* reverse(): the tail.  One step per byte, from the last; `length` counts  *)
(* the bytes since the last newline met.                                    *)

Backwards(s, i) ==
  LET rows == Retain(s.rows, i + 1, s.length) IN
  IF s.stopped THEN s ELSE
  CASE file[i] # "newline" -> [s EXCEPT !.length = @ + 1]
    [] file[i] = "newline" /\ s.final ->  \* what follows the last is not a record yet
         [s EXCEPT !.final = FALSE, !.length = 0, !.discard = s.length > MaxRecord,
                   !.offset = IF s.length > MaxRecord THEN Len(file) ELSE i]
    [] file[i] = "newline" /\ ~s.final ->
         IF MustWait(s.rows, i + 1, s.length) THEN [s EXCEPT !.stopped = TRUE]
         ELSE [s EXCEPT !.rows = rows, !.length = 0,
                        !.stopped = Len(rows.entries) = Limit]

\* The first line of the file has no newline before it.
FirstLine(s) ==
  IF s.final
    THEN [s EXCEPT !.discard = s.length > MaxRecord,
                   !.offset = IF s.length > MaxRecord THEN Len(file) ELSE 0]
    ELSE IF MustWait(s.rows, 1, s.length) THEN s
    ELSE [s EXCEPT !.rows = Retain(s.rows, 1, s.length)]

TailPage ==
  LET unread == IF Len(file) > MaxRead THEN Len(file) - MaxRead ELSE 0
      start == [length |-> 0, final |-> TRUE, offset |-> Len(file), discard |-> FALSE,
                stopped |-> FALSE, rows |-> NoRows]
      scan[k \in 0 .. Len(file) - unread] ==
        IF k = 0 THEN start ELSE Backwards(scan[k - 1], Len(file) + 1 - k)
      read == scan[Len(file) - unread]
  IN  CASE read.stopped -> read
        [] ~read.stopped /\ unread = 0 -> FirstLine(read)
        [] ~read.stopped /\ unread > 0 /\ read.final -> [read EXCEPT !.discard = TRUE]
        [] OTHER -> read

-----------------------------------------------------------------------------
(* forward(): from the cursor on *)

EndLine(s, i) ==
  LET rows == IF s.discard THEN [s.rows EXCEPT !.skipped = @ + 1]
                           ELSE Retain(s.rows, i - s.length, s.length) IN
  IF ~s.discard /\ MustWait(s.rows, i - s.length, s.length)
    THEN [s EXCEPT !.stopped = TRUE, !.limited = TRUE]
    ELSE [s EXCEPT !.rows = rows, !.discard = FALSE, !.length = 0, !.offset = i,
                   !.stopped = Len(rows.entries) = Limit,
                   !.limited = Len(rows.entries) = Limit /\ i < Len(file)]

\* Mutant: a line that grew too long is skipped from its beginning, every time.
ForwardsForgetful(s, i) ==
  CASE s.stopped -> s
    [] ~s.stopped /\ file[i] = "newline" -> EndLine(s, i)
    [] OTHER -> [s EXCEPT !.length = @ + 1, !.discard = @ \/ s.length + 1 > MaxRecord]

\* Once a line is too long, what was read of it is not read again.
Forwards(s, i) ==
  LET long == s.discard \/ s.length + 1 > MaxRecord IN
  CASE s.stopped -> s
    [] ~s.stopped /\ file[i] = "newline" -> EndLine(s, i)
    [] OTHER -> [s EXCEPT !.length = @ + 1, !.discard = long,
                          !.offset = IF long THEN i ELSE @]

Continue ==
  LET end == IF cursor.offset + MaxRead < Len(file) THEN cursor.offset + MaxRead
                                                    ELSE Len(file)
      start == [length |-> 0, offset |-> cursor.offset, discard |-> cursor.discard,
                stopped |-> FALSE, limited |-> FALSE, rows |-> NoRows]
      scan[k \in 0 .. end - cursor.offset] ==
        IF k = 0 THEN start ELSE Forwards(scan[k - 1], cursor.offset + k)
      read == scan[end - cursor.offset]
  IN  IF read.stopped THEN read ELSE [read EXCEPT !.limited = end < Len(file)]

-----------------------------------------------------------------------------
(* read_page(), the writer, and rotation *)

\* An oversized line's offset lies within it: its length is not known on going on.
ReadOn ==
  /\ cursor.current /\ file # <<>>
  /\ cursor' = [current |-> TRUE, from |-> cursor.offset,
                offset |-> Continue.offset, discard |-> Continue.discard,
                hasMore |-> Continue.limited /\ Continue.offset < Len(file)]
  /\ shown' = shown \o Continue.rows.entries
  /\ skipped' = skipped + Continue.rows.skipped
  /\ UNCHANGED <<file, rotations, base>>

\* The first page, and each after a rotation, replaces what is shown.
ReadTail ==
  /\ ~cursor.current /\ file # <<>>
  /\ cursor' = [current |-> TRUE, from |-> 0, offset |-> TailPage.offset,
                discard |-> TailPage.discard, hasMore |-> FALSE]
  /\ shown' = Reverse(TailPage.rows.entries)
  /\ skipped' = 0 /\ base' = TailPage.offset
  /\ UNCHANGED <<file, rotations>>

\* There is no file, or an empty one.
ReadNothing ==
  /\ file = <<>>
  /\ cursor' = NoCursor /\ shown' = <<>> /\ skipped' = 0 /\ base' = 0
  /\ UNCHANGED <<file, rotations>>

\* A line may be written in pieces.
Write ==
  /\ Len(file) < FileBytes
  /\ \E byte \in Byte : file' = Append(file, byte)
  /\ UNCHANGED <<rotations, cursor, shown, skipped, base>>

Rotate ==
  /\ file # <<>> /\ rotations < Rotations /\ rotations' = rotations + 1
  /\ file' = <<>> /\ cursor' = NoCursor
  /\ shown' = <<>> /\ skipped' = 0 /\ base' = 0

ReaderInit ==
  /\ file = <<>> /\ rotations = 0 /\ cursor = NoCursor
  /\ shown = <<>> /\ skipped = 0 /\ base = 0

ReaderNext == ReadOn \/ ReadTail \/ ReadNothing \/ Write \/ Rotate

ReaderSpec == ReaderInit /\ [][ReaderNext]_readerVars

-----------------------------------------------------------------------------
(* Properties *)

\* Where the lines of the file end, and where the line that ends there starts.
Ends == {i \in 1 .. Len(file) : file[i] = "newline"}
StartOf(end) ==
  CHOOSE s \in 1 .. end : s - 1 \in Ends \cup {0} /\ \A i \in s .. end - 1 : i \notin Ends
Complete == {end \in Ends : end <= cursor.offset}
Readable == {end \in Complete : Valid(StartOf(end), end - StartOf(end))}

\* However pages, appends and rotations interleave: the records shown are, in order and
\* each once, all the valid records of the file from the first one shown up to the
\* cursor; every other line passed since the tail was counted; the cursor is between
\* two lines or in one that is too long; and as long as more is promised it advances.
PagesContinueExactly ==
  cursor.current =>
    /\ \A i, j \in 1 .. Len(shown) : i < j => shown[i] < shown[j]
    /\ ToSet(shown) \subseteq {StartOf(end) : end \in Readable}
    /\ \A end \in Readable :
         end > base \/ (shown # <<>> /\ StartOf(end) > shown[1]) => StartOf(end) \in ToSet(shown)
    /\ skipped = Cardinality({end \in Complete \ Readable : end > base})
    /\ LET unfinished == cursor.offset - (IF Complete = {} THEN 0 ELSE Max(Complete)) IN
       IF cursor.discard THEN unfinished > MaxRecord ELSE unfinished = 0
    /\ cursor.hasMore => cursor.offset > cursor.from
=============================================================================
