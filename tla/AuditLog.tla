------------------------------ MODULE AuditLog ------------------------------
(***************************************************************************)
(* The activity history: audit_writer.rs queues records and writes them    *)
(* from one thread; audit.rs appends, rotates and preserves the files, and *)
(* holds WRITE_LOCK while it does, so each of those is one action here,    *)
(* with an outcome for every point at which it may fail or die.            *)
(*                                                                         *)
(* A record is its number.  A file is the sequence of its records; an      *)
(* empty file is not told from an absent one.  What other programs do to   *)
(* the files, and lines torn by a failed write, are left out.              *)
(***************************************************************************)
EXTENDS Integers, Sequences, FiniteSets

CONSTANTS
  Records,    \* bound: how many records are enqueued
  Flushes,    \* flush() calls, each made once
  QueueCapacity,
  RetentionFiles,
  FileRecords,\* the records that RETENTION_FILE_BYTES hold
  Deaths      \* bound: how often the process dies

ASSUME AuditAssumption ==
  /\ Records \in Nat /\ QueueCapacity \in Nat \ {0} /\ Deaths \in Nat
  /\ RetentionFiles \in Nat \ {0, 1} /\ FileRecords \in Nat \ {0}

VARIABLES
  queue,     \* the channel to the writer thread
  failed,    \* AuditWriter.failed: something was lost
  bounded,   \* AuditWriter.retention: rotation is on
  saved,     \* the retention choice in settings.json
  files,     \* files[0] is audit.log, files[i] is audit.i
  preserved, \* the records in archive directories
  expired,   \* history: the records deleted with an oldest file
  written,   \* history: the records ever appended
  enqueued,  \* how many records enqueue() was called with
  refused,   \* records the queue had no room for, their failure not yet noted
  returned,  \* history: the records whose enqueue() has returned in this process
  flush,     \* flush[f]: how far f is, and the records that had returned before it
  deaths

logVars == <<queue, failed, bounded, saved, files, preserved, expired, written,
             enqueued, refused, returned, flush, deaths>>

Index == 0 .. RetentionFiles - 1
Oldest == RetentionFiles - 1
In(file) == {file[i] : i \in 1 .. Len(file)}
Oversized == \E i \in Index : Len(files[i]) > FileRecords

-----------------------------------------------------------------------------
(* The queue: AuditWriter::send(), enqueue() and flush() *)

HasRoom == Len(queue) < QueueCapacity

Enqueue ==
  /\ enqueued < Records /\ enqueued' = enqueued + 1
  /\ \/ /\ HasRoom
        /\ queue' = Append(queue, [kind |-> "record", of |-> enqueued'])
        /\ returned' = returned \cup {enqueued'} /\ UNCHANGED refused
     \/ ~HasRoom /\ refused' = refused \cup {enqueued'} /\ UNCHANGED <<queue, returned>>
  /\ UNCHANGED <<failed, bounded, saved, files, preserved, expired, written, flush, deaths>>

\* Mutant: a record that found no room is dropped without a trace.
OverflowSilently(r) ==
  /\ r \in refused /\ refused' = refused \ {r} /\ returned' = returned \cup {r}
  /\ UNCHANGED <<queue, failed, bounded, saved, files, preserved, expired, written,
                 enqueued, flush, deaths>>

\* The failure is noted after the refusal, with no lock between the two.
Overflow(r) ==
  /\ r \in refused /\ refused' = refused \ {r} /\ returned' = returned \cup {r}
  /\ failed' = TRUE
  /\ UNCHANGED <<queue, bounded, saved, files, preserved, expired, written,
                 enqueued, flush, deaths>>

FlushNow(f) ==
  /\ flush[f].at = "idle"
  /\ \/ /\ HasRoom /\ queue' = Append(queue, [kind |-> "flush", of |-> f])
        /\ flush' = [flush EXCEPT ![f] = [at |-> "waiting", before |-> returned]]
        /\ UNCHANGED failed
     \/ /\ ~HasRoom /\ failed' = TRUE
        /\ flush' = [flush EXCEPT ![f].at = "unconfirmed"] /\ UNCHANGED queue
  /\ UNCHANGED <<bounded, saved, files, preserved, expired, written, enqueued,
                 refused, returned, deaths>>

FlushTimesOut(f) ==
  /\ flush[f].at \in {"waiting", "synced"}
  /\ flush' = [flush EXCEPT ![f].at = "unconfirmed"] /\ failed' = TRUE
  /\ UNCHANGED <<queue, bounded, saved, files, preserved, expired, written, enqueued,
                 refused, returned, deaths>>

FlushReturns(f) ==
  /\ flush[f].at \in {"synced", "unsynced"}
  /\ flush' = [flush EXCEPT ![f].at =
                 IF flush[f].at = "synced" /\ ~failed THEN "confirmed" ELSE "unconfirmed"]
  /\ failed' = (failed \/ flush[f].at = "unsynced")
  /\ UNCHANGED <<queue, bounded, saved, files, preserved, expired, written, enqueued,
                 refused, returned, deaths>>

-----------------------------------------------------------------------------
(* The writer thread: append_record(), rotate() and sync_history() *)

\* Mutant: the loop of renames starts one file too late, and so overwrites one.
RotatedOneShort(done) ==
  [i \in Index |-> IF i \in {0, Oldest} THEN <<>> ELSE files[i - 1]]

\* rotate() stopped after its first `done` steps: the oldest file removed, and each
\* other, from the oldest, renamed into the place that was left free.
Rotated(done) ==
  [i \in Index |-> CASE done > 0 /\ i > RetentionFiles - done -> files[i - 1]
                     [] done > 0 /\ i = RetentionFiles - done -> <<>>
                     [] OTHER -> files[i]]

Appended(record, history) ==
  /\ files' = [history EXCEPT ![0] = Append(@, record)]
  /\ written' = written \cup {record}

Full == Len(files[0]) + 1 > FileRecords

\* Whatever fails, the record is lost, and the writer notes it.
AppendFails(history) == files' = history /\ failed' = TRUE /\ UNCHANGED written

WriteRecord ==
  /\ queue # <<>> /\ Head(queue).kind = "record" /\ queue' = Tail(queue)
  /\ \/ /\ ~(bounded /\ (Oversized \/ Full)) /\ Appended(Head(queue).of, files)
        /\ UNCHANGED <<failed, expired>>
     \/ AppendFails(files) /\ UNCHANGED expired
     \/ /\ bounded /\ ~Oversized /\ Full
        /\ expired' = expired \cup In(files[Oldest])
        /\ \/ Appended(Head(queue).of, Rotated(RetentionFiles)) /\ UNCHANGED failed
           \/ \E done \in 1 .. RetentionFiles : AppendFails(Rotated(done))
  /\ UNCHANGED <<bounded, saved, preserved, enqueued, refused, returned, flush, deaths>>

WriterSyncs ==
  /\ queue # <<>> /\ Head(queue).kind = "flush" /\ queue' = Tail(queue)
  /\ \E synced \in BOOLEAN :
       /\ failed' = (failed \/ ~synced)
       /\ flush' = [f \in Flushes |->
            IF f = Head(queue).of /\ flush[f].at = "waiting"
              THEN [flush[f] EXCEPT !.at = IF synced THEN "synced" ELSE "unsynced"]
              ELSE flush[f]]
  /\ UNCHANGED <<bounded, saved, files, preserved, expired, written, enqueued, refused,
                 returned, deaths>>

-----------------------------------------------------------------------------
(* Retention: transact_retention() and preserve_history() *)

Modes == {"preserve", "bounded"}

\* Mutant: rotation is switched over before the choice is saved.
ChooseEagerly ==
  /\ \E choice \in Modes :
       /\ choice = "bounded" => ~Oversized
       /\ bounded' = (choice = "bounded") /\ saved' \in {saved, choice}
  /\ UNCHANGED <<queue, failed, files, preserved, expired, written, enqueued, refused,
                 returned, flush, deaths>>

\* settings_set_impl(): nothing changes when the history is oversized, or the save fails.
Choose ==
  /\ \E choice \in Modes :
       /\ choice = "bounded" => ~Oversized
       /\ saved' = choice /\ bounded' = (choice = "bounded")
  /\ UNCHANGED <<queue, failed, files, preserved, expired, written, enqueued, refused,
                 returned, flush, deaths>>

\* settings_get_impl(): the saved choice takes effect, unless the settings cannot be
\* read or the history is oversized.
ApplySaved ==
  /\ bounded' \in {FALSE, saved = "bounded" /\ ~Oversized}
  /\ UNCHANGED <<queue, failed, saved, files, preserved, expired, written, enqueued,
                 refused, returned, flush, deaths>>

Present == {i \in Index : files[i] # <<>>}

\* preserve_history() moves the files from audit.log on.  Where it fails it moves back
\* what it can; what it cannot stays in the archive.
Preserve ==
  /\ \E f \in Flushes : flush[f].at = "confirmed"
  /\ \E first \in 0 .. RetentionFiles :
       LET moved == {i \in Present : i < first} IN
       \E back \in IF moved = Present THEN {{}} ELSE SUBSET moved :
         /\ files' = [i \in Index |-> IF i \in moved \ back THEN <<>> ELSE files[i]]
         /\ preserved' = preserved \cup UNION {In(files[i]) : i \in moved \ back}
  /\ UNCHANGED <<queue, failed, bounded, saved, expired, written, enqueued, refused,
                 returned, flush, deaths>>

\* The process dies: the files and the settings are what is left.
RestartLog ==
  /\ deaths < Deaths /\ deaths' = deaths + 1
  /\ queue' = <<>> /\ failed' = FALSE /\ bounded' = FALSE
  /\ refused' = {} /\ returned' = {}
  /\ flush' = [f \in Flushes |->
       IF flush[f].at = "idle" THEN flush[f] ELSE [at |-> "unconfirmed", before |-> {}]]
  /\ UNCHANGED <<saved, files, preserved, expired, written, enqueued>>

-----------------------------------------------------------------------------

LogInit ==
  /\ queue = <<>> /\ failed = FALSE /\ bounded = FALSE /\ saved = "preserve"
  /\ files = [i \in Index |-> <<>>] /\ preserved = {} /\ expired = {} /\ written = {}
  /\ enqueued = 0 /\ refused = {} /\ returned = {} /\ deaths = 0
  /\ flush = [f \in Flushes |-> [at |-> "idle", before |-> {}]]

LogNext ==
  \/ Enqueue \/ (\E r \in refused : Overflow(r))
  \/ (\E f \in Flushes : FlushNow(f) \/ FlushTimesOut(f) \/ FlushReturns(f))
  \/ WriteRecord \/ WriterSyncs
  \/ Choose \/ ApplySaved \/ Preserve \/ RestartLog

LogSpec == LogInit /\ [][LogNext]_logVars

-----------------------------------------------------------------------------
(* Properties *)

\* A flush that is confirmed says the truth: every record whose enqueue() had returned
\* before it was written.
FlushConfirms ==
  \A f \in Flushes : flush[f].at = "confirmed" => flush[f].before \subseteq written

Filed == UNION {In(files[i]) : i \in Index}

\* Each file is in the order of writing, and is newer than those of a higher index.
InOrder ==
  /\ \A i \in Index : \A m, n \in 1 .. Len(files[i]) : m < n => files[i][m] < files[i][n]
  /\ \A i, j \in Index : i < j => \A new \in In(files[i]), old \in In(files[j]) : old < new

\* Through rotations and preservations that stop half way, nothing written is lost but
\* what expired, no record is in two places, and the files keep the order of writing,
\* so that what expires is older than all they keep.
HistoryKept ==
  /\ written = Filed \cup preserved \cup expired
  /\ Filed \cap (preserved \cup expired) = {} /\ preserved \cap expired = {}
  /\ InOrder
  /\ \A old \in expired, kept \in Filed : old < kept

\* A record expires only while the saved choice is bounded retention.
ExpiryOnlyIfChosen == [][expired' # expired => saved = "bounded"]_logVars
=============================================================================
