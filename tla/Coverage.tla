------------------------------ MODULE Coverage ------------------------------
(***************************************************************************)
(* What a widget says of how complete its answer is (coverage.rs), and the *)
(* bounds within which it may go on reading pages (budget.rs).             *)
(*                                                                         *)
(* Counts, limits, reason codes and messages are left out.  "more" is      *)
(* has_more: "no", "yes" or "unknown".  "failed" is Coverage::failed:      *)
(* "no" for None, "kept" for Some(true) and "empty" for Some(false).       *)
(***************************************************************************)
EXTENDS Integers, FiniteSetsExt, SequencesExt

VARIABLES
  stage,         \* how far the reads have come
  answer,
  lost,          \* history: something received and wanted is not shown
  unread,        \* history: the service has, or may have, more
  failed,        \* history: a request failed or was denied
  undetailed     \* history: a row is shown without all of its detail

answerVars == <<answer, lost, unread, failed, undetailed>>

Complete(returned) ==
  [level |-> "complete", more |-> "no", returned |-> returned, failed |-> "no",
   truncated |-> FALSE]

Unknown(returned) == [Complete(returned) EXCEPT !.level = "unknown", !.more = "unknown"]

HasMore(c, more) == [c EXCEPT !.more = more]

\* What was said to be all there is no longer is.
NoLongerAll(c) == IF c.more = "no" THEN "unknown" ELSE c.more

Limited(c) == [c EXCEPT !.level = "limited", !.truncated = TRUE, !.more = NoLongerAll(c)]

UnknownReason(c) ==
  [c EXCEPT !.level = IF @ = "complete" THEN "unknown" ELSE @, !.more = NoLongerAll(c)]

Fail(c, kept) ==
  IF c.failed = "kept" \/ kept \/ c.returned > 0 THEN "kept" ELSE "empty"

Failure(c, kept) == [UnknownReason(c) EXCEPT !.more = "unknown", !.failed = Fail(c, kept)]

Section(c, part) ==
  [c EXCEPT
     !.level = IF part.level = "limited" \/ (part.level = "unknown" /\ c.level = "complete")
                 THEN part.level ELSE @,
     !.truncated = @ \/ part.truncated,
     !.more = IF part.more = "yes" THEN "yes"
              ELSE IF part.more = "unknown" THEN NoLongerAll(c) ELSE @,
     !.failed = IF part.failed = "no" THEN @ ELSE Fail(c, part.failed = "kept")]

\* The answer carries its coverage, and says whether it was cut and whether
\* it failed.
Attach(c) ==
  [coverage |-> c, truncated |-> c.truncated,
   status |-> CASE c.failed = "no" -> "ok" [] c.failed = "kept" -> "partial"
                [] c.failed = "empty" -> "failed"]

\* The statement under an "if" of the code.
LimitedIf(condition, c) == IF condition THEN Limited(c) ELSE c
MoreIf(condition, c) == IF condition THEN Limited(HasMore(c, "yes")) ELSE c
UnknownIf(condition, c) == IF condition THEN UnknownReason(c) ELSE c
FailureIf(condition, c, kept) == IF condition THEN Failure(c, kept) ELSE c

-----------------------------------------------------------------------------
(* PageBudget *)

CONSTANTS
  MaxPages,   \* MAX_PAGES
  MaxBytes    \* MAX_RETAINED_BYTES

ASSUME BudgetAssumption == MaxPages \in Nat \ {0} /\ MaxBytes \in Nat

NoToken == "none"
Oversized == "oversized"

NoPages == [pages |-> 0, bytes |-> 0, tokens |-> {}, stopped |-> "no"]

\* One more response, with the token of the next one: [budget, on].
Advance(b, next) ==
  LET page == [b EXCEPT !.pages = @ + 1]
      seen == [page EXCEPT !.tokens = @ \cup {next}]
  IN IF b.stopped # "no" \/ next = NoToken
       THEN [budget |-> page, on |-> FALSE]
     ELSE IF next = Oversized \/ next \in b.tokens
       THEN [budget |-> [page EXCEPT !.stopped = "token"], on |-> FALSE]
     ELSE IF page.pages >= MaxPages
       THEN [budget |-> [seen EXCEPT !.stopped = "pages"], on |-> FALSE]
     ELSE [budget |-> seen, on |-> TRUE]

Retains(b, size) == b.bytes + size <= MaxBytes

\* The rows that are kept, at the sizes they have.
Keep(b, size) == [b EXCEPT !.bytes = @ + size]

StopBytes(b) == [b EXCEPT !.stopped = "bytes"]

Apply(b, c, kept) ==
  CASE b.stopped = "no" -> c
    [] b.stopped \in {"pages", "bytes"} -> Limited(c)
    [] b.stopped = "token" -> Failure(c, kept)

-----------------------------------------------------------------------------
(* Reading a page: a sequence of entries, each of them its size, or 0 when *)
(* the widget leaves it out.                                               *)

CONSTANTS
  MaxRows,    \* MAX_STACKS, max_groups, max_results, RESULT_LIMIT, MAX_EVENTS, limit, ...
  MaxEntries  \* entries in one page

ASSUME PageAssumption == MaxRows \in Nat /\ MaxEntries \in Nat

Size(page, n) ==
  LET size[k \in 0..Len(page)] == IF k = 0 THEN 0 ELSE size[k - 1] + page[k]
  IN size[n]
Count(page, n) == Cardinality({i \in 1..n : page[i] > 0})

\* How far into a page rows are kept: up to the first that exceeds the bytes,
\* or the one that fills the result.
Cut(page, b, room) ==
  Max({n \in 0..Len(page) :
         Retains(b, Size(page, n)) /\ (n > 0 => Count(page, n - 1) < room)})

Taken(page, b, room) ==
  LET n == Cut(page, b, room)
      kept == Count(page, n)
  IN [kept |-> kept, size |-> Size(page, n), full |-> kept >= room,
      rest |-> n < Len(page), overflow |-> n < Len(page) /\ kept < room,
      lost |-> \E i \in (n + 1)..Len(page) : page[i] > 0]

\* Mutant: rows that do not fit are left out without a stop.
RetainedQuietly(b, taken) == Keep(b, taken.size)

Retained(b, taken) ==
  IF taken.overflow THEN StopBytes(Keep(b, taken.size)) ELSE Keep(b, taken.size)

-----------------------------------------------------------------------------
\* No answer has been given.
Unanswered == [Attach(Unknown(0)) EXCEPT !.status = "none"]

AnswerInit ==
  answer = Unanswered /\ lost = FALSE /\ unread = FALSE /\ failed = FALSE /\ undetailed = FALSE

\* Said to be complete, nothing that was received is missing from an answer,
\* nothing was left unread and every row has all of its detail; said to have no
\* more, the same for its rows; rows that are missing make it a cut or a failed
\* answer, and one that keeps no trace of a failure met none.
Honest ==
  LET c == answer.coverage
  IN /\ c.level = "complete" => ~lost /\ ~unread /\ ~undetailed
     /\ c.more = "no" => ~lost /\ ~unread
     /\ lost => answer.truncated \/ answer.status # "ok"
     /\ failed => answer.status # "ok"

\* No answer claims more than was read, whatever failed, was cut or was withheld on
\* the way.
CoverageHonest == answer.status # "none" => Honest
=============================================================================
