-------------------------------- MODULE Reads --------------------------------
(***************************************************************************)
(* The widgets that make a fixed number of requests: pipeline runs and     *)
(* actions, a stack's resources and events, log streams and events, a page *)
(* of package names, the details of the packages on screen, a Logs         *)
(* Insights query, error counts by log group, and the table of a command's *)
(* output.  Every outcome of the requests is explored; wording, sorting    *)
(* and the columns of a row are left out.                                  *)
(*                                                                         *)
(* The details of several packages are requested concurrently and arrive   *)
(* in any order.                                                           *)
(***************************************************************************)
EXTENDS Coverage

CONSTANTS
  Batch,          \* ENRICH_BATCH, RECENT_VERSION_LIMIT
  Concurrency     \* VERSION_DETAIL_CONCURRENCY

ASSUME ReadsAssumption == Batch \in Nat /\ Concurrency \in Nat

VARIABLES
  widget,
  jobs,           \* the requested packages, or versions: how many
  running,        \* those whose request is out
  settled,        \* what came back, in the order in which it did: [job, outcome]
  part,           \* the coverage of a first section
  order           \* history: the jobs in the order of the answer's rows

readVars == <<widget, jobs, running, settled, part, order>>

Widgets == {"pipeline runs", "execution detail", "stack detail", "streams",
            "stream events", "tail", "identities", "version details",
            "version dates", "insights", "errors", "command output"}

Batched == {"version details", "version dates"}

\* stage is "asking", "events", "done", or "denied".
ReadsInit ==
  /\ widget \in Widgets /\ stage = "asking"
  /\ jobs \in (IF widget \in Batched THEN 1..Batch ELSE {0})
  /\ running = {} /\ settled = <<>> /\ part = Unknown(0) /\ order = <<>>
  /\ AnswerInit

Entries(sizes) == UNION {[1..n -> sizes] : n \in 0..MaxEntries}

\* The answer, and what is true of it.
Answer(coverage, isLost, isUnread, isFailed, isUndetailed) ==
  /\ stage' = "done"
  /\ answer' = Attach(coverage)
  /\ lost' = isLost /\ unread' = isUnread
  /\ failed' = isFailed /\ undetailed' = isUndetailed
  /\ UNCHANGED <<widget, jobs, part>>

AnswerAtOnce(coverage, isLost, isUnread) ==
  Answer(coverage, isLost, isUnread, FALSE, FALSE) /\ UNCHANGED <<running, settled, order>>

Asking(kind) == stage = "asking" /\ widget = kind

\* A first request that is denied is answered without a coverage.
Denied ==
  /\ stage = "asking" /\ settled = <<>> /\ running = {}
  /\ widget # "version details"
  /\ stage' = "denied"
  /\ UNCHANGED <<widget, jobs, running, settled, part, order, answer, lost,
                 unread, failed, undetailed>>

\* Its failure leaves nothing to show.
Fails ==
  /\ stage = "asking" /\ widget \notin Batched \cup {"stack detail", "command output"}
  /\ Answer(Failure(Unknown(0), FALSE), FALSE, TRUE, TRUE, FALSE)
  /\ UNCHANGED <<running, settled, order>>

-----------------------------------------------------------------------------
(* One page *)

OnePage ==
  /\ Asking("pipeline runs") \/ Asking("execution detail")
  /\ \E rows \in 0..MaxRows, more \in BOOLEAN :
       AnswerAtOnce(MoreIf(more, Complete(rows)), FALSE, more)

\* The first MaxRows entries, as far as the bytes allow.
FirstRows(page) == SubSeq(page, 1, IF Len(page) < MaxRows THEN Len(page) ELSE MaxRows)
Shown(page) == Taken(FirstRows(page), NoPages, MaxEntries + 1)

Streams ==
  /\ Asking("streams")
  /\ \E page \in Entries(0..2), more \in BOOLEAN :
       LET shown == Shown(page)
       IN AnswerAtOnce(Apply(Retained(NoPages, shown),
                             MoreIf(more \/ Len(page) > shown.kept, Complete(shown.kept)),
                             shown.kept > 0),
                       Count(page, Len(page)) > shown.kept, more)

\* A token comes with every page of a stream: the end of it cannot be told.
StreamEvents ==
  /\ Asking("stream events")
  /\ \E page \in Entries(1..2) :
       LET shown == Shown(page)
       IN AnswerAtOnce(Apply(Retained(NoPages, shown),
                             LimitedIf(Len(page) > shown.kept,
                                       UnknownReason(Unknown(shown.kept))),
                             shown.kept > 0),
                       Len(page) > shown.kept, TRUE)

\* The newest events of the page first.
TailPage ==
  /\ Asking("tail")
  /\ \E page \in Entries(1..2), more \in BOOLEAN :
       LET shown == Shown(page)
       IN AnswerAtOnce(Apply(Retained(NoPages, shown),
                             MoreIf(more \/ Len(page) > shown.kept, Complete(shown.kept)),
                             shown.kept > 0),
                       Len(page) > shown.kept, more)

\* Names are kept up to the limit; a token that is too long or that was sent
\* with this request is not offered.
Identities ==
  /\ Asking("identities")
  /\ \E page \in Entries(0..2), next \in {"none", "good", "invalid"} :
       LET kept == Taken(page, NoPages, MaxRows)
       IN AnswerAtOnce(
            FailureIf(next = "invalid",
                      MoreIf(next = "good" \/ kept.lost,
                             Apply(Retained(NoPages, kept), Complete(kept.kept), kept.kept > 0)),
                      kept.kept > 0),
            kept.lost, next # "none")

-----------------------------------------------------------------------------
(* A stack: its resources, then its events *)

Detail(resources, events) ==
  Section(Section(Complete(resources.returned + events.returned), resources), events)

StackFails ==
  /\ Asking("stack detail")
  /\ Answer(Detail(Failure(Unknown(0), FALSE), UnknownReason(Unknown(0))),
            FALSE, TRUE, TRUE, FALSE)
  /\ UNCHANGED <<running, settled, order>>

\* As many resources as the service returns at most may not be all of them.
StackResources ==
  /\ Asking("stack detail")
  /\ \E n \in 0..MaxRows :
       /\ part' = UnknownIf(n >= MaxRows, Complete(n))
       /\ unread' = (n >= MaxRows)
  /\ stage' = "events"
  /\ UNCHANGED <<widget, jobs, running, settled, order, answer, lost, failed, undetailed>>

\* The events are denied, fail, or come, perhaps too many.
StackEvents ==
  /\ stage = "events"
  /\ \/ Answer(Detail(part, Failure(Unknown(0), FALSE)), FALSE, TRUE, TRUE, FALSE)
     \/ \E n \in 0..MaxEntries, more \in BOOLEAN :
          LET shown == IF n > MaxRows THEN MaxRows ELSE n
          IN Answer(Detail(part, MoreIf(n > MaxRows \/ more, Complete(shown))),
                    n > MaxRows, unread \/ more, FALSE, FALSE)
  /\ UNCHANGED <<running, settled, order>>

-----------------------------------------------------------------------------
(* The details of several packages, or the dates of several versions *)

\* latest_package_row, and describe_package_version.
Outcomes ==
  IF widget = "version dates" THEN {"loaded", "failed"}
  ELSE {"loaded", "failed", "more", "refused"}

Waiting == {j \in 1..jobs : j \notin running /\ \A i \in DOMAIN settled : settled[i].job # j}

\* Requests are started in order, no more than Concurrency at a time.
Start ==
  /\ stage = "asking" /\ Waiting # {} /\ Cardinality(running) < Concurrency
  /\ running' = running \cup {Min(Waiting)}
  /\ UNCHANGED <<widget, stage, jobs, settled, part, order, answer, lost, unread, failed,
                 undetailed>>

Settle(job, outcome) ==
  /\ job \in running
  /\ running' = running \ {job}
  /\ settled' = Append(settled, [job |-> job, outcome |-> outcome])
  /\ UNCHANGED <<widget, stage, jobs, part, order, answer, lost, unread, failed, undetailed>>

\* Mutant: the rows in the order in which they arrived.
AsArrived(results) == results

\* The rows, back in the order in which they were asked for.
InOrder(results) ==
  LET Sorts(p) == \A i, j \in DOMAIN p : i < j => results[p[i]].job <= results[p[j]].job
      sorted == CHOOSE p \in Bijection(DOMAIN results, DOMAIN results) : Sorts(p)
  IN [i \in DOMAIN results |-> results[sorted[i]]]

WithOutcome(outcomes) == {i \in DOMAIN settled : settled[i].outcome \in outcomes}

BatchAnswer ==
  /\ stage = "asking" /\ widget \in Batched /\ Len(settled) = jobs
  /\ LET results == InOrder(settled)
         \* A row is a byte; the bytes bound the packages' details, not the dates.
         fits == Taken([j \in 1..jobs |-> 1], NoPages, jobs).kept
         rows == IF widget = "version dates" THEN jobs ELSE fits
         failures == WithOutcome({"failed", "refused"}) # {}
         budget == IF rows < jobs THEN StopBytes(NoPages) ELSE NoPages
         c == FailureIf(failures, UnknownReason(Unknown(rows)),
                        IF widget = "version dates" THEN TRUE ELSE rows > 0)
     IN /\ order' = [i \in 1..rows |-> results[i].job]
        /\ Answer(Apply(budget, LimitedIf(WithOutcome({"more"}) # {}, c), rows > 0),
                  rows < jobs, TRUE, failures, WithOutcome({"more"}) # {})
  /\ UNCHANGED <<running, settled>>

-----------------------------------------------------------------------------
(* Queries and commands *)

\* The rows of a query that completed.
Insights ==
  /\ Asking("insights")
  /\ \E rows \in 0..MaxRows, more \in BOOLEAN :
       AnswerAtOnce(IF more THEN MoreIf(TRUE, Complete(rows))
                    ELSE UnknownIf(rows >= MaxRows, Complete(rows)),
                    FALSE, more \/ rows >= MaxRows)

\* The groups of the first page, up to a limit, are queried one by one.
Errors ==
  /\ Asking("errors")
  /\ \E groups \in 0..(MaxRows + 1), more \in BOOLEAN :
       LET queried == IF groups > MaxRows THEN MaxRows ELSE groups
           discovery == MoreIf(more \/ groups > MaxRows, Complete(queried))
       IN \E counts \in [1..queried -> {"failed", "none", "some", "full", "paged"}] :
            LET of(outcome) == Cardinality({g \in 1..queried : counts[g] = outcome})
                shown == of("some") + of("full") + of("paged")
                c == IF of("paged") > 0 THEN MoreIf(TRUE, Complete(shown))
                     ELSE UnknownIf(of("full") > 0, Complete(shown))
            IN /\ Answer(Section(FailureIf(of("failed") > 0, c, of("failed") < queried),
                                 discovery),
                         groups > MaxRows, more, of("failed") > 0,
                         of("full") + of("paged") > 0)
               /\ UNCHANGED <<running, settled, order>>

\* The output of a command as a table of limited rows and bytes.  Its pages
\* are the command's business, so it is never said to be complete.
CommandOutput ==
  /\ Asking("command output")
  /\ \E rows \in Entries(1..2), query, token, single, clipped, fields, withheld \in BOOLEAN :
       LET table == Taken(rows, NoPages, MaxRows)
           base == UnknownReason(Unknown(table.kept))
           paged == IF query THEN UnknownReason(base) ELSE MoreIf(token, base)
           cut == clipped \/ fields \/ withheld \/ table.rest
       IN Answer(LimitedIf(cut, UnknownIf(single, paged)),
                 table.rest \/ fields, TRUE, FALSE, withheld)
  /\ UNCHANGED <<running, settled, order>>

\* An answer over the response limit is withheld.
Withhold ==
  /\ stage = "done" /\ stage' = "withheld"
  /\ answer' = [Attach(Unknown(0)) EXCEPT !.status = "failed"]
  /\ lost' = TRUE
  /\ UNCHANGED <<widget, jobs, running, settled, part, order, unread, failed, undetailed>>

ReadsNext ==
  \/ Denied \/ Fails
  \/ OnePage \/ Streams \/ StreamEvents \/ TailPage \/ Identities
  \/ StackFails \/ StackResources \/ StackEvents
  \/ Start \/ (\E job \in running, outcome \in Outcomes : Settle(job, outcome)) \/ BatchAnswer
  \/ Insights \/ Errors \/ CommandOutput
  \/ Withhold

ReadsSpec == ReadsInit /\ [][ReadsNext]_<<readVars, stage, answerVars>>

-----------------------------------------------------------------------------
\* Details that are asked for together and arrive in any order are answered in
\* the order in which they were asked for, each in its own place.
RowsInRequestOrder == \A i \in DOMAIN order : order[i] = i
=============================================================================
