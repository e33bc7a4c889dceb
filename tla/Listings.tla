------------------------------ MODULE Listings ------------------------------
(***************************************************************************)
(* The widgets that read a listing page by page, some of which then look   *)
(* up a detail for the rows they keep: CloudFormation stacks, log groups,  *)
(* Lambda functions, tagged resources, CodeArtifact packages, pipelines    *)
(* and the log of a build.                                                 *)
(*                                                                         *)
(* A page is a sequence of entries; an entry is its size, or 0 when the    *)
(* widget filters it out (no name, no match, a deleted stack).  The        *)
(* service may answer anything: empty pages, tokens that repeat or are too *)
(* long, an error after any page; a policy that is asked again before      *)
(* every page (stacks, packages) may come to deny it.                      *)
(***************************************************************************)
EXTENDS Coverage

CONSTANTS
  PageTokens,     \* the continuation tokens of moderate length
  DetailLimit     \* ENRICH_LIMIT, STACK_BUDGET

ASSUME ListingsAssumption == DetailLimit \in Nat

VARIABLES
  kind,
  budget,
  rows,           \* how many rows are kept
  token,          \* of the last response
  error,          \* page_error, failure: "no", "failed" or "denied"
  limited         \* result_limited, locally_omitted, truncated

listVars == <<kind, budget, rows, token, error, limited>>

Kinds == {"stacks", "groups", "functions", "resources", "packages",
          "pipelines", "build log"}

Pages == UNION {[1..n -> 0..2] : n \in 0..MaxEntries}
NextTokens == PageTokens \cup {NoToken, Oversized}

\* stage is "asking", "ending", "done", or "denied" before anything was read.
ListInit ==
  /\ kind \in Kinds /\ stage = "asking" /\ budget = NoPages /\ rows = 0
  /\ token = NoToken /\ error = "no" /\ limited = FALSE /\ AnswerInit

-----------------------------------------------------------------------------
(* Reading one page *)

\* A page is kept and the token that came with it followed, unless the scan
\* is over.
Turn(taken, after, next, over, cut) ==
  /\ budget' = after
  /\ rows' = rows + taken.kept
  /\ token' = next
  /\ limited' = cut
  /\ lost' = taken.lost
  /\ stage' = IF over THEN "ending" ELSE "asking"
  /\ UNCHANGED <<kind, error, answer, failed, undetailed>>

\* Stacks are kept before the token is looked at.
StacksPage(page, next) ==
  LET taken == Taken(page, budget, MaxRows - rows)
      step == Advance(Retained(budget, taken), next)
  IN /\ kind = "stacks"
     /\ Turn(taken, step.budget, next, ~step.on \/ taken.full,
             taken.full /\ (taken.rest \/ next # NoToken))
     /\ unread' = (next # NoToken)

\* The others look at the token first.
Followed(page, next) ==
  LET step == Advance(budget, next)
      taken == Taken(page, step.budget, MaxRows - rows)
  IN [taken |-> taken, after |-> Retained(step.budget, taken),
      over |-> ~step.on \/ taken.overflow \/ taken.full]

NamesPage(page, next) ==
  LET read == Followed(page, next)
  IN /\ kind \in {"groups", "functions"}
     /\ Turn(read.taken, read.after, next, read.over, read.taken.rest)
     /\ unread' = (next # NoToken)

ResourcesPage(page, next) ==
  LET read == Followed(page, next)
  IN /\ kind = "resources"
     /\ Turn(read.taken, read.after, next, read.over,
             read.taken.full /\ (read.taken.rest \/ next # NoToken))
     /\ unread' = (next # NoToken)

\* Entries without a name do not count as left out.
PackagesPage(page, next) ==
  LET read == Followed(page, next)
  IN /\ kind = "packages"
     /\ Turn(read.taken, read.after, next, read.over, read.taken.lost)
     /\ unread' = (next # NoToken)

PipelinesPage(page, next) ==
  LET read == Followed(page, next)
  IN /\ kind = "pipelines"
     /\ Turn(read.taken, read.after, next, read.over,
             read.taken.full /\ (read.taken.rest \/ next # NoToken))
     /\ unread' = (next # NoToken)

\* The log of a build has been read to its end when the token comes back.
BuildLogPage(page, next) ==
  LET end == next \in {NoToken, token}
      read == Followed(page, IF end THEN NoToken ELSE next)
  IN /\ kind = "build log"
     /\ Turn(read.taken, read.after, next, read.over,
             read.taken.overflow \/ (read.taken.full /\ (read.taken.rest \/ ~end)))
     /\ unread' = ~end

PageFails ==
  /\ error' = "failed" /\ failed' = TRUE /\ unread' = TRUE /\ stage' = "ending"
  /\ limited' = (kind = "build log" /\ rows > 0)
  /\ UNCHANGED <<kind, budget, rows, token, answer, lost, undetailed>>

\* The first request is denied, or, for a widget that asks again before every
\* page, a later one.  The pipelines' permission is the caller's.
PageDenied ==
  /\ kind # "pipelines"
  /\ budget.pages > 0 => kind \in {"stacks", "packages"}
  /\ error' = "denied" /\ failed' = TRUE /\ unread' = TRUE
  /\ stage' = IF budget.pages = 0 THEN "denied" ELSE "ending"
  /\ UNCHANGED <<kind, budget, rows, token, limited, answer, lost, undetailed>>

Page ==
  /\ stage = "asking"
  /\ \/ \E page \in Pages, next \in NextTokens :
          \/ StacksPage(page, next) \/ NamesPage(page, next)
          \/ ResourcesPage(page, next) \/ PackagesPage(page, next)
          \/ PipelinesPage(page, next) \/ BuildLogPage(page, next)
     \/ PageFails
     \/ PageDenied

-----------------------------------------------------------------------------
(* What the answer says of itself *)

Broken == error # "no"
Kept == rows > 0
PagesRead == budget.pages > 0

\* A limit was reached with more to come: groups, functions and packages.
Overfull == limited \/ (rows >= MaxRows /\ token # NoToken)

MaybeMoreIf(condition, c) == IF condition THEN Limited(HasMore(c, "unknown")) ELSE c

StacksListing ==
  FailureIf(Broken, MaybeMoreIf(limited, Apply(budget, Complete(rows), Kept)), PagesRead)

NamesListing ==
  Apply(budget, FailureIf(Broken, MoreIf(Overfull, Complete(rows)), Kept), Kept)

\* The scan of resources stopped at the last page it may read.
Capped == ~limited /\ budget.stopped # "bytes" /\ budget.pages >= MaxPages /\ token # NoToken
  /\ error = "no" /\ rows < MaxRows

ResourcesListing ==
  Apply(budget,
        FailureIf(Broken, MoreIf(limited, MoreIf(Capped, Complete(rows))), PagesRead), Kept)

PackagesListing ==
  Apply(budget, FailureIf(Broken, MoreIf(Overfull, Complete(rows)), PagesRead), Kept)

PipelinesListing ==
  FailureIf(Broken, Apply(budget, MoreIf(limited, Complete(rows)), Kept), PagesRead)

BuildLogListing ==
  LET c == Apply(budget, Complete(rows), Kept)
  IN IF Broken THEN Failure(c, Kept) ELSE MaybeMoreIf(limited, c)

-----------------------------------------------------------------------------
(* Details *)

\* The rows a detail is asked for: the first few, none after a failed page.
Targets == IF Broken THEN {} ELSE 1..(IF rows < DetailLimit THEN rows ELSE DetailLimit)

Having(outcome, d) == Cardinality({i \in DOMAIN d : d[i] = outcome})

\* What the stacks' and the resources' details have in common: "denied" means
\* the policy denied all of them, and "good" those that were loaded.
Details(good, failures, denied) ==
  LET c == FailureIf(failures > 0, Complete(good), TRUE)
  IN IF denied THEN Failure(c, Kept)
     ELSE IF Broken THEN UnknownReason(c)
     ELSE LimitedIf(rows > DetailLimit, c)

StackDetails(d, denied) ==
  UnknownIf(Having("full", d) > 0,
            Details(Having("loaded", d) + Having("full", d), Having("failed", d), denied))

\* Who owns a resource, from the rows CloudFormation describes: "other" is not
\* about this resource, "foreign" and "unnamed" establish no owner here.
ConfirmedStack(found) ==
  LET mine == ToSet(found) \ {"other"}
  IN IF mine \cap {"foreign", "unnamed"} = {} /\ Cardinality(mine) = 1
       THEN "confirmed" ELSE "unconfirmed"

Owned == UNION {[1..n -> {"other", "a", "b", "foreign", "unnamed"}] : n \in 0..2}

ResourceDetails(d, denied) ==
  LET confirmed == Having("confirmed", d)
  IN UnknownIf(confirmed < rows, Details(confirmed, Having("failed", d), denied))

\* latest_package_row: how far it comes, and whether there are more versions
\* than are shown.
PackageSteps ==
  [step : {"refused", "unlisted"}, more : {FALSE}]
    \cup [step : {"unversioned", "unpermitted", "undescribed", "loaded"}, more : BOOLEAN]

Denies(outcome) == outcome.step \in {"refused", "unpermitted"}
DetailFailed(outcome) == outcome.step \in {"unlisted", "unpermitted", "undescribed"}

\* One package after the other, until one is denied.
Reached(d) == {i \in DOMAIN d : \A j \in DOMAIN d : j < i => ~Denies(d[j])}

PackageDetails(d) ==
  LET attempted == {i \in Reached(d) : d[i].step # "refused"}
      failures == {i \in attempted : DetailFailed(d[i])}
      denied == \E i \in Reached(d) : Denies(d[i])
      c == FailureIf(failures # {}, Complete(Cardinality(attempted \ failures)), TRUE)
      e == IF denied THEN Failure(c, Kept) ELSE UnknownIf(Broken, c)
  IN MoreIf(\E i \in attempted : d[i].more, e)

-----------------------------------------------------------------------------
(* The answer *)

Finish(coverage, undetailedRows, failedDetail) ==
  /\ stage = "ending"
  /\ stage' = "done"
  /\ answer' = Attach(coverage)
  /\ undetailed' = undetailedRows
  /\ failed' = (failed \/ failedDetail)
  /\ UNCHANGED <<kind, budget, rows, token, error, limited, lost, unread>>

Sections(listing, details) == Section(Section(Complete(rows), listing), details)

StacksAnswer ==
  /\ kind = "stacks"
  /\ \/ \E d \in [Targets -> {"loaded", "full", "failed"}] :
          Finish(Sections(StacksListing, StackDetails(d, FALSE)),
                 Having("loaded", d) < rows, Having("failed", d) > 0)
     \/ Targets # {} /\ Finish(Sections(StacksListing, StackDetails(<<>>, TRUE)), TRUE, TRUE)

ResourcesAnswer ==
  /\ kind = "resources"
  /\ \E supported \in SUBSET Targets :
       \/ \E d \in [supported -> {"failed"} \cup {ConfirmedStack(found) : found \in Owned}] :
            Finish(Sections(ResourcesListing, ResourceDetails(d, FALSE)),
                   Having("confirmed", d) < rows, Having("failed", d) > 0)
       \/ /\ supported # {}
          /\ Finish(Sections(ResourcesListing, ResourceDetails(<<>>, TRUE)), TRUE, TRUE)

PackagesAnswer ==
  /\ kind = "packages"
  /\ \E d \in [(IF Broken THEN {} ELSE 1..rows) -> PackageSteps] :
       Finish(Sections(PackagesListing, PackageDetails(d)),
              \/ Broken /\ rows > 0
              \/ \E i \in DOMAIN d :
                   i \notin Reached(d) \/ d[i].more \/ Denies(d[i]) \/ DetailFailed(d[i]),
              \E i \in Reached(d) : Denies(d[i]) \/ DetailFailed(d[i]))

ListAnswer ==
  \/ kind \in {"groups", "functions"} /\ Finish(NamesListing, FALSE, FALSE)
  \/ kind = "pipelines" /\ Finish(PipelinesListing, FALSE, FALSE)
  \/ kind = "build log" /\ Finish(BuildLogListing, FALSE, FALSE)

\* The build is not found, its log is not in this account or not in
\* CloudWatch: there is nothing to read.
NoBuildLog ==
  /\ kind = "build log" /\ stage = "asking" /\ budget.pages = 0
  /\ stage' = "done" /\ unread' = TRUE
  /\ \/ failed' = TRUE /\ answer' = Attach(Failure(Unknown(0), FALSE))
     \/ UNCHANGED failed /\ answer' = Attach(UnknownReason(Unknown(0)))
  /\ UNCHANGED <<kind, budget, rows, token, error, limited, lost, undetailed>>

ListNext ==
  \/ Page \/ NoBuildLog
  \/ StacksAnswer \/ ResourcesAnswer \/ PackagesAnswer \/ ListAnswer

ListSpec == ListInit /\ [][ListNext]_<<listVars, stage, answerVars>>

=============================================================================
