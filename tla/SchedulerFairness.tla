------------------------- MODULE SchedulerFairness -------------------------
(***************************************************************************)
(* How long interactive work may keep an older background waiter from a    *)
(* permit it could have had.  Two history variables count, for every       *)
(* background waiter that is the oldest fitting one, the interactive       *)
(* admissions that pass it over:                                           *)
(*   streak     since it was last anything but the oldest fitting waiter   *)
(*              when somebody was admitted;                                *)
(*   overtaken  since it joined the queue.                                 *)
(* They only watch: FNext constrains no variable of Scheduler.             *)
(***************************************************************************)
EXTENDS Scheduler

VARIABLES streak, overtaken

history == <<streak, overtaken>>
fvars == <<vars, history>>

\* A step that admits c: scheduler.rs's only way out of "trying" with a permit.
Admits(c) == pc[c] = "trying" /\ pc'[c] = "admitted"

OldestFitting(d) == \E i \in Fitting : queue[i] = d /\ \A j \in Fitting : i <= j

\* d could have had the permit that interactive c takes.
Overtakes(c, d) ==
  /\ Admits(c) /\ Interactive(c)
  /\ ~Interactive(d) /\ OldestFitting(d)

Observe ==
  LET admission == \E c \in Calls : Admits(c)
      passed(d) == \E c \in Calls : Overtakes(c, d)
      leaves(d) == pc'[d] \notin Queued
  IN /\ streak' = [d \in Calls |->
          IF leaves(d) \/ (admission /\ ~passed(d)) THEN 0
          ELSE IF passed(d) THEN streak[d] + 1 ELSE streak[d]]
     /\ overtaken' = [d \in Calls |->
          IF leaves(d) THEN 0
          ELSE IF passed(d) /\ overtaken[d] <= PriorityBurst
               THEN overtaken[d] + 1 ELSE overtaken[d]]

FInit == Init /\ streak = [c \in Calls |-> 0] /\ overtaken = [c \in Calls |-> 0]
FNext == Next /\ Observe
FSpec == FInit /\ [][FNext]_fvars

\* Every permit is given back: each run() ends by its 20 second timeout at the
\* latest and every caller of acquire() by its scope's deadline.
ReleasingSpec ==
  FSpec /\ Fairness /\ \A c \in Calls : WF_vars(Release(c))

-----------------------------------------------------------------------------
\* The ageing rule as the code implements it: once the oldest fitting waiter is
\* background, at most PRIORITY_BURST interactive calls in a row are admitted
\* before it.
OldestPassedOverAtMostBurst == \A d \in Calls : streak[d] <= PriorityBurst

\* The rule as the test interactive_priority_cannot_starve_older_background_work
\* names it: a background waiter loses at most PRIORITY_BURST permits that it
\* could have had to interactive calls behind it.
BackgroundOvertakenAtMostBurst == \A d \in Calls : overtaken[d] <= PriorityBurst

\* With every permit given back, an interactive waiter is served, without help
\* from its own deadline and whatever background bursts it has to let through.
InteractiveServed ==
  \A c \in Calls : Interactive(c) /\ pc[c] \in Queued ~> pc[c] \notin Queued
=============================================================================
