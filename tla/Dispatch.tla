------------------------------ MODULE Dispatch ------------------------------
(***************************************************************************)
(* How a call comes to be made: the user's policy is asked when a widget   *)
(* wants the call, again when it is scheduled, and once more, from the     *)
(* file, when its permit is granted, for it may have waited in a queue     *)
(* while the user changed the policy.                                      *)
(*                                                                         *)
(* A policy is "invalid", also for a file that is missing, too long or not *)
(* read within two seconds, or a sequence of statements.  The actions of a *)
(* statement are the operations its patterns describe (module Glob).       *)
(***************************************************************************)
EXTENDS Integers, Sequences, FiniteSets

CONSTANTS
  Policies,       \* the policies the user may have
  Edits           \* bound: how often the file changes

\* The registry, one operation for each of its kinds.
Registry ==
  [GetRoleCredentials |-> [effect |-> "Credential", cli |-> FALSE],
   GetLogEvents |-> [effect |-> "ResourceRead", cli |-> TRUE],
   StartQuery |-> [effect |-> "QueryStart", cli |-> FALSE],
   StopQuery |-> [effect |-> "QueryStop", cli |-> FALSE]]

Reviewed == DOMAIN Registry

VARIABLES
  file,           \* the policy on disk
  edits,
  operation,      \* the one that is wanted
  cli,            \* ... by the aws-cli widget
  snapshot,       \* WidgetCtx::policy: the policy when the request began
  progress,          \* "wanted", "asked", "queued", "granted", "read", "authorized",
                  \* "made", "denied"
  current,        \* what the last read of the file returned
  cancelled,
  allowedSince    \* history: the file allowed the call at some time after the grant

vars == <<file, edits, operation, cli, snapshot, progress, current, cancelled, allowedSince>>

-----------------------------------------------------------------------------
(* The policy *)

Invalid == <<[effect |-> "Invalid", actions |-> {}]>>

\* An explicit Deny wins, and what is not allowed is denied.
Decision(policy, op) ==
  LET effects == {policy[i].effect : i \in {j \in DOMAIN policy : op \in policy[j].actions}}
  IN "Deny" \notin effects /\ "Allow" \in effects

Gate(policy, op) ==
  /\ op \in Reviewed
  /\ policy # Invalid
  /\ Decision(policy, op)
  /\ Registry[op].effect = "QueryStart" => Decision(policy, "StopQuery")

GateCli(policy, op) ==
  /\ op \in Reviewed /\ Registry[op].effect = "ResourceRead" /\ Registry[op].cli
  /\ Gate(policy, op)

CredentialPreflight(policy, op) ==
  Registry[op].effect = "Credential" \/ Gate(policy, "GetRoleCredentials")

Gated(policy) == IF cli THEN GateCli(policy, operation) ELSE Gate(policy, operation)

Allows(policy) == Gated(policy) /\ CredentialPreflight(policy, operation)

-----------------------------------------------------------------------------
Init ==
  /\ file \in Policies /\ edits = 0
  /\ operation \in Reviewed /\ cli \in BOOLEAN
  /\ snapshot = file /\ progress = (IF cli THEN "queued" ELSE "wanted")
  /\ current = <<>> /\ cancelled = FALSE
  /\ allowedSince = FALSE

Enter(next) ==
  /\ progress' = next
  /\ UNCHANGED <<file, edits, operation, cli, snapshot, current, cancelled, allowedSince>>

\* preflight, before anything is scheduled.
Preflight ==
  progress = "wanted" /\ Enter(IF Allows(snapshot) THEN "asked" ELSE "denied")

\* send asks the gate once more.  The aws-cli widget begins with the permit.
Send ==
  progress = "asked" /\ Enter(IF Gate(snapshot, operation) THEN "queued" ELSE "denied")

\* The scheduler grants the permit, in its own time.
Grant ==
  /\ progress = "queued" /\ ~cancelled
  /\ progress' = "granted"
  /\ allowedSince' = Allows(file)
  /\ UNCHANGED <<file, edits, operation, cli, snapshot, current, cancelled>>

\* Mutant: the policy of the request is asked again instead of the file.
ReadSnapshot ==
  /\ progress = "granted"
  /\ progress' = IF Gated(snapshot) THEN "read" ELSE "denied"
  /\ current' = IF Gated(snapshot) THEN snapshot ELSE current
  /\ UNCHANGED <<file, edits, operation, cli, snapshot, cancelled, allowedSince>>

\* authorize_dispatch: what the snapshot denies is not asked again; otherwise
\* the file is read as it is now, or not in time.
ReadCurrentPolicy ==
  /\ progress = "granted"
  /\ progress' = IF Gated(snapshot) THEN "read" ELSE "denied"
  /\ current' \in (IF Gated(snapshot) THEN {file, Invalid} ELSE {current})
  /\ UNCHANGED <<file, edits, operation, cli, snapshot, cancelled, allowedSince>>

Authorize ==
  /\ progress = "read"
  /\ Enter(IF ~Allows(current) \/ cancelled THEN "denied"
           ELSE IF cli THEN "authorized" ELSE "made")

\* preflight_cli, and the command is run.
RunCommand ==
  progress = "authorized" /\ Enter(IF Allows(snapshot) /\ ~cancelled THEN "made" ELSE "denied")

\* A call that is refused its permit, or is cancelled in the queue.
GiveUp == progress = "queued" /\ Enter("denied")

Cancel ==
  /\ ~cancelled /\ cancelled' = TRUE
  /\ UNCHANGED <<file, edits, operation, cli, snapshot, progress, current, allowedSince>>

Edit(policy) ==
  /\ edits < Edits /\ policy # file
  /\ file' = policy /\ edits' = edits + 1
  /\ allowedSince' = (allowedSince \/ (progress \in {"granted", "read"} /\ Allows(policy)))
  /\ UNCHANGED <<operation, cli, snapshot, progress, current, cancelled>>

Next ==
  \/ Preflight \/ Send \/ Grant \/ ReadCurrentPolicy \/ Authorize \/ RunCommand
  \/ GiveUp \/ Cancel
  \/ \E policy \in Policies : Edit(policy)

Spec == Init /\ [][Next]_vars

-----------------------------------------------------------------------------
\* A call is made only if the policy of its request allows it and the policy on
\* disk allowed it at some time after the call got its permit: a policy that was
\* narrowed while the call waited stops it, and a query whose start is allowed
\* may also be stopped.
DispatchedUnderCurrentPolicy ==
  progress = "made" => Allows(snapshot) /\ allowedSince
=============================================================================
