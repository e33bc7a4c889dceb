--------------------------- MODULE QueryLifecycle ---------------------------
(***************************************************************************)
(* The Logs Insights query lifecycle, src-tauri/src/widgets/query.rs, and  *)
(* the remote queries it leaves behind.                                    *)
(*                                                                         *)
(* A run registers its key, waits for one of the Query permits and then    *)
(* for an Ordinary one, checks the current policy, sends StartQuery, polls *)
(* and, unless the query ended by itself, asks for StopQuery.  Whatever    *)
(* became of the remote query, the run must either know that it is over or *)
(* leave an Unknown entry that keeps the permit until the user deliberately *)
(* acknowledges it.                                                        *)
(*                                                                         *)
(* The permits are the scheduler's: ResourceBudget says what they promise, *)
(* and a wait for one can fail at any time (cancellation, deadline, full   *)
(* queue, operation budget).  CloudWatch Logs is the environment: requests *)
(* and answers may be late or lost, and a query ends when it likes.        *)
(***************************************************************************)
EXTENDS Integers, FiniteSets

CONSTANTS
  Runs,           \* calls of run(); the entry of run r carries the token r
  Keys,           \* registry_key()s: authority, widget and query
  KeyOf,          \* KeyOf[r]
  AuthorityOf,    \* AuthorityOf[k]: recovery_authority_key
  QueryLimit,     \* QUERY_LIMIT
  StartLimit,     \* Ordinary permits that StartQuery can get
  RegistryLimit,  \* REGISTRY_LIMIT
  Policies        \* the policies that may be current: sets of allowed operations

Operations == {"StartQuery", "GetQueryResults", "StopQuery"}

ASSUME QueryAssumption ==
  /\ IsFiniteSet(Runs)
  /\ KeyOf \in [Runs -> Keys]
  /\ QueryLimit \in Nat \ {0}
  /\ StartLimit \in Nat \ {0}
  /\ RegistryLimit \in Nat \ {0}
  /\ Policies \subseteq SUBSET Operations
  /\ Operations \in Policies

VARIABLES
  pc,            \* where each run is
  entries,       \* QueryRegistry.entries: state and token under each key
  permit,        \* who owns r's Query permit: its guard, its Unknown entry or nobody
  unknown,       \* the runs whose guard is closing on an unknown remote state
  remote,        \* what really became of r's StartQuery
  policy,        \* the operations the policy file allows now
  acknowledged,  \* history: the runs whose unknown outcome the user acknowledged
  cleared        \* history: the runs that had an Ordinary permit while all was allowed

vars == <<pc, entries, permit, unknown, remote, policy, acknowledged, cleared>>

\* idle         not called
\* beginning    preflight passed, nothing selected; begin() still to come
\* selected     the selected unknown query released; begin() still to come
\* wantsQuery   in acquire(Query)
\* wantsStart   operation counted; in acquire(Ordinary)
\* authorizing  reading the current policy
\* authorized   policy read; last check() still to come
\* starting     StartQuery sent
\* polling      has the query id
\* stopping     waiting for a Cleanup permit and reading the policy
\* stopSent     StopQuery sent
\* closing      outcome decided; finish() or the guard's drop() to take the mutex
\* dropping     entry settled; the guard's fields are dropped
\* done
GuardStates == {"wantsQuery", "wantsStart", "authorizing", "authorized", "starting",
                "polling", "stopping", "stopSent", "closing"}
RemotePossible == {"starting", "polling", "stopping", "stopSent"}
PCs == GuardStates \cup {"idle", "beginning", "selected", "dropping", "done"}

Absent == [state |-> "absent"]
Entry == [state : {"active", "unknown"}, token : Runs]

Held == {r \in Runs : permit[r] # "none"}
Starting == {r \in Runs : pc[r] \in {"authorizing", "authorized", "starting"}}

Goto(r, to) == pc' = [pc EXCEPT ![r] = to]

-----------------------------------------------------------------------------
(* QueryRegistry *)

\* The user gives up the unknown query with token t: the entry's permit is dropped.
Release(t) ==
  /\ permit' = [permit EXCEPT ![t] = "none"]
  /\ acknowledged' = acknowledged \cup {t}

\* The preflights of the three operations, against the policy the request was
\* given: it may have changed either way since.
Preflight(r) ==
  /\ pc[r] = "idle"
  /\ Goto(r, "beginning") \/ Goto(r, "done")
  /\ UNCHANGED <<entries, permit, unknown, remote, policy, acknowledged, cleared>>

Selects(r, k, t) ==
  /\ entries[k].state = "unknown"
  /\ entries[k].token = t
  /\ AuthorityOf[k] = AuthorityOf[KeyOf[r]]

\* Mutant: the selected entry goes and its permit does not.
AcknowledgeLeaks(r, t) ==
  /\ pc[r] = "beginning"
  /\ \E k \in Keys :
       /\ Selects(r, k, t)
       /\ entries' = [entries EXCEPT ![k] = Absent]
  /\ Goto(r, "selected")
  /\ UNCHANGED <<permit, unknown, remote, policy, acknowledged, cleared>>

\* acknowledge_selected(): the one unknown entry of r's authority with token t is
\* removed, whatever begin() says next.
AcknowledgeSelected(r, t) ==
  /\ pc[r] = "beginning"
  /\ \E k \in Keys :
       /\ Selects(r, k, t)
       /\ entries' = [entries EXCEPT ![k] = Absent]
  /\ Release(t)
  /\ Goto(r, "selected")
  /\ UNCHANGED <<unknown, remote, policy, cleared>>

\* recovery_mismatch: no such token, not this principal's, or no acknowledgement.
Mismatch(r) ==
  /\ pc[r] = "beginning"
  /\ Goto(r, "done")
  /\ UNCHANGED <<entries, permit, unknown, remote, policy, acknowledged, cleared>>

\* The unknown entries that still hold a permit.
Pinning ==
  {k \in Keys : entries[k].state = "unknown" /\ permit[entries[k].token] = "entry"}

\* begin() has room for one more key.  Its literal 2 is QUERY_LIMIT.
Room ==
  /\ Cardinality(Pinning) < QueryLimit
  /\ Cardinality({k \in Keys : entries[k] # Absent}) < RegistryLimit

\* already_active, recovery_required, query_capacity_unknown or recovery_capacity.
Refuse(r) ==
  /\ pc[r] \in {"beginning", "selected"}
  /\ entries[KeyOf[r]] # Absent \/ ~Room
  /\ Goto(r, "done")
  /\ UNCHANGED <<entries, permit, unknown, remote, policy, acknowledged, cleared>>

\* begin() of an absent key.
Begin(r) ==
  /\ pc[r] \in {"beginning", "selected"}
  /\ entries[KeyOf[r]] = Absent
  /\ Room
  /\ entries' = [entries EXCEPT ![KeyOf[r]] = [state |-> "active", token |-> r]]
  /\ Goto(r, "wantsQuery")
  /\ UNCHANGED <<permit, unknown, remote, policy, acknowledged, cleared>>

\* begin() with acknowledge_unknown and no token: the unknown entry of r's own key
\* is replaced.
Replace(r) ==
  LET k == KeyOf[r]
  IN  /\ pc[r] = "beginning"
      /\ entries[k].state = "unknown"
      /\ Release(entries[k].token)
      /\ entries' = [entries EXCEPT ![k] = [state |-> "active", token |-> r]]
      /\ Goto(r, "wantsQuery")
      /\ UNCHANGED <<unknown, remote, policy, cleared>>

\* The guard goes on to finish(isUnknown).
Close(r, isUnknown) ==
  /\ Goto(r, "closing")
  /\ unknown' = IF isUnknown THEN unknown \cup {r} ELSE unknown

\* The entry of a guard that closes: it becomes unknown, or is removed.
Keeps(r) == r \in unknown /\ entries[KeyOf[r]] # Absent
MarkUnknown(k) == entries' = [entries EXCEPT ![k].state = "unknown"]
Remove(k) == entries' = [entries EXCEPT ![k] = Absent]

\* Mutants: an unknown outcome keeps no permit; a known one keeps its entry.
FinishWithoutPermit(r) ==
  /\ pc[r] = "closing"
  /\ IF Keeps(r) THEN MarkUnknown(KeyOf[r]) ELSE Remove(KeyOf[r])
  /\ Goto(r, "dropping")
  /\ UNCHANGED <<permit, unknown, remote, policy, acknowledged, cleared>>
FinishKeepsEntry(r) ==
  /\ pc[r] = "closing"
  /\ IF Keeps(r) THEN MarkUnknown(KeyOf[r]) ELSE UNCHANGED entries
  /\ permit' = IF Keeps(r) /\ permit[r] = "guard" THEN [permit EXCEPT ![r] = "entry"] ELSE permit
  /\ Goto(r, "dropping")
  /\ UNCHANGED <<unknown, remote, policy, acknowledged, cleared>>

\* QueryGuard::finish() and drop(): an entry that becomes unknown takes the guard's
\* permit over.
Finish(r) ==
  /\ pc[r] = "closing"
  /\ IF Keeps(r) THEN MarkUnknown(KeyOf[r]) ELSE Remove(KeyOf[r])
  /\ permit' = IF Keeps(r) /\ permit[r] = "guard" THEN [permit EXCEPT ![r] = "entry"] ELSE permit
  /\ Goto(r, "dropping")
  /\ UNCHANGED <<unknown, remote, policy, acknowledged, cleared>>

\* The mutex is released; a permit still in the guard is dropped.
Drop(r) ==
  /\ pc[r] = "dropping"
  /\ permit' = IF permit[r] = "guard" THEN [permit EXCEPT ![r] = "none"] ELSE permit
  /\ Goto(r, "done")
  /\ UNCHANGED <<entries, unknown, remote, policy, acknowledged, cleared>>

\* The worker panics: the guard is dropped where it is.
Unwind(r) ==
  /\ pc[r] \in GuardStates \ {"closing"}
  /\ Close(r, pc[r] \in RemotePossible)
  /\ UNCHANGED <<entries, permit, remote, policy, acknowledged, cleared>>

-----------------------------------------------------------------------------
(* run_inner() *)

\* A Query permit, and the operation counted.
AcquireQuery(r) ==
  /\ pc[r] = "wantsQuery"
  /\ Cardinality(Held) < QueryLimit
  /\ permit' = [permit EXCEPT ![r] = "guard"]
  /\ Goto(r, "wantsStart")
  /\ UNCHANGED <<entries, unknown, remote, policy, acknowledged, cleared>>

\* The Ordinary permit for StartQuery, held until the answer or until r closes.
AcquireStart(r) ==
  /\ pc[r] = "wantsStart"
  /\ Cardinality(Starting) < StartLimit
  /\ Goto(r, "authorizing")
  /\ cleared' = IF policy = Operations THEN cleared \cup {r} ELSE cleared
  /\ UNCHANGED <<entries, permit, unknown, remote, policy, acknowledged>>

\* Mutant: the snapshot of the first preflight is trusted.
AuthorizeStale(r) ==
  /\ pc[r] = "authorizing"
  /\ Goto(r, "authorized")
  /\ UNCHANGED <<entries, permit, unknown, remote, policy, acknowledged, cleared>>

\* authorize_start(): the policy is read again, now that the run is admitted.
Authorize(r) ==
  /\ pc[r] = "authorizing"
  /\ policy = Operations
  /\ Goto(r, "authorized")
  /\ UNCHANGED <<entries, permit, unknown, remote, policy, acknowledged, cleared>>

\* A permit is not granted, an operation not counted, a check() fails, or the
\* current policy denies: nothing has been sent.
GiveUp(r) ==
  /\ pc[r] \in {"wantsQuery", "wantsStart", "authorizing", "authorized"}
  /\ Close(r, FALSE)
  /\ UNCHANGED <<entries, permit, remote, policy, acknowledged, cleared>>

\* StartQuery, with a single attempt.
Start(r) ==
  /\ pc[r] = "authorized"
  /\ remote' = [remote EXCEPT ![r] = "requested"]
  /\ Goto(r, "starting")
  /\ UNCHANGED <<entries, permit, unknown, policy, acknowledged, cleared>>

Started(r) ==
  /\ pc[r] = "starting"
  /\ remote[r] \in {"running", "ended"}
  /\ Goto(r, "polling")
  /\ UNCHANGED <<entries, permit, unknown, remote, policy, acknowledged, cleared>>

\* One of the five error codes that mean AWS did not accept the query.
StartFailed(r) ==
  /\ pc[r] = "starting"
  /\ remote[r] = "rejected"
  /\ Close(r, FALSE)
  /\ UNCHANGED <<entries, permit, remote, policy, acknowledged, cleared>>

\* Mutant: a StartQuery that timed out counts as not accepted.
StartUnknownForgiven(r) ==
  /\ pc[r] = "starting"
  /\ Close(r, FALSE)
  /\ UNCHANGED <<entries, permit, remote, policy, acknowledged, cleared>>

\* The start timeout, any other error, or an answer without an id.
StartUnknown(r) ==
  /\ pc[r] = "starting"
  /\ Close(r, TRUE)
  /\ UNCHANGED <<entries, permit, remote, policy, acknowledged, cleared>>

\* Complete, Failed, Cancelled or Timeout.
PollTerminal(r) ==
  /\ pc[r] = "polling"
  /\ remote[r] = "ended"
  /\ Close(r, FALSE)
  /\ UNCHANGED <<entries, permit, remote, policy, acknowledged, cleared>>

\* Cancelled, out of time or polls, or a poll failed: the query may be running.
PollEnds(r) ==
  /\ pc[r] = "polling"
  /\ Goto(r, "stopping")
  /\ UNCHANGED <<entries, permit, unknown, remote, policy, acknowledged, cleared>>

\* stop() reads the policy under its Cleanup permit and sends StopQuery.
AskStop(r) ==
  /\ pc[r] = "stopping"
  /\ "StopQuery" \in policy
  /\ Goto(r, "stopSent")
  /\ UNCHANGED <<entries, permit, unknown, remote, policy, acknowledged, cleared>>

\* Cleanup::Stopped.
Stopped(r) ==
  /\ pc[r] = "stopSent"
  /\ remote' = [remote EXCEPT ![r] = "ended"]
  /\ Close(r, FALSE)
  /\ UNCHANGED <<entries, permit, policy, acknowledged, cleared>>

\* NotConfirmed, Denied or Failed; no Cleanup permit or no answer in ten seconds.
StopUnknown(r) ==
  /\ pc[r] \in {"stopping", "stopSent"}
  /\ Close(r, TRUE)
  /\ UNCHANGED <<entries, permit, remote, policy, acknowledged, cleared>>

-----------------------------------------------------------------------------
(* The environment *)

\* AWS takes the request, refuses it, or never sees it; a query ends, a late stop
\* that nobody waited for included.
RemoteStep(r) ==
  /\ \/ remote[r] = "requested" /\ remote' = [remote EXCEPT ![r] = "running"]
     \/ remote[r] = "requested" /\ remote' = [remote EXCEPT ![r] = "rejected"]
     \/ remote[r] = "running" /\ remote' = [remote EXCEPT ![r] = "ended"]
  /\ UNCHANGED <<pc, entries, permit, unknown, policy, acknowledged, cleared>>

\* The policy file is saved.
ChangePolicy(p) ==
  /\ p # policy
  /\ policy' = p
  /\ cleared' = IF p = Operations
                THEN cleared \cup {r \in Runs : pc[r] = "authorizing"} ELSE cleared
  /\ UNCHANGED <<pc, entries, permit, unknown, remote, acknowledged>>

-----------------------------------------------------------------------------
Init ==
  /\ pc = [r \in Runs |-> "idle"]
  /\ entries = [k \in Keys |-> Absent]
  /\ permit = [r \in Runs |-> "none"]
  /\ unknown = {}
  /\ remote = [r \in Runs |-> "none"]
  /\ policy \in Policies
  /\ acknowledged = {}
  /\ cleared = {}

\* What a run that has begun is owed: permits, answers or the timer that ends the wait.
Progress(r) ==
  \/ AcquireQuery(r) \/ AcquireStart(r) \/ Authorize(r) \/ GiveUp(r)
  \/ Start(r) \/ Started(r) \/ StartFailed(r) \/ StartUnknown(r)
  \/ PollTerminal(r) \/ PollEnds(r) \/ AskStop(r) \/ Stopped(r) \/ StopUnknown(r)
  \/ Finish(r) \/ Drop(r)

Next ==
  \/ \E r \in Runs :
       \/ Preflight(r) \/ Mismatch(r) \/ Refuse(r) \/ Begin(r) \/ Replace(r)
       \/ Progress(r) \/ Unwind(r) \/ RemoteStep(r)
       \/ \E t \in Runs : AcknowledgeSelected(r, t)
  \/ \E p \in Policies : ChangePolicy(p)

Spec == Init /\ [][Next]_vars

(***************************************************************************)
(* Every wait of run_inner() has a timer: the run's deadline, the start    *)
(* timeout, the two seconds for the policy, the cleanup scope's ten        *)
(* seconds.  Nothing is assumed of AWS, of other runs or of the user.      *)
(***************************************************************************)
FairSpec == Spec /\ \A r \in Runs : WF_vars(Progress(r))

-----------------------------------------------------------------------------
(* Properties *)

TypeOK ==
  /\ pc \in [Runs -> PCs]
  /\ entries \in [Keys -> Entry \cup {Absent}]
  /\ permit \in [Runs -> {"none", "guard", "entry"}]
  /\ unknown \subseteq Runs
  /\ remote \in [Runs -> {"none", "requested", "running", "rejected", "ended"}]
  /\ policy \in Policies
  /\ acknowledged \subseteq Runs
  /\ cleared \subseteq Runs

\* An open guard's entry is active and its own, and every active entry has one: no
\* acknowledgement and no other run's finish() takes an entry from under a guard,
\* and no key stays "already_active" when its run is gone.
EntriesMatchGuards ==
  \A k \in Keys, r \in Runs :
    entries[k] = [state |-> "active", token |-> r]
      <=> KeyOf[r] = k /\ pc[r] \in GuardStates

\* An unknown entry holds its run's permit, and only unknown entries hold permits:
\* every slot that is pinned can be found and given back through its token.
PinnedSlotsRecoverable ==
  \A r \in Runs :
    permit[r] = "entry"
      <=> \E k \in Keys : entries[k] = [state |-> "unknown", token |-> r]

\* The remote queries that may be running without anyone having acknowledged them.
Unresolved ==
  {r \in Runs : remote[r] \in {"requested", "running"} /\ r \notin acknowledged}

\* Each of them holds one of the query slots, so they never outnumber the slots,
\* however often StartQuery and StopQuery get lost and whatever is retried
\* ("automatic retries cannot silently accumulate scans").
UnresolvedHoldSlots ==
  /\ Unresolved \subseteq Held
  /\ Cardinality(Held) <= QueryLimit

\* Nor is a query ever started again while it may still be running.
UnresolvedOncePerKey ==
  \A r, s \in Unresolved : KeyOf[r] = KeyOf[s] => r = s

\* A policy that was revoked while a run was queued, and stayed revoked, keeps the
\* run from starting any remote work.
StartedOnlyIfAllowed ==
  \A r \in Runs : remote[r] # "none" => r \in cleared

\* An active entry is settled even if AWS never answers, nobody acknowledges anything
\* and unknown queries pin every slot.
ActiveEntriesSettled ==
  \A k \in Keys : entries[k].state = "active" ~> entries[k].state # "active"
=============================================================================
