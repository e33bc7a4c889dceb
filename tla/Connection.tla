----------------------------- MODULE Connection -----------------------------
(***************************************************************************)
(* Which account, settings and policy a request works under: the           *)
(* connection state of state.rs, the account selection and the widget      *)
(* request of commands.rs, and the result cache they guard.                *)
(*                                                                         *)
(* Nothing is locked across an await.  A request reads the settings and    *)
(* policy files, resolves a context (the selected account's, or a pinned   *)
(* one of its own), has it verified, works, and compares again what it     *)
(* read before; meanwhile any other request may see other settings, select *)
(* another account or give up on the same context.  Reading a file and     *)
(* reporting what was read are two steps, so an old reading may be         *)
(* reported after a newer one.                                             *)
(*                                                                         *)
(* Sharing of jobs is in WorkRegistry, verification in Verification: here  *)
(* every request runs its own job and verification succeeds or fails.      *)
(***************************************************************************)
EXTENDS Integers, Sequences, FiniteSets

CONSTANTS
  Requests,      \* widget_fetch requests, each sent once
  Selections,    \* aws_set_account requests, each sent once
  Pins,          \* pinned scopes: profile, account and region
  Settings,      \* readable credential settings
  Policies,      \* readable policies
  FirstSettings, FirstPolicy,  \* those the program starts with
  Broken,        \* settings that cannot be read
  Selected,      \* the scope of a selected account
  Edits,         \* how often the files change
  MaxOverrides,  \* 64 verified pinned contexts
  MaxPending,    \* 128 unverified ones
  None

ASSUME ConnectionAssumption ==
  /\ Requests \cap Selections = {}
  /\ FirstSettings \in Settings /\ FirstPolicy \in Policies
  /\ Broken \notin Settings /\ None \notin Settings \cup {Broken}
  /\ {"observed", "swept", "failed"} \cap (Settings \cup {Broken, None}) = {}
  /\ Selected \notin Pins
  /\ Edits \in Nat /\ MaxOverrides \in Nat \ {0} /\ MaxPending \in Nat \ {0}

Actors == Requests \cup Selections

VARIABLES
  saved, policy,       \* what the settings file and the policy file say
  edits,               \* how often they changed
  revision, observed, settingsFailed,  \* ConnectionState: settings
  attempt, status, active,             \* ConnectionState: the selected account
  overrides, pending,  \* ConnectionState: ids of verified and unverified pinned contexts
  contexts,            \* every context made so far; its id is its index
  changed,             \* ids of contexts whose provider configuration changed
  dropping,            \* ids whose last ContextLease is gone but not yet dropped
  seenPolicy, policyRevision,          \* AppState.observed_policy
  cache,               \* the result cache; an entry's origin and late are history
  pc,                  \* where each request is
  reading,             \* reading[a]: what a has of the settings file
  seen,                \* seen[a]: the settings revision that was
  ctx,                 \* ctx[a]: the context it works under, 0 for none
  inherited,           \* inherited[a]: the attempt it depends on, or its own attempt
  lease,               \* lease[r]: whether r reserves its pinned context
  permit,              \* permit[r]: the policy revision it started under
  cancelled,           \* cancelled[r]: its registration's cancellation
  outdated,            \* history: requests whose authority was gone when their result was there
  settled              \* history: ids of pinned contexts that were verified or given up

files == <<saved, policy, edits>>
selection == <<attempt, status, active>>
connection == <<revision, observed, settingsFailed, selection, overrides, pending>>
policyView == <<seenPolicy, policyRevision>>
local == <<pc, reading, seen, ctx, inherited, lease, permit>>
history == <<outdated, settled>>
vars == <<files, connection, contexts, changed, dropping, policyView, cache,
          local, cancelled, history>>

Ends == {"refused", "delivered"}
Registered(r) == pc[r] \notin {"idle"} \cup Ends
\* Where a request runs its job.
Jobs == {"running", "tick", "ended", "compare", "report", "insert"}

-----------------------------------------------------------------------------
(* Steps shared by all requests *)

Goto(a, to) == pc' = [pc EXCEPT ![a] = to]

\* A request that returns drops its reservation; the last Arc of a lease runs its
\* destructor afterwards.
End(a, how) ==
  /\ Goto(a, how)
  /\ reading' = [reading EXCEPT ![a] = None]
  /\ lease' = [lease EXCEPT ![a] = FALSE]
  /\ dropping' = IF lease[a] /\ ~\E b \in Requests \ {a} : lease[b] /\ ctx[b] = ctx[a]
                 THEN dropping \cup {ctx[a]} ELSE dropping
  /\ seen' = [seen EXCEPT ![a] = 0] /\ ctx' = [ctx EXCEPT ![a] = 0]
  /\ inherited' = [inherited EXCEPT ![a] = 0] /\ permit' = [permit EXCEPT ![a] = 0]

\* Mutant: the destructor looks at the key only.
DropLeaseByKey(id) ==
  /\ id \in dropping
  /\ dropping' = dropping \ {id}
  /\ pending' = {p \in pending : contexts[p] # contexts[id]}
  /\ UNCHANGED <<files, revision, observed, settingsFailed, selection, overrides, contexts,
                 changed, policyView, cache, local, cancelled, history>>

\* ContextLease::drop(): a newer context under the same key stays.
DropLease(id) ==
  /\ id \in dropping
  /\ dropping' = dropping \ {id}
  /\ pending' = pending \ {id}
  /\ UNCHANGED <<files, revision, observed, settingsFailed, selection, overrides, contexts,
                 changed, policyView, cache, local, cancelled, history>>

\* cancel_all() and results.clear()
CancelAll == cancelled' = [r \in Requests |-> cancelled[r] \/ Registered(r)]
ClearResults == cache' = {}

\* Where a request reads the settings anew: load_settings() and
\* refresh_configuration_revision().
Refreshing == {"resolve", "verified", "hit", "tick", "ended", "select", "publish", "fail"}

Load(a) ==
  /\ pc[a] \in Refreshing /\ reading[a] = None
  /\ reading' = [reading EXCEPT ![a] = saved]
  /\ UNCHANGED <<files, connection, contexts, changed, dropping, policyView, cache,
                 pc, seen, ctx, inherited, lease, permit, cancelled, history>>

\* observe_credential_settings(): the first ones configure, others end everything
\* that was verified under those before.
Observe(a) ==
  /\ reading[a] \in Settings
  /\ reading' = [reading EXCEPT ![a] = "observed"]
  /\ settingsFailed' = FALSE /\ observed' = reading[a]
  /\ \/ /\ ~settingsFailed /\ observed = reading[a]
        /\ UNCHANGED <<revision, selection, overrides, pending, cache, cancelled>>
     \/ /\ settingsFailed \/ observed # reading[a]
        /\ revision' = revision + 1
        /\ IF observed = None
           THEN UNCHANGED <<selection, overrides, pending, cache, cancelled>>
           ELSE /\ CancelAll /\ ClearResults
                /\ attempt' = attempt + 1 /\ active' = 0 /\ status' = "disconnected"
                /\ overrides' = {} /\ pending' = {}
  /\ seen' = [seen EXCEPT ![a] = IF pc[a] \in {"resolve", "select"} THEN revision' ELSE 0]
  /\ UNCHANGED <<files, contexts, changed, dropping, policyView,
                 pc, ctx, inherited, lease, permit, history>>

\* invalidate_settings() sweeps first ...
Sweep(a) ==
  /\ reading[a] = Broken
  /\ reading' = [reading EXCEPT ![a] = "swept"]
  /\ CancelAll /\ ClearResults
  /\ UNCHANGED <<files, connection, contexts, changed, dropping, policyView,
                 pc, seen, ctx, inherited, lease, permit, history>>

\* Outside a tick, unreadable settings end the request.
Unreadable(a) ==
  \/ /\ pc[a] = "tick"
     /\ reading' = [reading EXCEPT ![a] = "failed"]
     /\ UNCHANGED <<pc, seen, ctx, inherited, lease, permit, dropping>>
  \/ pc[a] # "tick" /\ End(a, "refused")

\* ... and takes the connection lock then.
InvalidateSettings(a) ==
  /\ reading[a] = "swept"
  /\ settingsFailed' = TRUE
  /\ revision' = revision + (IF settingsFailed THEN 0 ELSE 1)
  /\ attempt' = attempt + (IF settingsFailed THEN 0 ELSE 1)
  /\ active' = 0 /\ status' = "failed" /\ overrides' = {} /\ pending' = {}
  /\ Unreadable(a)
  /\ UNCHANGED <<files, observed, contexts, changed, policyView, cache, cancelled, history>>

Refresh(a) == Load(a) \/ Observe(a) \/ Sweep(a) \/ InvalidateSettings(a)

Fresh(a, at) == pc[a] = at /\ reading[a] = "observed"

\* A step that goes on and will have to read the settings anew.
Continue(a, to) ==
  /\ Goto(a, to)
  /\ reading' = [reading EXCEPT ![a] = None]

\* observe_policy() of what policy::load() has just read: a change forgets all results
\* and cancels all jobs.  The jobs of "late" are cancelled by whoever observes it.
NextRevision == policyRevision + (IF seenPolicy = policy THEN 0 ELSE 1)
ObservePolicyCancelling(late) ==
  LET change == seenPolicy \notin {None, policy} IN
  /\ seenPolicy' = policy
  /\ policyRevision' = NextRevision
  /\ cache' = IF change THEN {} ELSE cache
  /\ cancelled' = [r \in Requests |->
                     cancelled[r] \/ (change /\ pc[r] \in Jobs) \/ r \in late]
ObservePolicy == ObservePolicyCancelling({})

NewContext(scope, rev, att) ==
  contexts' = Append(contexts, [scope |-> scope, revision |-> rev, attempt |-> att])

\* invalidate_context(): nobody resolves to this context any more.
InvalidateContext(id) ==
  /\ ClearResults
  /\ settled' = settled \cup {id}
  /\ pending' = pending \ {id} /\ overrides' = overrides \ {id}
  /\ IF active = id THEN active' = 0 /\ status' = "failed"
     ELSE UNCHANGED <<active, status>>
  /\ UNCHANGED <<attempt, revision, observed, settingsFailed>>


-----------------------------------------------------------------------------
(* Widget requests: widget_fetch_request() *)

\* Register, read the policy and report it.
Begin(r) ==
  /\ pc[r] = "idle"
  /\ Continue(r, "resolve")
  /\ ObservePolicy
  /\ permit' = [permit EXCEPT ![r] = policyRevision']
  /\ UNCHANGED <<files, connection, contexts, changed, dropping, seen, ctx, inherited,
                 lease, history>>

\* What was read of the settings is not needed any more.
Resolved(a) ==
  /\ Continue(a, "verify")
  /\ seen' = [seen EXCEPT ![a] = 0]

\* resolve_widget_ctx(), inherit: the selected account as it is now.
ResolveSelected(r) ==
  /\ Fresh(r, "resolve")
  /\ \/ /\ active = 0 /\ End(r, "refused")
     \/ /\ active # 0
        /\ ctx' = [ctx EXCEPT ![r] = active]
        /\ inherited' = [inherited EXCEPT ![r] = attempt]
        /\ Resolved(r)
        /\ UNCHANGED <<lease, permit, dropping>>
  /\ UNCHANGED <<files, connection, contexts, changed, policyView, cache, cancelled, history>>

Matching(ids, scope, rev) ==
  {id \in ids : contexts[id].scope = scope /\ contexts[id].revision = rev}
Live(id) == \E b \in Requests : lease[b] /\ ctx[b] = id

\* resolve_widget_ctx(), pinned, under the lock: a verified context of that scope,
\* one that somebody is verifying, or a new one.
ResolvePinned(r, pin) ==
  /\ Fresh(r, "resolve")
  /\ LET verified == Matching(overrides, pin, seen[r])
         shared == {id \in Matching(pending, pin, seen[r]) : Live(id)}
         Take(id, reserve) ==
           /\ Resolved(r)
           /\ ctx' = [ctx EXCEPT ![r] = id]
           /\ lease' = [lease EXCEPT ![r] = reserve]
           /\ UNCHANGED <<inherited, permit, dropping>>
     IN \/ \E id \in verified : Take(id, FALSE) /\ UNCHANGED <<contexts, pending>>
        \/ /\ verified = {}
           /\ \E id \in shared : Take(id, TRUE)
           /\ UNCHANGED <<contexts, pending>>
        \/ /\ verified = {} /\ shared = {} /\ Cardinality(pending) >= MaxPending
           /\ End(r, "refused") /\ UNCHANGED <<contexts, pending>>
        \/ /\ verified = {} /\ shared = {} /\ Cardinality(pending) < MaxPending
           /\ NewContext(pin, seen[r], 0)
           /\ Take(Len(contexts'), TRUE)
           /\ pending' = (pending \ Matching(pending, pin, seen[r])) \cup {Len(contexts')}
  /\ UNCHANGED <<files, revision, observed, settingsFailed, selection, overrides, changed,
                 policyView, cache, cancelled, history>>

\* The gates deny it, it is cancelled, or its deadline passes.
GiveUp(r) ==
  /\ pc[r] \in {"verify", "running"}
  /\ End(r, "refused")
  /\ UNCHANGED <<files, connection, contexts, changed, policyView, cache, cancelled, history>>

\* verified_session() fails, whatever the reason.
VerifyFails(r) ==
  /\ pc[r] = "verify"
  /\ InvalidateContext(ctx[r])
  /\ End(r, "refused")
  /\ UNCHANGED <<files, contexts, changed, policyView, cancelled, outdated>>

VerifySucceeds(r) ==
  /\ pc[r] = "verify" /\ ctx[r] \notin changed
  /\ Continue(r, "verified")
  /\ UNCHANGED <<files, connection, contexts, changed, dropping, policyView, cache,
                 seen, ctx, inherited, lease, permit, cancelled, history>>

Pinned(r) == inherited[r] = 0

\* Whether r's context belongs to the settings and the selection of now.
Authorized(r) ==
  /\ revision = contexts[ctx[r]].revision
  /\ ~Pinned(r) => attempt = inherited[r] /\ active = ctx[r]

\* The rest of validate_request_context() once the settings are read: the context
\* still fits the configuration file, the settings and the selection.
Valid(r) == ctx[r] \notin changed /\ Authorized(r)

\* What a failed validation does besides: a changed configuration or expired
\* credentials end the context, a newer session or selection does not.
Invalidated(r) ==
  \/ InvalidateContext(ctx[r])
  \/ ctx[r] \notin changed /\ UNCHANGED <<connection, cache, settled>>

\* Expired credentials and a newer session make it fail at any time.
Invalid(r, at) ==
  /\ Fresh(r, at)
  /\ Invalidated(r)
  /\ End(r, "refused")
  /\ UNCHANGED <<files, contexts, changed, policyView, cancelled, outdated>>

\* A verified pinned context replaces those of its scope and, at the limit,
\* another; a selected one needs no place.
Verified(r) ==
  \/ Invalid(r, "verified")
  \/ /\ Fresh(r, "verified") /\ Valid(r)
     /\ Continue(r, "permitted")
     /\ IF Pinned(r)
        THEN LET others == {id \in overrides : contexts[id].scope # contexts[ctx[r]].scope}
             IN /\ pending' = pending \ {ctx[r]}
                /\ settled' = settled \cup {ctx[r]}
                /\ \/ /\ Cardinality(others) < MaxOverrides
                      /\ overrides' = others \cup {ctx[r]}
                   \/ /\ Cardinality(others) >= MaxOverrides
                      /\ \E oldest \in others :
                           overrides' = (others \ {oldest}) \cup {ctx[r]}
        ELSE UNCHANGED <<pending, overrides, settled>>
     /\ UNCHANGED <<files, revision, observed, settingsFailed, selection, contexts, changed,
                    dropping, policyView, cache, seen, ctx, inherited, lease, permit,
                    cancelled, outdated>>

\* Mutant: the policy is compared elsewhere.
KeyOfContext(r) == <<ctx[r]>>

\* The authority key: the context and the policy revision.
Key(r) == <<ctx[r], permit[r]>>

\* The policy is compared with the one at the beginning, then the cache is asked.
Permitted(r) ==
  /\ pc[r] = "permitted"
  /\ ObservePolicy
  /\ \/ policyRevision' # permit[r] /\ End(r, "refused")
     \/ /\ policyRevision' = permit[r]
        /\ Continue(r, "lookup")
        /\ UNCHANGED <<seen, ctx, inherited, lease, permit, dropping>>
  /\ UNCHANGED <<files, connection, contexts, changed, history>>

\* Remember whether the result came too late.
Note(r, late) == outdated' = IF late THEN outdated \cup {r} ELSE outdated

Late(r) == ~Authorized(r) \/ ctx[r] \in changed

\* An entry whose result was late already, or obtained under another context or policy
\* than the reader's, is too late.  A result may also be expired, evicted or not wanted.
Lookup(r) ==
  /\ pc[r] = "lookup"
  /\ \/ \E entry \in cache :
          /\ entry.key = Key(r)
          /\ Continue(r, "hit")
          /\ Note(r, Late(r) \/ entry.late \/ entry.origin # <<ctx[r], permit[r]>>)
     \/ Continue(r, "running") /\ UNCHANGED outdated
  /\ UNCHANGED <<files, connection, contexts, changed, dropping, policyView, cache,
                 seen, ctx, inherited, lease, permit, cancelled, settled>>

\* A hit is validated once more; the policy is not compared again.
Hit(r) ==
  \/ Invalid(r, "hit")
  \/ /\ Fresh(r, "hit") /\ Valid(r)
     /\ End(r, IF cancelled[r] THEN "refused" ELSE "delivered")
     /\ UNCHANGED <<files, connection, contexts, changed, policyView, cache, cancelled, history>>

\* run_widget_job(): every 100 ms everything is validated, and a failure cancels.
StartTick(r) ==
  /\ pc[r] = "running"
  /\ Continue(r, "tick")
  /\ UNCHANGED <<files, connection, contexts, changed, dropping, policyView, cache,
                 seen, ctx, inherited, lease, permit, cancelled, history>>

Tick(r) ==
  /\ pc[r] = "tick" /\ reading[r] \in {"observed", "failed"}
  /\ Continue(r, "running")
  /\ \/ /\ IF reading[r] = "observed" THEN Invalidated(r)
           ELSE UNCHANGED <<connection, cache, settled>>
        /\ cancelled' = [cancelled EXCEPT ![r] = TRUE]
        /\ UNCHANGED policyView
     \/ /\ reading[r] = "observed" /\ Valid(r)
        /\ ObservePolicyCancelling(IF NextRevision # permit[r] THEN {r} ELSE {})
        /\ UNCHANGED <<connection, settled>>
  /\ UNCHANGED <<files, contexts, changed, dropping, seen, ctx, inherited, lease,
                 permit, outdated>>

\* The work comes to an end by itself, with a result.
WorkEnds(r) ==
  /\ pc[r] = "running"
  /\ Continue(r, "ended")
  /\ Note(r, Late(r) \/ policyRevision # permit[r])
  /\ UNCHANGED <<files, connection, contexts, changed, dropping, policyView, cache,
                 seen, ctx, inherited, lease, permit, cancelled, settled>>

\* That a CLI child may not have exited is told whatever has changed; it is no result.
CleanupFails(r) ==
  /\ pc[r] = "running"
  /\ End(r, "refused")
  /\ UNCHANGED <<files, connection, contexts, changed, policyView, cache, cancelled, history>>

\* The result is validated like everything before it, and is lost on cancellation unless
\* it says what became of a query's cleanup.
Ended(r) ==
  \/ Invalid(r, "ended")
  \/ /\ Fresh(r, "ended") /\ Valid(r)
     /\ \/ cancelled[r] /\ End(r, "refused")
        \/ /\ ~cancelled[r] /\ Continue(r, "compare")
           /\ UNCHANGED <<seen, ctx, inherited, lease, permit, dropping>>
        \/ /\ Continue(r, "report")
           /\ UNCHANGED <<seen, ctx, inherited, lease, permit, dropping>>
     /\ UNCHANGED <<files, connection, contexts, changed, policyView, cache, cancelled, history>>

\* The policy is compared one last time.  What says more than a result is not cached.
Compare(r) ==
  /\ pc[r] \in {"compare", "report"}
  /\ ObservePolicy
  /\ \/ policyRevision' # permit[r] /\ End(r, "refused")
     \/ policyRevision' = permit[r] /\ pc[r] = "report" /\ End(r, "delivered")
     \/ /\ policyRevision' = permit[r] /\ pc[r] = "compare"
        /\ Continue(r, "insert")
        /\ UNCHANGED <<seen, ctx, inherited, lease, permit, dropping>>
  /\ UNCHANGED <<files, connection, contexts, changed, history>>

\* The job puts its result into the cache, whatever was cleared since.
Insert(r) ==
  /\ pc[r] = "insert"
  /\ cache' = {entry \in cache : entry.key # Key(r)} \cup
                {[key |-> Key(r), origin |-> <<ctx[r], permit[r]>>, late |-> r \in outdated]}
  /\ End(r, "delivered")
  /\ UNCHANGED <<files, connection, contexts, changed, policyView, cancelled, history>>

\* request_cancel(); a request that still waits for its context gives up instead.
Cancel(r) ==
  /\ pc[r] \in {"hit"} \cup Jobs /\ ~cancelled[r]
  /\ cancelled' = [cancelled EXCEPT ![r] = TRUE]
  /\ UNCHANGED <<files, connection, contexts, changed, dropping, policyView, cache,
                 local, history>>

Fetch(r) ==
  \/ Begin(r) \/ ResolveSelected(r) \/ \E pin \in Pins : ResolvePinned(r, pin)
  \/ GiveUp(r) \/ VerifyFails(r) \/ VerifySucceeds(r) \/ Verified(r) \/ Permitted(r)
  \/ Lookup(r) \/ Hit(r) \/ StartTick(r) \/ Tick(r) \/ WorkEnds(r) \/ CleanupFails(r)
  \/ Ended(r) \/ Compare(r) \/ Insert(r) \/ Cancel(r)

-----------------------------------------------------------------------------
(* Account selection: aws_set_account_request() *)

Select(s) ==
  /\ pc[s] = "idle"
  /\ Continue(s, "select")
  /\ UNCHANGED <<files, connection, contexts, changed, dropping, policyView, cache,
                 seen, ctx, inherited, lease, permit, cancelled, history>>

\* begin_attempt() refuses when the settings moved on; then the new context.
BeginAttempt(s) ==
  /\ Fresh(s, "select")
  /\ \/ /\ revision # seen[s]
        /\ End(s, "refused")
        /\ UNCHANGED <<selection, contexts>>
     \/ /\ revision = seen[s]
        /\ attempt' = attempt + 1 /\ active' = 0 /\ status' = "verifying"
        /\ NewContext(Selected, seen[s], attempt')
        /\ inherited' = [inherited EXCEPT ![s] = attempt']
        /\ ctx' = [ctx EXCEPT ![s] = Len(contexts')]
        /\ Resolved(s)
        /\ UNCHANGED <<lease, permit, dropping>>
  /\ UNCHANGED <<files, revision, observed, settingsFailed, overrides, pending, changed,
                 policyView, cache, cancelled, history>>

\* Its input, the policy or verified_session() decides.
Decide(s) ==
  /\ pc[s] = "verify"
  /\ \/ Continue(s, "fail")
     \/ ctx[s] \notin changed /\ Continue(s, "publish")
  /\ UNCHANGED <<files, connection, contexts, changed, dropping, policyView, cache,
                 seen, ctx, inherited, lease, permit, cancelled, history>>

\* Mutant: whoever is verified last is published.
PublishAnyway(s) ==
  /\ Fresh(s, "publish")
  /\ active' = ctx[s] /\ status' = "verified"
  /\ End(s, "delivered")
  /\ UNCHANGED <<files, revision, observed, settingsFailed, attempt, overrides, pending,
                 contexts, changed, policyView, cache, cancelled, history>>

\* ensure_current(), then under the lock only the latest attempt under the same
\* settings becomes the selected account.
Publish(s) ==
  /\ Fresh(s, "publish")
  /\ LET latest == attempt = inherited[s] /\ revision = contexts[ctx[s]].revision IN
     \/ /\ Continue(s, "fail")
        /\ UNCHANGED <<active, status, seen, ctx, inherited, lease, permit, dropping>>
     \/ /\ ctx[s] \notin changed /\ ~latest
        /\ End(s, "refused") /\ UNCHANGED <<active, status>>
     \/ /\ ctx[s] \notin changed /\ latest
        /\ active' = ctx[s] /\ status' = "verified"
        /\ End(s, "delivered")
  /\ UNCHANGED <<files, revision, observed, settingsFailed, attempt, overrides, pending,
                 contexts, changed, policyView, cache, cancelled, history>>

\* finish_connection_failure(): only the latest attempt's failure is the state's.
FailAttempt(s) ==
  /\ Fresh(s, "fail")
  /\ IF attempt = inherited[s] THEN active' = 0 /\ status' = "failed"
     ELSE UNCHANGED <<active, status>>
  /\ End(s, "refused")
  /\ UNCHANGED <<files, revision, observed, settingsFailed, attempt, overrides, pending,
                 contexts, changed, policyView, cache, cancelled, history>>

SetAccount(s) == Select(s) \/ BeginAttempt(s) \/ Decide(s) \/ Publish(s) \/ FailAttempt(s)

-----------------------------------------------------------------------------
(* The world *)

EditSettings ==
  /\ edits < Edits /\ edits' = edits + 1
  /\ saved' \in (Settings \cup {Broken}) \ {saved}
  /\ UNCHANGED <<policy, connection, contexts, changed, dropping, policyView, cache,
                 local, cancelled, history>>

\* policy_set() reports at once what it wrote; an editor outside does not.
EditPolicy ==
  /\ edits < Edits /\ edits' = edits + 1
  /\ policy' \in Policies \ {policy}
  /\ UNCHANGED <<saved, connection, contexts, changed, dropping, policyView, cache,
                 local, cancelled, history>>

\* The provider configuration of a context's profile is edited.
Reconfigure(id) ==
  /\ edits < Edits /\ edits' = edits + 1
  /\ changed' = changed \cup {id}
  /\ UNCHANGED <<saved, policy, connection, contexts, dropping, policyView, cache,
                 local, cancelled, history>>

World ==
  \/ EditSettings \/ EditPolicy
  \/ \E id \in DOMAIN contexts : Reconfigure(id)

Init ==
  /\ saved = FirstSettings /\ policy = FirstPolicy /\ edits = 0
  /\ revision = 0 /\ observed = None /\ settingsFailed = FALSE
  /\ attempt = 0 /\ status = "disconnected" /\ active = 0
  /\ overrides = {} /\ pending = {}
  /\ contexts = <<>> /\ changed = {} /\ dropping = {}
  /\ seenPolicy = None /\ policyRevision = 0 /\ cache = {}
  /\ pc = [a \in Actors |-> "idle"] /\ reading = [a \in Actors |-> None]
  /\ seen = [a \in Actors |-> 0] /\ ctx = [a \in Actors |-> 0]
  /\ inherited = [a \in Actors |-> 0]
  /\ lease = [a \in Actors |-> FALSE] /\ permit = [a \in Actors |-> 0]
  /\ cancelled = [r \in Requests |-> FALSE] /\ outdated = {} /\ settled = {}

Next ==
  \/ World
  \/ \E a \in Actors : Refresh(a)
  \/ \E r \in Requests : Fetch(r)
  \/ \E s \in Selections : SetAccount(s)
  \/ \E id \in dropping : DropLease(id)

Spec == Init /\ [][Next]_vars

-----------------------------------------------------------------------------
(* Properties *)

\* Whatever order attempts end in and whoever sees new settings first: the selected
\* account was verified by the latest attempt under the latest settings, the state
\* shown says so, and no pinned context of older settings is kept.
SelectionIsLatest ==
  /\ active # 0 => contexts[active].attempt = attempt /\ contexts[active].revision = revision
  /\ (active # 0) <=> (status = "verified")
  /\ \A id \in overrides : contexts[id].revision = revision
  /\ \A id, other \in overrides : contexts[id].scope = contexts[other].scope => id = other

\* A request delivers nothing of its own work that came after its settings, its selected
\* account, its provider configuration or its policy were seen to change.  It delivers
\* nothing from the cache that was late for the request it came from, that was obtained
\* under another context or policy revision than the reader's, or that is read after the
\* reader's settings, account or configuration were seen to change.  The policy is
\* compared before the cache is asked and not after: a change seen in between is not
\* excluded, nor is a result of the old policy that comes into the cache after it was
\* cleared, for a reader that has compared before.
OutdatedNeverDelivered == \A r \in outdated : pc[r] # "delivered"

\* A pinned context that a request is having verified is found by every other request
\* for the same scope and settings, so an account is verified once at a time, until it
\* is verified or given up, however late the leases of older contexts are dropped.
ReservationsFindable ==
  \A r \in Requests :
    /\ pc[r] = "verify" /\ lease[r]
    /\ contexts[ctx[r]].revision = revision /\ ctx[r] \notin settled
    => ctx[r] \in pending
=============================================================================
