# Formal model of cloud-burrito

cloud-burrito is a Tauri desktop application: a JavaScript frontend with a board
of widgets, and a Rust backend that reads AWS on the user's behalf under a local
allow/deny policy. This directory holds TLA+ models of the backend, TLC
configurations that check them on small instances, and TLAPS proofs that hold for
every instance. All paths below are relative to `src/src-tauri/src/`
unless they start with `docs/` or `frontend/`.

## 1. The system

### Components, their state and their operations

| Component | State | Operations | Modelled |
|---|---|---|---|
| Work scheduler, `scheduler.rs` | waiter queue, permit counters per kind and per account/region/service, priority burst, `Notify`; per scope: operation count, cancellation, deadline | `acquire`, `run`, drop of ticket and of permit, `cleanup_scope` | yes |
| Work registry, `work_registry.rs` | registered request ids, tombstones of early cancellations, jobs by coalescing key; per job: cancellation, subscriber count, result channel | `register`, `cancel`, `cancel_all`, `cancel_jobs`, `coalesce`, `detach`, drops | yes |
| Query lifecycle, `widgets/query.rs` | registry of active and unknown queries with the Query permits the unknown ones pin; guard of each run | `begin`, `acknowledge_selected`, `run_inner` (start, poll, stop), `finish`, drop | yes |
| Request commands, `commands.rs`, `request.rs` | request envelope, resolved context, verified session | `widget_fetch`, `aws_list_pipelines`, `set_account`, `settings_set`, `dashboard_set`, `policy_set`, `request_cancel`, `run_widget_job`'s 100 ms revalidation | partly |
| Connection state, `state.rs` | attempt and settings revision, active context, up to 64 overrides, up to 128 pending contexts, observed policy revision | `begin_attempt`, `observe_policy`, `observe_credential_settings`, `invalidate_settings`, `invalidate_context`, leases | yes |
| AWS context, `aws/context.rs` | shared verification flight, snapshot, session, pinned principal, invalidated flag | `verified_session`, `ensure_current`, `invalidate` | yes |
| Result cache, `result_cache.rs` | at most 16 entries, 4 MiB, 15 s | `get`, `insert`, `clear` | partly: authority, not bounds |
| Policy, `aws/policy.rs`, `runtime.rs`, `widgets/mod.rs` | policy text under `POLICY_IO` | `load`, `save`, `gate`, `glob_match`, authorisation at dispatch | yes |
| JSON storage, `storage.rs`, `settings.rs`, `dashboard.rs` | ticket counter and replacement lock per file, temporaries | `read_json`, `write_json`, `replace_bytes`, normalisation of documents | yes |
| Audit log, `audit.rs`, `audit_writer.rs`, `audit_reader.rs` | bounded queue, sticky failure flag, rotated files, retention mode, reader cursor | `enqueue`, `flush`, `rotate`, `transact_retention`, `preserve_history`, tail and continuation pages | yes |
| Process supervision, `process.rs` | child, pipes, isolated home, cancellation | `run_native`, `supervise`, `supervise_owned`, `read_capped` | partly: not the environment of the child |
| Widgets, `widgets/*.rs` | page budget, rows, coverage | paging, limits, details, batches, CLI commands, authorised calls | partly: not the formatting of values |
| Validation and SSO configuration, `validation.rs`, `aws/config_file.rs` | none | request, settings and dashboard shapes; selection and resolution of a profile | partly: not lengths, depths and paths |
| Frontend, `frontend/` | views, saved layout, request generations | rendering, dispatch, cancellation | no: it is the environment of the models |
| Scripts, packaging, tests | none at run time | | no |

### How they interact

A frontend call of `widget_fetch` registers its request id, resolves and verifies
an AWS context, and asks the work registry for the work of its key. The first
request with a key starts an owned worker task; others subscribe to it. The
worker runs the widget with a `WorkScope` (deadline, operation budget,
cancellation); every AWS operation goes through the scheduler's `run`, CLI
children and query lifecycles through `acquire`. A query run takes a Query permit
for its whole life, an Ordinary one for `StartQuery`, an Ordinary one per poll and
a Cleanup one for `StopQuery`. Policy changes cancel all jobs, settings changes
cancel all requests and jobs. Nothing holds a lock over an await.

### What is hard about it

* Futures run on a multi-threaded executor and can be dropped at any await; every
  lock is released before the notification that others depend on.
* Cancellation overtakes dispatch, races results, and is counted: the last
  subscriber of shared work stops it, no other may.
* AWS answers late, twice or never, and a query left behind costs money, so what
  became of it must stay known after the run has ended.
* A policy, a configuration or a context checked before a wait is stale after it, and
  reading a file and reporting what was read are two steps, so readings overtake each
  other.
* Saves, rotations and preservations consist of several file operations, each of which
  may fail or be the last before a crash.
* An input is checked in one place and read in another, by other code or by the AWS CLI.

`PROJECT.json` lists the hazards line by line with the properties that cover them.

### What makes each component correct

* Scheduler: permits never exceed a ceiling and are never lost or given back twice;
  no waiter whose turn it is sleeps for ever; order within a class; bounded
  bursts; cleanup is independent of ordinary work.
* Registry: one worker per key; work is cancelled exactly when unwanted or swept;
  ids belong to one request; what a leaving request is told is true; every request
  is answered.
* Query lifecycle: a remote query that may be running is remembered, holds a slot
  and is not started again until the user acknowledges it; entries and guards
  agree; a revoked policy stops the start.
* Connection, context, cache: only the latest attempt publishes; no result is delivered
  that came after its settings, policy or configuration were seen to change, and none from
  the cache that belongs to another context or policy revision; a context never changes
  principal and is never used again once found changed.
* Storage, policy file: the live file is always some complete accepted version, an older
  save never replaces a newer one, and nobody's policy is lost to a default.
* Audit: a confirmed flush means that the records are in the file; rotation and
  preservation lose nothing unless expiry was chosen; pages neither skip nor repeat.
* Process supervision: a child is reaped or reported as not reaped, whatever races; every
  child comes to an end.
* Policy at dispatch: a call is allowed by the file after its permit was granted, not only
  when it was asked for; the matcher means what a pattern means.
* Widgets: an answer says what it left out; concurrent details keep their order; the CLI
  executes the command that was reviewed.
* Validation and SSO configuration: what passes the entry check is what is executed, saved
  and read back; a profile is accepted only if every reader of the file would agree on it,
  and the list of profiles offers what is accepted or says that it leaves some out.

## 2. Modules

| Module | What it is |
|---|---|
| `ResourceBudget` | abstract: a call takes a slot only while each of its pools has room |
| `Scheduler` | `scheduler.rs`; refines `ResourceBudget` |
| `SchedulerFairness` | `Scheduler` with two history variables that count passed-over background waiters |
| `SchedulerProofs` | theorems about `Scheduler` and `SchedulerFairness` |
| `SharedFlight` | abstract: one flight per key, doomed exactly when its last rider leaves or someone grounds it |
| `WorkRegistry` | `work_registry.rs` and the way requests use it; refines `SharedFlight` |
| `WorkRegistryProofs` | theorems about `WorkRegistry` |
| `QueryLifecycle` | `widgets/query.rs` and a lossy CloudWatch Logs |
| `QueryProofs` | theorems about `QueryLifecycle` |
| `ContextSessions` | the state of one context's verification and what its users rely on |
| `Verification` | `aws/context.rs`: one shared verification of one context |
| `Connection` | `state.rs` and the requests and selections of `commands.rs` that use it |
| `VerificationProofs`, `ConnectionProofs` | theorems about them |
| `Storage` | `storage.rs` and the policy file of `aws/policy.rs` |
| `StorageProofs` | theorems about `Storage`, `AuditLog` and `AuditReader` |
| `AuditLog` | `audit_writer.rs`, `audit.rs` |
| `AuditReader` | `audit_reader.rs` |
| `ProcessSupervision` | `process.rs` and `run_cli` of `widgets/aws_cli.rs` |
| `Coverage` | operators: `coverage.rs`, `widgets/budget.rs` |
| `Listings` | widgets that read page by page |
| `Reads` | widgets that make a fixed number of requests |
| `Glob` | `glob_match` against the meaning of a pattern |
| `Dispatch` | how one call is authorised, from wish to wire |
| `WidgetProofs` | theorems about `Dispatch`, `Glob`, `Listings` and `Reads` |
| `CliCommand` | `parse_cli_command` |
| `SsoProfile` | `aws/config_file.rs` |
| `Requests` | `validation.rs`, `settings.rs`, `dashboard.rs` and the inputs the widgets read |
| `Maps` | operators: functions put together from functions |
| `RequestProofs` | theorems about `ProcessSupervision`, `CliCommand`, `SsoProfile` and `Requests` |
| `MCScheduler`, `MCSchedulerFairness`, `MCWorkRegistry`, `MCQueryLifecycle` | constants for TLC |
| `MCContexts`, `MCFiles`, `MCWidgets` | instances of the modules above, several to a run |

An MC module with several parts starts in one of them and stays there: the parts share
no state, so its behaviours are the union of theirs. In `MCWidgets` the variables that a
part does not use have values that start nothing: an empty file, no request, a stage
"unused", or 0.

Definitions whose comment says *Mutant* are plausible bugs of the definition that
follows them. No specification uses them; putting one in the place of its
definition makes the property listed beside it in `PROJECT.json` fail, which shows
that the property watches that piece of code.

### Scheduler

A call has a program counter that stops between any two critical sections and at
any await: counted, queued and about to arm its `Notified`, armed and about to
take the mutex, waiting in the `select!`, admitted but not yet announced, running,
and so on. `queue`, `active`, `serviceActive` and `burst` are the fields of `State`;
`woken[c]` is what tokio's `Notify` knows of the future that `c` has enabled. A
waiter's id only names it and orders the queue, so the call stands for it. `run` is
`Count`, then `acquire`; the calls in `Direct` are the bare `acquire`s of CLI
children and queries. A failed `acquire` and a dropped future go through the same
`DropTicket`, as in the code. `Stop` is a cancellation or a deadline, `Renew` the
next request's `WorkScope`. Left out: the diagnostics counters of `Snapshot`, which
nothing reads back, and the failure codes.

### Work registry

Requests carry a program counter from `register` to the drop of their
`Registration`. A job is named after the request that created it, so `jobs[k] = j`
says both who holds the key and which `Arc` it is. Each critical section is one
action and so is each step outside: `Publish` and `RemoveEntry` are separate, as
are `Receive` (the value is picked) and `Return` (the `Subscription` is dropped).
Verification between `register` and `coalesce` is one step that may also leave with
an error (`LeaveEarly`). Whether a worker was told to stop is its job's
`cancelled`; how it reacts is its own business, so `Publish` is possible at any
time and owed by nobody. `Expire` is the passing of sixty seconds: the code drops
old tombstones lazily, but always before it reads them. Two history variables,
`swept` and `forestalled`, only record which jobs a sweep cancelled and which
requests were cancelled before they registered. Tauri does not abort commands,
so a request's future is not dropped half-way.

### Query lifecycle

A run follows `run_inner` from preflight to `finish`. An entry's token is its run
(the code numbers runs with an atomic counter). `permit[r]` says who owns r's Query
permit; the scheduler is reduced to what `ResourceBudget` promises, since
`Scheduler` implements it: a permit may come whenever there is room and may be
refused at any time. `remote[r]` is the truth about the query at AWS, which the
run learns only from answers; the environment moves it at will, a stop that
arrives after everyone stopped waiting included. `Unwind` is a panic or a dropped
future at any point of the guard's life. `QueryLimit` stands for both `QUERY_LIMIT`
of the scheduler and the literal 2 in `begin`. Left out: result shaping, the
listing `pending_for`, and the second lock in `begin_for`, which completes a summary
that nobody reads while the entry is active.

### Verification

The flight's number names its worker and the session it may install, so `outcome[n]` is
what its watch channel says. The worker follows `verified_session_once`: read the
configuration, compare it with the pinned one, gate and resolve credentials, gate and ask
STS, read again, install. `Panic` closes the channel without an outcome. Callers join,
wait, compare (`ensure_current`, whose reading and comparison under the lock are one
step), pass the fence and use the session, again and again. `life` is the age of a
session's credentials: fresh, inside the renewal margin, expired. `minted` is the history
of all installed sessions.

### Connection

`saved` and `policy` are what the files say; a request's `reading` is what it read and
has not yet reported. `Refresh` is `observe_credential_settings`: load, observe, and, if
the settings changed, sweep (cancel all work, clear the cache) before
`InvalidateSettings` takes the lock; the two consecutive observations of the code are
one `Observe`. `Fetch` is a widget request from registration to delivery with its
comparisons of revisions and its early returns; `SetAccount` is an account selection.
A validation compares the settings, the selection and the provider configuration, and may
fail at any time for another reason (expired credentials, a newer session, which leaves
the context alone); a provider configuration that has changed stays changed. When the
work has ended, a CLI child that may still run is told before any comparison
(`CleanupFails`); else the result is validated, is lost on cancellation unless it says what
became of a query's cleanup (`report`), and its policy is compared. A `report` is not
cached, any other result is, whatever was cleared since: so a cached entry notes where it
comes from (`origin`) and whether it was late then, as a history.
Contexts are numbered in the order they are made; `active`, `overrides` and `pending` hold
their numbers. A lease is dropped some time after its request ends (`dropping`), as a
destructor is. A full `overrides` evicts any other context, whichever the code's
least-recently-used order picks. A context that is invalid at the end of a selection
goes from `Decide` to `fail`. `outdated` and `settled` are histories. Verification is a
step that may fail and work one that ends at any time: `Verification` and `WorkRegistry`
model them. Left out: that an aws-cli request resolves its credentials before the policy is
compared, and then validates once more (`commands.rs:731-742`); and what an error keeps of the
outcome of a query (`retain_query_outcome`).

A hit is validated, but the policy is compared only before the cache is asked
(`commands.rs:747`, `:780-786`). So a request that has compared it may be given a result of that
same policy although a new one is seen in the meantime, even one that its job put into
the cache after that was cleared. `OutdatedNeverDelivered` does not claim otherwise: of the
cache it says that a hit is validated, and that its entry was in time when it was made and is
of the same context and policy revision.

`verify_request_context_owned` invalidates the context after every error of
`verified_session`, a stale context included, while the revalidation of a session
(`commands.rs:518-522`) leaves it alone in that case; the model does what the code does.

### Storage and the policy file

A save is a call of `write_json`: its ticket is drawn, its document serialized at any pace,
and then it creates, writes, checks for supersession and renames under the replacement
lock, with a failure possible at each call. A `Restart` forgets locks and tickets and
keeps the files; a temporary left behind stays. `accepted` is the history of the order
of acceptance. The policy file is used by threads that read, upgrade or create a default,
and save, under `POLICY_IO`, and by editors that take no lock; `edited` remembers that one
of those changed the file.

### Audit log and reader

A record is its number and a file a sequence of them. Each locked section of `audit.rs`
is one action whose outcomes are all the points at which it can stop: `Rotated(done)`
after `done` renames, `Preserve` after any number of moves and with any part of them
rolled back, `RestartLog` the death of the process at any time. `returned` and `written` are
the histories that `FlushConfirms` compares. An
empty file is not told from a missing one. A flush syncs only `audit.log`, so the model
claims no durability of rotated files. After a rotation that fails half-way the next one
removes the oldest file again; what it holds by then is still older than all that is
kept. Edits of the files by others, reuse of an inode and torn lines are left out.

`AuditReader` has bytes of three kinds, because the cursor arithmetic is about bytes: a
page is read from the tail backwards or from the cursor forwards, stops at a limit of
rows, of bytes, or in a record that is too long (`discard`), and a cursor of a file that
was rotated is refused.

### Process supervision

The caller (`run_cli`, `run_native`), the owner task (`supervise`) and the child are
three processes. `Poll` is the biased `select!` of the owner: the cancellation first, then
the deadline, then the child; while it polls, the streams and the child are read in any
order, and a full stream or an error ends it. `CleanUp` kills, then waits, which may
fail. Dropping the caller cancels and leaves the owner running. What the child started
may hold the pipes open after it is gone. Only the child itself is killed. If the
application dies, the child lives on: that is outside of the model. So are the
environment, the discovery and the launch of the executable (`process.rs:205-540`).

### Dispatch and Glob

`Preflight` and `Send` ask the policy the request began with; the call queues; after its
permit is granted the file is read again (`ReadCurrentPolicy`, which may not come back in
time) and asked; a CLI command is checked once more before it runs. Edits come at any
time; a policy that is missing, oversized, late or malformed allows nothing. The stop of a
query is authorised in the same way, so narrowing the policy can prevent a query's
cleanup: `QueryLifecycle` treats that as an unknown remote state. `Glob` is the index
scan of `glob_match`, step by step.

### Listings, Reads and Coverage

`Listings` is one machine for seven widgets: a page arrives with entries of several
sizes and a next token that may be missing, repeated or too long; each widget has its own
action per page and its own mapping to coverage. Details follow for the rows that are
kept. `Reads` has one action per widget, and the concurrent batches of the
package widget, whose outcomes come in any order. The histories `lost`, `unread`, `failed`
and `undetailed` say what really happened; `CoverageHonest` compares them with what the
answer says. The model keeps what is peculiar in the code: details of stacks are counted
per stack name, a byte limit after a stalled token replaces the token failure, and an
answer that is withheld has unknown coverage and `ok: false`.

### CliCommand, SsoProfile, Requests

`CliCommand` parses an argument at a time: flags, single values, lists, inline or not,
against the schema of the operation, and rebuilds an `argv`. `ReadBack` is how the AWS CLI
reads it. `SsoProfile` starts from a good configuration and applies up to two edits;
`ProfileExact` states what a snapshot and a discovery row may contain however
another reader of the file merges or prefers sections. The list of profiles is stricter than
the connection: it takes no name that is too long (`Safe`; one value, "long", stands for what
exceeds 256 or 128 characters) and no more profiles than `DiscoveryLimit`, the first by name.
Hence what it offers is accepted, but what is accepted may be missing, and then a name is
too long or the list is `Partial`. A file that cannot be read or decoded gives no list at all
and is left out. SSO scopes written in the profile while its session has none are not used. `Requests` starts from a good request of every
command and widget and applies up to two changes to a field, an input or a
scope; what it accepts is compared with what the widget then calls
(`EntryGuardsFirstCall`), and what is saved with what is read back (`SavedReadsBack`). The
check does not know the regions: a pinned context whose region is not one of the
program's passes and is refused when it is resolved (`Resolve`). The session constraint
computed there (`commands.rs:420`) cannot fail, since it is given no session to conflict with.

## 3. What TLC checks

| Run | Bounds | Distinct states | What it shows |
|---|---|---|---|
| `scheduler_safety` | 4 calls, one a bare `acquire`; 2 scopes, one background; 3 services; 2 ordinary permits, 1 per service; queue of 2; burst 1; budget 2 | 154 000 | counters are permits, no lost wake-up, burst bounded, first come first served within a class, implements `ResourceBudget` |
| `scheduler_cleanup` | 1 ordinary and 2 cleanup calls, 1 cleanup slot and queue place | 26 000 | cleanup is served though the ordinary operation may never end |
| `scheduler_priority` | 3 calls for one slot, burst 2 | 16 000 | the oldest fitting background waiter is passed over at most a burst in a row; interactive waiters are served |
| `scheduler_overtaken` | the same and a call of another service | counterexample | see Findings |
| `registry_safety` | 3 requests, two sharing a key and two sharing an id; 2 ids, 2 keys; 2 requests, 1 job, 1 tombstone at most | 378 000 | work is cancelled exactly when nobody wants it, an early cancellation reaches its request, reports are truthful, implements `SharedFlight` |
| `registry_liveness` | 2 requests, 1 key | 17 000 | every request ends; every key comes free |
| `registry_refused` | 2 requests, room for 2 jobs | counterexample | see Findings |
| `query_lifecycle` | 3 runs, two of one key; 2 slots, 1 start permit; policies with and without `StopQuery` | 140 000 | pinned slots recoverable, unresolved queries hold slots and are unique per key, starts only if allowed, active entries are settled |
| `contexts` | 3 requests, 2 selections, 2 pinned scopes, 2 settings and a broken file, 2 policies, 2 edits, 1 override, 2 pending contexts; 2 callers, 2 flights, 2 configurations, 2 principals and a foreign one | 891 000 | sessions agree, the selection is the latest, no result is delivered that was late or of another context or policy, reservations are found, an invalidated context stays so |
| `files` | 3 saves, 2 policy users, 2 texts, 1 restart; 5 records, 1 flush, queue of 2, 3 files of 1 record; 6 bytes, 1 rotation, pages of 2 records | 286 000 | the live file is the latest saved, a saved policy is kept, a flush confirms, history is kept, expiry only if chosen, pages continue exactly |
| `children` | 2 streams of 1 byte and an overflow | 80 000 | an answer means that the child is gone; every child ends |
| `widgets` | see the header of `MCWidgets` | 421 000 | entry check guards the first call, documents and commands read back, profiles are exact and offered or said to be left out, globs match their meaning, calls obey the current policy, rows in order, coverage honest |

Why the bounds are enough to be interesting. Every ceiling is reached: with two
ordinary permits and one per service, a waiter can be blocked by the app, by its
service, or by neither; the queue of 2 fills with 4 calls. In the registry two
requests of one key meet in every order, a third competes for the only job and
reuses the first one's id; capacities of 1 and 2 are hit. In the query model three
runs and two slots let two unknown outcomes pin everything while the third waits,
and let a key be run again after an acknowledgement. Their counters need no artificial
bound: operations stop at the budget, the burst at its limit, and history
variables are sets or saturate (`overtaken` stops one above the burst). The real
limits (8, 4, 2, 128, ...) are covered by the proofs, which fix none.

`contexts` needs a second edit for a change and a change back (of the policy, while two requests
for one scope share the cache, in a part of its own), a second selection for
attempts that end in the other order, and a third request for a lease that is dropped
after its scope was reserved again and for a full `pending`; its parts say which requests
meet which edits, because all of them at once are too many. Requests and selections are
symmetric, except the request that only one part starts. `files` needs a third save for
one that is superseded while another fails, and five records in three files of one for
records to expire, also after a rotation that failed. Six bytes hold two records, a bad
line and one too long. In `widgets` three pages of up to three entries cross each limit of
rows, bytes, pages and tokens, three details of which two run at once leave one
waiting for a place, and two changes or edits are enough to make two sources of one
value disagree, or a third profile for a list of two. `Listings` and `Reads` have small numbers in place of the code's limits of
rows, pages and bytes. `CliCommand` has four operations that use flags, single values,
lists and rules that relate two arguments.

Deadlock is checked for the scheduler, which has no final state. All other
runs set `CHECK_DEADLOCK FALSE`: each request, save, record, child or answer is served
once and the system then rests. That nobody is stuck before is a liveness property of
the registry, query and child runs; the others check safety only.

### Fairness

* Scheduler: the executor polls a woken future, so a call's own `Step` is weakly
  fair once it has begun. Nothing is assumed of ordinary operations; `Release` is
  fair only for cleanup, whose scope ends after ten seconds. `ReleasingSpec`, used
  for `InteractiveServed` alone, adds that every permit is given back: `run` has a 20
  second timeout and the callers of `acquire` hold theirs within their deadline.
* Registry: `Serve(r)` is weakly fair, because verification and the wait for a result
  have deadlines of their own. Workers owe nothing in `EveryRequestEnds`.
  `KeyComesFree` assumes, in the formula itself, that cancelled work winds down
  (`WindsDown`): its scope, children and cleanup calls are all bounded.
* Query: `Progress(r)` is weakly fair, because each wait has a timer (run deadline,
  start timeout, two seconds for the policy, ten for cleanup). AWS, the user and
  other runs owe nothing.
* Process: the caller, the owner task and its cleanup are polled, time passes (`Tick`:
  the deadline timer fires), and a process that was sent SIGKILL exits (`killed /\ Exit`).
  A child that was not killed need never exit, write or close its pipes, and the caller
  need never be dropped or cancelled. A kernel that cannot end a killed process would make
  the last wait hang; that is excluded.

### Findings

1. *Background work can be overtaken by more than a burst* (`scheduler_overtaken`).
   `priority_burst` is one counter for the whole scheduler and any admission with no
   older background waiter that fits *at that moment* resets it (`scheduler.rs:383`).
   While a background waiter's service is full, admissions of other services
   reset the counter, so interactive calls can take more than `PRIORITY_BURST`
   permits it could have had. `docs/roadmap/p3-02-evidence.md:5` promises an
   ageing rule and the test at `scheduler.rs:657` is named
   `interactive_priority_cannot_starve_older_background_work`; it uses one kind of
   resource, where nothing resets the burst. What does hold, and is checked, is the
   rule for a run of uninterrupted admissions.
2. *"The request queue is full" when it is not* (`registry_refused`). A worker
   publishes its result before it removes its entry (`work_registry.rs:188-196`). The
   last subscriber that picks up the result and returns cancels the finished job, and
   an identical request that arrives before the entry goes is refused
   (`work_registry.rs:161`) with the text of line 78, though nothing is full and no
   work is running.

## 4. What is proved

All theorems hold for every value of the constants that the modules' `ASSUME`s allow:
calls, requests or runs are finite sets where they are counted, each has its kind,
service, key or id, sentinels are none of the values they stand beside, and limits are
positive. The modules whose names end in `Proofs` contain only checked proofs. Some
theorems state types and placements that no run asks TLC for, because the other
properties of the run rest on them: `TypeCorrect`, `LimitsRespected` (`WithinLimits`), `TicketsCorrect`
(`QueueIsTickets`), `SubscriptionsCounted` (`SubscribersCounted`), `KeyBelongsToWorker`
(`KeyHeldByWorker`), `LifecycleTypeCorrect`, `GuardsOwnEntries` (`EntriesMatchGuards`) and
`VerificationTypeCorrect`.

* **Scheduler.** `CountersMatchPermits` and `WithinLimits` are inductive together with the
  types (`PermitInv`): a counter is decremented only by a call that holds a permit, and that
  there is one to decrement follows from the counters being the cardinalities of the sets of
  holders. `TypeCorrect`, `CountersCorrect` and `LimitsRespected` are its
  consequences. `TicketsCorrect` needs that an entry is removed only by its owner.
  `NoWakeupIsLost` is inductive over `PermitInv`: whatever step makes a sleeping waiter
  eligible (an admission, a ticket or a permit given back) puts its actor in
  `admitted` or `notifying`, and only a notification takes it out again.
  `BurstIsBounded` and `OrderKept` follow from the choice of the next waiter. `OldestIsServed`
  adds to `PermitInv` that a waiter's streak never exceeds the scheduler's own count
  (`StreakCounted`): who passes over the oldest fitting background waiter passes over one
  that `next_eligible` sees, so the code counts what the history counts.
  `SchedulerImplementsBudget` maps admission to `Take`, release to `Give` and every other
  step to a stutter.
* **Registry.** The inductive invariant is `SharingInv`: the types, where requests may be
  with respect to a job (`WaitersPlaced`), where jobs may be with respect to their
  creator (`JobsPlaced`), and the three properties themselves. `KeyHeldByWorker` alone is not
  inductive (a second worker for a job would break it; only `Create` starts one, for the
  creator, once), nor is `CancelledIffUnwanted` without the count. From it follow
  `SubscriptionsCounted`, `WorkStopsWithLastRider`, `KeyBelongsToWorker`,
  `CleanupReportsTrue` and the refinement `RegistryImplementsSharing`. `ForestalledStayOut`
  has an invariant of its own, `ForestalledInv`: the list of tombstones is bounded and names
  an id once (`TombstonesKept`), and a request that was cancelled first has its id in that list
  until it registers and is then cancelled and without a job. The property alone
  is not inductive: it does not say that the tombstone still stands when the request registers,
  nor, without `TombstonesKept`, what is left of the list when one is taken out of it.
* **Query lifecycle.** `LifecycleInv` adds three facts to the properties: an entry stands under
  the key of its run (`EntriesOwned`), where r's slot is and what is known of its remote query at
  each program point (`SlotsPlaced`), and that the decisive reading of the policy saw
  everything allowed (`ReadBeforeStart`). The lemma `UnresolvedOwns` then says that a run with an
  unresolved query owns its key's entry and a slot, from which `UnresolvedKeepSlots`,
  `UnresolvedBounded` (never more than `QueryLimit` unresolved remote queries, however many
  retries) and `NoSecondScan` follow without further induction.

* **Verification.** `VerificationInv`: the types, what the worker has in hand at each point
  (`WorkerPlaced`), that a waiting caller's flight was started (`CallersPlaced`), that every
  installed session agrees with the two fields that are written once (`Pinned`), and that an
  invalidated context has no session (`OverForGood`). `SessionsAgree` is not inductive: the
  second session agrees with the first because the worker compared its configuration
  and its owner with what the first one pinned. `OnePrincipal` and `NeverUsedAgain`
  follow. The theorems take `VerificationAssumption` as a hypothesis.
* **Connection.** `ConnectionInv`: the types, the attempt that made a selection's context
  (`HasContext`), that no context exists before settings were observed (`Configured`), and the
  property itself in two parts (`SelectionRight`, `PinnedRight`). A publication compares
  the attempt of its request; that this makes the published context the latest needs
  `HasContext`, and that the first observed settings find nothing to forget needs
  `Configured`. `SelectionIsTheLatest` follows. What happens along the path of a whole request
  needs more, `AuthorityInv`. `NothingOutdatedDelivered` rests on what no step undoes
  (`Progress`): revisions, attempts and policies are only counted up, an invalidated context
  stays invalid, and an account that is selected later is none that a request works
  under (`SelectionsApart`). Hence a request that was overtaken has, wherever it
  is, a comparison ahead of it that will fail (`LateDoomed`). Of what is in the cache it needs
  that every entry stands under the context and policy revision it came from and was in time
  (`CacheSound`): a job that has passed its last comparison was not late. `ReservationsAreFound` needs that
  a context without a lease gets none again (`LeasesRight`), for else a late
  destructor could take the reservation of a newer request with it, and that no context is of
  the latest settings while those cannot be read (`FailedForgets`).
* **Storage.** `StoreInv`: a save that is under way and whose ticket is the last is the last
  that was accepted (`LatestIsLast`), though tickets restart with the process; the holder
  of the lock was accepted after everything reported as saved (`HolderIsNewest`); what is
  live was reported as saved (`LiveSaved`). `LatestSavedIsLive` follows, and `SavedPolicyIsKept`
  from `PolicyInv`, by which a default about to be written belongs to the lock's holder
  and was chosen for a file that is still missing or old.
* **Audit log.** `FlushInv`: every record whose `enqueue` has returned is written, or its loss is
  noted in the sticky flag, or it is in the queue, and then before each flush that covers it
  (`Accounted`). The flag is never cleared while the process lives, so a flush that finds it
  clear when it is served may confirm; `ConfirmedIsWritten` follows. `HistoryInv` adds to
  `HistoryKept` that the queue is in order and newer than all that was written (`QueueInOrder`),
  which makes an appended record the newest of its file. The step of a rotation is proved for
  every number of renames it gets done, and that of a preservation for every set of files
  that it moved. `HistoryIsKept` follows; `ExpiryIsChosen` needs that the writer rotates only
  while the saved choice says so (`RetentionInv`), although the two are changed in
  separate steps that may fail.
* **Audit reader.** A line is written as the place after which it starts and the place where it
  ends, and `ReaderInv` says that what is shown is exact up to the cursor (`Shows`, `Counts`) and
  that the cursor is where reading can go on (`Between`): at the end of a line, or in a line of
  which more than `MaxRecord` bytes lie behind it, so that the next page may skip the
  rest without knowing how long it is. A page is itself an induction over its bytes. Forwards,
  what would be answered is exact up to the offset that would be returned, no line ends
  between that offset and the byte just read, and an answer that is full has passed a
  line (`Reading`); this is why a page that promises more has advanced, as long as a record fits
  into what is read and into what is answered (`ReaderAssumption`). Backwards, the records of
  the lines from a known newline on are in hand, the last first (`Gathering`, `Gathered`).
  Appending changes nothing before the old end (`WrittenOn`). `PagesAreExact` holds for files,
  records and limits of any size.
* **Process.** `ProcessInv` follows the child through its owner: before there is an owner
  there is no child (`NotStarted`), an owner is done only with a child that was waited for or
  a report that it could not be, and has then given up the home directory, which is removed if
  the child left it empty (`Finished`), and the caller passes on what it was given (`PassedOn`). `NoChildOutlivesItsAnswer` is its consequence.
* **Dispatch.** `DispatchInv` says, stage by stage, that whatever was read or decided was
  allowed at some time since the grant. What a policy means is never unfolded: the proof
  needs only that an invalid one allows nothing. `CallsAreAllowed` follows.
* **Glob.** `ScanInv`: where the scan is it has described what it has passed (`Described`), so
  that a yes is right; and in every way in which the pattern could describe the text the last
  star that the scan has met ends no earlier than the scan lets it end (`NothingSkipped`), so
  that going back to that star, and never to one before it, loses nothing and a no is right.
  `MatcherIsRight` holds for patterns and texts of any length; its `ASSUME` leaves `*` out of
  the texts, as the operation names do.
* **Answers.** `Honest` compares what an answer claims with four histories. The lemmas about
  `Coverage` say of each of its operators which claims survive it: a claim that was given up
  (`Open`), a cut and a failure are never taken back, and of two sections only what both claim
  remains (`SectionSays`). `TakenIs` says why entries of a page are left behind: for want of
  rows or of bytes. With them each answer of `Reads` tells what is true of it, and
  `ReadsAreHonest` needs no more than that nothing is claimed before (`ReadsInv`). A listing
  is cut, stopped or denied many steps before it is answered: `ListInv` says that until the scan
  is over nothing was left out, and that from then on a limit, the budget or an
  error tells whatever was. That a limit of rows is told by the rows and the token, where
  no flag is set (`Overfull`), holds for three kinds of listing only. `ListingsAreHonest`
  follows, with the details: those of stacks are all there if as many were loaded as there are
  rows (`AllLoaded`), and a package that was not reached comes after one that was denied
  (`NotReached`).
* **Order of rows.** `OrderInv`: a job is waiting, running or settled, and settles once. When all
  have, sorting is a bijection of their places, so that the sorted jobs increase and are all
  there; then job i is in place i (`InOrderPlaces`). `RowsStayInOrder` follows.

* **Command.** Each word of an argv is an argument's name or a value, and the two are apart: all
  names in the schemas of the reviewed operations begin with a dash (`SchemaNames`,
  `NamesAreDashed`) and no value that was validated does. Hence an option that is put behind an
  argv is read back with its values, and nothing before it is read otherwise (`Appended`).
  The invariant is that this is so after every argument: what is read back is what was
  seen (`RebuiltInv`), and what was seen are arguments of the schema with as many values as
  they take (`SeenInv`). `CommandsReadBack` holds for all reviewed operations, any values and
  any number of arguments; `CommandAssumption` is that the operations are reviewed ones.
* **Profile.** `FileInv` says what a file is made of, and that is all the induction there is:
  `ProfileExact` is true of every file. The selected section is the only one of its name and
  gives every setting once (`SelectedIs`); if it names a session, the same is true of that, and
  no reader reaches a third section (`ReachableIs`). So a reader can take a setting from two
  places at most (`GivenIs`), and `Resolves` compared them. What is offered is accepted
  because the row asks the same question, in a region it makes up, and the answer does not
  depend on the region (`OfferedIsAccepted`). What is accepted is offered unless the row takes
  for long what the file gives as long (`ShownLength`), or as many profiles come before it as
  the list holds, and then the list is partial (`UnlistedIsPartial`, `AcceptedIsOffered`).
  `ProfilesExact` holds for files edited without bound and lists of any length;
  `ProfileAssumption` keeps the mark for an absent setting out of the values.
* **Requests.** `EntryGuardsFirstCall` too is true of every request, whatever its fields and
  values: what an object has that fits a shape (`FitsIs`) is what the widget looks for
  (`Found`), mode by mode (`LogsGuarded`, `PackagesGuarded`) and widget by widget
  (`PlainGuarded`). Only that a request names its context in at most two places (`DraftInv`)
  is an invariant; with it `ContextGuarded` shows that the context resolved is the one named,
  or that its region is refused.
  `EntriesGuarded` follows. The settings read back because a normal form is its own
  normal form (`NormalFormOnce`) and because a save checks what it writes (`SavedInv`):
  `SettingsReadBack`.

Every invariant and every action property of the runs that are expected to pass is thereby
proved. Induction over data is by least counterexample: every set of natural numbers has a least
member (`Least`), and so a set with 0 and all successors has them all (`Induct`). What stays with
TLC alone is liveness (`CleanupServed`, `InteractiveServed`, `EveryRequestEnds`,
`KeyComesFree`, `ActiveEntriesSettled`, `EveryChildEnds`): the provers cannot reason about
`ENABLED`, on which fairness rests.

## 5. What is left, and what is not modelled

All components of the backend that keep shared state are modelled and checked. What could
be added, in this order: a composition of `Verification` with `Connection` in one state space;
both edits in the part of `contexts` where requests meet a selection.

### Not modelled

* Frontend, packaging, scripts, tests: they are not the backend; what the webview can send is
  the environment of `WorkRegistry`, `Connection` and `Requests`.
* Sign-in, window, export and inspection commands: they shell out or read, and change no
  state that others share.
* Result cache: entry, byte and age bounds, which are arithmetic under one lock. What may be
  in the cache, under which key, and when it is cleared is in `Connection`.
* Process: discovery and launch of the AWS CLI and the child's environment.
* Validation: lengths, sizes and nesting depth of JSON, decoding of starting tokens, paths.
  Values are a few words that stand for what the checks tell apart; each module's header
  says which.
* Widgets: columns, sorting, times and wording of rows. A `*` in a text that is matched against
  a policy pattern: operation names have none.
* Diagnostics counters and failure codes of the scheduler; the contents of audit records.
