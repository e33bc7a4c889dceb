---------------------------- MODULE WorkRegistry ----------------------------
(***************************************************************************)
(* Request ownership and sharing of identical work,                        *)
(* src-tauri/src/work_registry.rs.                                         *)
(*                                                                         *)
(* A request registers its id, may leave again while it is verified, asks  *)
(* for the work of its key and waits for the result, for a cancellation or *)
(* for the display deadline.  A job is named after the request that        *)
(* created it.  Every critical section of the registry's mutex is one      *)
(* step, and so is every step a request or a worker takes outside it: the  *)
(* worker publishes its result before it takes the mutex to remove its     *)
(* entry, a subscriber picks its result before it takes the mutex to       *)
(* detach, and a cancellation may land between any two of them.            *)
(*                                                                         *)
(* A request whose future is dropped half-way ends the application (Tauri  *)
(* never aborts a command), so the Drop impls run only at the normal ends. *)
(***************************************************************************)
EXTENDS Integers, Sequences, FiniteSets

CONSTANTS
  Requests,     \* command invocations, one coalesce() each at most
  Ids,          \* request ids
  IdOf,         \* IdOf[r]: two invocations may carry one id, as a resend does
  Keys,         \* coalescing keys: authority, widget and normalized inputs
  KeyOf,        \* KeyOf[r]
  Capacity,     \* CAPACITY, of requests
  JobCapacity,  \* CAPACITY, of jobs; the code has one constant for both
  Tombstones,   \* TOMBSTONES
  None          \* no request, no job

ASSUME RegistryAssumption ==
  /\ IsFiniteSet(Requests)
  /\ IdOf \in [Requests -> Ids]
  /\ KeyOf \in [Requests -> Keys]
  /\ None \notin Requests
  /\ Capacity \in Nat \ {0}
  /\ JobCapacity \in Nat \ {0}
  /\ Tombstones \in Nat \ {0}

VARIABLES
  pc,             \* where each request is
  requests,       \* RegistryState.requests: the request registered under each id
  token,          \* token[r]: r's ProcessCancellation is cancelled
  tombstones,     \* RegistryState.cancelled: ids, oldest first
  jobs,           \* RegistryState.jobs: the job under each key
  cancelled,      \* cancelled[j]: Job.cancel is cancelled
  subscribers,    \* subscribers[j]: Job.subscribers
  worker,         \* where each job's worker task is
  jobOf,          \* jobOf[r]: the job r's Subscription refers to
  attached,       \* attached[r]: Subscription.attached
  cancelledLast,  \* cancelledLast[r]: coalesce()'s cancelled_last
  answer,         \* what r was told
  swept,          \* history: the jobs cancelled by cancel_all() or cancel_jobs()
  forestalled     \* history: the requests whose cancellation came first and still counts

vars == <<pc, requests, token, tombstones, jobs, cancelled, subscribers, worker,
          jobOf, attached, cancelledLast, answer, swept, forestalled>>

\* new          not yet received
\* registered   owns its id; verification in progress
\* joining      has seen its token live; about to take the mutex in coalesce()
\* subscribed   in coalesce()'s loop
\* answered     coalesce() has its value; its Subscription is still to be dropped
\* leaving      its Registration is still to be dropped
\* done         returned to the frontend
PCs == {"new", "registered", "joining", "subscribed", "answered", "leaving", "done"}
Owning == {"registered", "joining", "subscribed", "answered", "leaving"}

\* early    left before coalesce(); Cancelled and every verification error
\* busy     busy_result()
\* result   what the worker published
\* needed   cleanup "not_requested": "Shared work is still needed by another request"
\* unknown  WorkDeadline with cleanup "unknown"
Answers == {"none", "early", "busy", "result", "needed", "unknown"}
WorkerStates == {"none", "running", "published", "gone"}

Goto(r, to) == pc' = [pc EXCEPT ![r] = to]
Answer(r, a) == answer' = [answer EXCEPT ![r] = a]

Registered == {i \in Ids : requests[i] # None}
Occupied == {k \in Keys : jobs[k] # None}
InFlight == {jobs[k] : k \in Occupied}

jobVars == <<jobs, cancelled, subscribers, worker>>
waitVars == <<jobOf, attached, cancelledLast>>

-----------------------------------------------------------------------------
(* Requests *)

\* The tombstones s without id i's, of which there is one at most.
Forget(s, i) ==
  LET places == {n \in DOMAIN s : s[n] = i}
      gone == CHOOSE n \in places : TRUE
  IN  IF places = {} THEN s
      ELSE [n \in 1 .. Len(s) - 1 |-> IF n < gone THEN s[n] ELSE s[n + 1]]

Tombstoned(r) == \E n \in DOMAIN tombstones : tombstones[n] = IdOf[r]

\* register(): the id becomes r's unless it is in use or the registry is full.
\* A tombstone is consumed and cancels r there and then.
Register(r) ==
  /\ pc[r] = "new"
  /\ Cardinality(Registered) < Capacity
  /\ IdOf[r] \notin Registered
  /\ requests' = [requests EXCEPT ![IdOf[r]] = r]
  /\ token' = [token EXCEPT ![r] = Tombstoned(r)]
  /\ tombstones' = Forget(tombstones, IdOf[r])
  /\ forestalled' = {s \in forestalled : s = r \/ IdOf[s] # IdOf[r]}
  /\ Goto(r, "registered")
  /\ UNCHANGED <<jobVars, waitVars, answer, swept>>

Refuse(r) ==
  /\ pc[r] = "new"
  /\ Cardinality(Registered) >= Capacity \/ IdOf[r] \in Registered
  /\ Answer(r, "busy")
  /\ Goto(r, "done")
  /\ UNCHANGED <<requests, token, tombstones, jobVars, waitVars, swept, forestalled>>

\* The request ends before it reaches coalesce(): denied, failed, cancelled or out
\* of time in verification, or answered from the result cache.
LeaveEarly(r) ==
  /\ pc[r] = "registered"
  /\ Answer(r, "early")
  /\ Goto(r, "leaving")
  /\ UNCHANGED <<requests, token, tombstones, jobVars, waitVars, swept, forestalled>>

\* Drop of the Registration: the token is cancelled and the id is free again.
Unregister(r) ==
  /\ pc[r] = "leaving"
  /\ token' = [token EXCEPT ![r] = TRUE]
  /\ requests' = [requests EXCEPT ![IdOf[r]] = None]
  /\ Goto(r, "done")
  /\ UNCHANGED <<tombstones, jobVars, waitVars, answer, swept, forestalled>>

-----------------------------------------------------------------------------
(* Cancellation *)

\* A full store of tombstones gives up its oldest entry.
MakeRoom == IF Len(tombstones) >= Tombstones THEN Tail(tombstones) ELSE tombstones

\* cancel() of an id nobody has registered yet: remembered as the newest tombstone.
Forestall(i) ==
  LET evicted == IF Len(tombstones) >= Tombstones THEN {Head(tombstones)} ELSE {}
  IN  /\ i \notin Registered
      /\ tombstones' = Append(Forget(MakeRoom, i), i)
      /\ forestalled' =
           {s \in forestalled : pc[s] # "new" \/ IdOf[s] \notin evicted}
             \cup {s \in Requests : pc[s] = "new" /\ IdOf[s] = i}
      /\ UNCHANGED <<pc, requests, token, jobVars, waitVars, answer, swept>>

\* cancel() of a registered id.
Cancel(i) ==
  /\ i \in Registered
  /\ token' = [token EXCEPT ![requests[i]] = TRUE]
  /\ UNCHANGED <<pc, requests, tombstones, jobVars, waitVars, answer, swept, forestalled>>

\* A tombstone is sixty seconds old: the next retain() drops it before it is read.
Expire ==
  /\ tombstones # <<>>
  /\ tombstones' = Tail(tombstones)
  /\ forestalled' = {s \in forestalled : pc[s] # "new" \/ IdOf[s] # Head(tombstones)}
  /\ UNCHANGED <<pc, requests, token, jobVars, waitVars, answer, swept>>

\* cancel_jobs(): policy changed under every job in flight.
CancelJobs ==
  /\ cancelled' = [j \in Requests |-> cancelled[j] \/ j \in InFlight]
  /\ swept' = swept \cup InFlight
  /\ UNCHANGED <<pc, requests, token, tombstones, jobs, subscribers, worker, waitVars,
                 answer, forestalled>>

\* cancel_all(): settings or credentials changed under every request.
CancelAll ==
  /\ token' = [r \in Requests |-> token[r] \/ r \in {requests[i] : i \in Registered}]
  /\ cancelled' = [j \in Requests |-> cancelled[j] \/ j \in InFlight]
  /\ swept' = swept \cup InFlight
  /\ UNCHANGED <<pc, requests, tombstones, jobs, subscribers, worker, waitVars,
                 answer, forestalled>>

-----------------------------------------------------------------------------
(* coalesce() *)

\* Mutant: coalesce() trusts verification to have noticed a cancelled token.
EnterUnchecked(r) ==
  /\ pc[r] = "registered"
  /\ Goto(r, "joining")
  /\ UNCHANGED <<requests, token, tombstones, jobVars, waitVars, answer, swept, forestalled>>

\* coalesce() with a live token; with a cancelled one it is LeaveEarly.
Enter(r) ==
  /\ pc[r] = "registered"
  /\ ~token[r]
  /\ Goto(r, "joining")
  /\ UNCHANGED <<requests, token, tombstones, jobVars, waitVars, answer, swept, forestalled>>

Subscribe(r, j) ==
  /\ jobOf' = [jobOf EXCEPT ![r] = j]
  /\ attached' = [attached EXCEPT ![r] = TRUE]
  /\ Goto(r, "subscribed")
  /\ UNCHANGED <<requests, token, tombstones, cancelledLast, answer, swept, forestalled>>

\* Mutant: a cancelled job is joined.
JoinCancelled(r) ==
  LET j == jobs[KeyOf[r]]
  IN  /\ pc[r] = "joining"
      /\ j # None
      /\ subscribers' = [subscribers EXCEPT ![j] = @ + 1]
      /\ Subscribe(r, j)
      /\ UNCHANGED <<jobs, cancelled, worker>>

Join(r) ==
  LET j == jobs[KeyOf[r]]
  IN  /\ pc[r] = "joining"
      /\ j # None
      /\ ~cancelled[j]
      /\ subscribers' = [subscribers EXCEPT ![j] = @ + 1]
      /\ Subscribe(r, j)
      /\ UNCHANGED <<jobs, cancelled, worker>>

\* The key is free: r's job is entered with r as its one subscriber, and its
\* worker is spawned before anything else can be awaited.
Create(r) ==
  /\ pc[r] = "joining"
  /\ jobs[KeyOf[r]] = None
  /\ Cardinality(Occupied) < JobCapacity
  /\ jobs' = [jobs EXCEPT ![KeyOf[r]] = r]
  /\ subscribers' = [subscribers EXCEPT ![r] = 1]
  /\ worker' = [worker EXCEPT ![r] = "running"]
  /\ Subscribe(r, r)
  /\ UNCHANGED cancelled

\* busy_result(): the job under the key is cancelled, or there are too many jobs.
Busy(r) ==
  LET j == jobs[KeyOf[r]]
  IN  /\ pc[r] = "joining"
      /\ IF j = None THEN Cardinality(Occupied) >= JobCapacity ELSE cancelled[j]
      /\ Answer(r, "busy")
      /\ Goto(r, "leaving")
      /\ UNCHANGED <<requests, token, tombstones, jobVars, waitVars, swept, forestalled>>

\* Mutant: nobody notices that the count has dropped to zero.
DetachNeverLast(r) ==
  LET j == jobOf[r]
  IN  /\ attached' = [attached EXCEPT ![r] = FALSE]
      /\ subscribers' = IF attached[r] THEN [subscribers EXCEPT ![j] = @ - 1]
                                       ELSE subscribers
      /\ UNCHANGED <<jobs, cancelled, worker, jobOf>>

\* Subscription::detach(): the last subscriber to leave cancels the job.
Detach(r) ==
  LET j == jobOf[r]
  IN  /\ attached' = [attached EXCEPT ![r] = FALSE]
      /\ subscribers' = IF attached[r] THEN [subscribers EXCEPT ![j] = @ - 1]
                                       ELSE subscribers
      /\ cancelled' = IF attached[r] /\ subscribers[j] = 1
                      THEN [cancelled EXCEPT ![j] = TRUE] ELSE cancelled
      /\ UNCHANGED <<jobs, worker, jobOf>>

\* detach()'s result.
IsLast(r) == attached[r] /\ subscribers[jobOf[r]] = 1

\* The loop's check, first or after receiver.changed(): the worker has published.
Receive(r) ==
  /\ pc[r] = "subscribed"
  /\ worker[jobOf[r]] \in {"published", "gone"}
  /\ Answer(r, "result")
  /\ Goto(r, "answered")
  /\ UNCHANGED <<requests, token, tombstones, jobVars, waitVars, swept, forestalled>>

\* The subscriber's token is cancelled.  The last one stays to wait for cleanup,
\* any other leaves at once.
CancelSeen(r) ==
  /\ pc[r] = "subscribed"
  /\ token[r]
  /\ ~cancelledLast[r]
  /\ Detach(r)
  /\ \/ /\ IsLast(r)
        /\ cancelledLast' = [cancelledLast EXCEPT ![r] = TRUE]
        /\ UNCHANGED <<pc, answer>>
     \/ /\ ~IsLast(r)
        /\ Answer(r, "needed")
        /\ Goto(r, "answered")
        /\ UNCHANGED cancelledLast
  /\ UNCHANGED <<requests, token, tombstones, swept, forestalled>>

\* Mutant: the deadline reports only what its own detach() returned.
AtDeadlineLate(r) == IF IsLast(r) THEN "unknown" ELSE "needed"

AtDeadline(r) == IF IsLast(r) \/ cancelledLast[r] THEN "unknown" ELSE "needed"

\* Mutant: a subscriber that waits for cleanup waits without a deadline.
DeadlineUnlessLast(r) ==
  /\ pc[r] = "subscribed"
  /\ ~cancelledLast[r]
  /\ Detach(r)
  /\ Answer(r, AtDeadline(r))
  /\ Goto(r, "answered")
  /\ UNCHANGED <<requests, token, tombstones, cancelledLast, swept, forestalled>>

\* DISPLAY_DEADLINE has passed.
DisplayDeadline(r) ==
  /\ pc[r] = "subscribed"
  /\ Detach(r)
  /\ Answer(r, AtDeadline(r))
  /\ Goto(r, "answered")
  /\ UNCHANGED <<requests, token, tombstones, cancelledLast, swept, forestalled>>

\* Drop of the Subscription as coalesce() returns.
Return(r) ==
  /\ pc[r] = "answered"
  /\ Detach(r)
  /\ Goto(r, "leaving")
  /\ UNCHANGED <<requests, token, tombstones, cancelledLast, answer, swept, forestalled>>

-----------------------------------------------------------------------------
(* The worker task *)

\* The work ends, or panics, and its result is sent.
Publish(j) ==
  /\ worker[j] = "running"
  /\ worker' = [worker EXCEPT ![j] = "published"]
  /\ UNCHANGED <<pc, requests, token, tombstones, jobs, cancelled, subscribers, waitVars,
                 answer, swept, forestalled>>

\* The worker takes the mutex and removes its entry, if it is still its own.
RemoveEntry(j) ==
  /\ worker[j] = "published"
  /\ worker' = [worker EXCEPT ![j] = "gone"]
  /\ jobs' = [jobs EXCEPT ![KeyOf[j]] = IF @ = j THEN None ELSE @]
  /\ UNCHANGED <<pc, requests, token, tombstones, cancelled, subscribers, waitVars,
                 answer, swept, forestalled>>

-----------------------------------------------------------------------------
Init ==
  /\ pc = [r \in Requests |-> "new"]
  /\ requests = [i \in Ids |-> None]
  /\ token = [r \in Requests |-> FALSE]
  /\ tombstones = <<>>
  /\ jobs = [k \in Keys |-> None]
  /\ cancelled = [j \in Requests |-> FALSE]
  /\ subscribers = [j \in Requests |-> 0]
  /\ worker = [j \in Requests |-> "none"]
  /\ jobOf = [r \in Requests |-> None]
  /\ attached = [r \in Requests |-> FALSE]
  /\ cancelledLast = [r \in Requests |-> FALSE]
  /\ answer = [r \in Requests |-> "none"]
  /\ swept = {}
  /\ forestalled = {}

\* What a received request does, and is owed by the executor and the timers.
Serve(r) ==
  \/ LeaveEarly(r) \/ Unregister(r)
  \/ Enter(r) \/ Join(r) \/ Create(r) \/ Busy(r)
  \/ Receive(r) \/ CancelSeen(r) \/ DisplayDeadline(r) \/ Return(r)

Next ==
  \/ \E r \in Requests : Register(r) \/ Refuse(r) \/ Serve(r)
  \/ \E j \in Requests : Publish(j) \/ RemoveEntry(j)
  \/ \E i \in Ids : Forestall(i) \/ Cancel(i)
  \/ Expire \/ CancelJobs \/ CancelAll

Spec == Init /\ [][Next]_vars

(***************************************************************************)
(* A received request is polled and its timers fire: verification has a    *)
(* deadline of its own and so has the wait for the result.  Nothing is     *)
(* assumed of any worker, cancelled or not.                                *)
(***************************************************************************)
FairSpec == Spec /\ \A r \in Requests : WF_vars(Serve(r))

(***************************************************************************)
(* What cancelled work owes: its scope, its child processes and its        *)
(* cleanup calls are all bounded, so it ends, and the task that has        *)
(* published goes on to take the mutex.                                    *)
(***************************************************************************)
WindsDown ==
  \A j \in Requests : WF_vars(cancelled[j] /\ Publish(j)) /\ WF_vars(RemoveEntry(j))

-----------------------------------------------------------------------------
(* Properties *)

TypeOK ==
  /\ pc \in [Requests -> PCs]
  /\ requests \in [Ids -> Requests \cup {None}]
  /\ token \in [Requests -> BOOLEAN]
  /\ tombstones \in Seq(Ids)
  /\ jobs \in [Keys -> Requests \cup {None}]
  /\ cancelled \in [Requests -> BOOLEAN]
  /\ subscribers \in [Requests -> Nat]
  /\ worker \in [Requests -> WorkerStates]
  /\ jobOf \in [Requests -> Requests \cup {None}]
  /\ attached \in [Requests -> BOOLEAN]
  /\ cancelledLast \in [Requests -> BOOLEAN]
  /\ answer \in [Requests -> Answers]
  /\ swept \subseteq Requests
  /\ forestalled \subseteq Requests

\* Job.subscribers counts the Subscriptions that are still attached.
Riders(j) == {r \in Requests : attached[r] /\ jobOf[r] = j}
SubscribersCounted ==
  \A j \in Requests : subscribers[j] = Cardinality(Riders(j))

\* Work is cancelled when, and unless a sweep said so only when, nobody wants it any
\* more: no live joiner loses its work to a subscriber that leaves, and no work
\* that everyone has left runs on ("A new subscriber either joins before this
\* decrement or sees a cancelled job").
CancelledIffUnwanted ==
  \A j \in Requests :
    worker[j] # "none" => (cancelled[j] <=> Riders(j) = {} \/ j \in swept)

\* A key is taken exactly while its worker task lives.  So identical work never
\* runs twice at once, not even while a cancelled worker winds down, and the
\* ptr_eq() test before the entry is removed never fails.
KeyHeldByWorker ==
  \A j \in Requests :
    worker[j] \in {"running", "published"} <=> jobs[KeyOf[j]] = j

\* A request whose cancellation overtook it never starts or joins work, as long as
\* the tombstone was neither evicted nor sixty seconds old when it registered.
ForestalledNeverWorks ==
  \A r \in forestalled : pc[r] # "new" => jobOf[r] = None

\* "Shared work is still needed by another request" is said only if another
\* request is attached to it, and "The original worker still owns it" only of
\* work that has been told to stop.
CleanupReportTruthful ==
  [][\A r \in Requests : answer'[r] # answer[r] =>
       /\ answer'[r] = "needed" => Riders(jobOf[r]) \ {r} # {}
       /\ answer'[r] = "unknown" => cancelled'[jobOf[r]]]_vars

\* Every received request is answered and lets go of its id, even if the worker it
\* waits for never ends.
EveryRequestEnds ==
  \A r \in Requests : pc[r] = "registered" ~> pc[r] = "done"

\* No key is taken for ever by work nobody wants: when the subscribers of a worker
\* that makes no progress have all left, it is cancelled, and if cancelled work
\* winds down the key can be used again.
KeyComesFree ==
  WindsDown => \A k \in Keys : jobs[k] # None ~> jobs[k] = None

\* "The request queue is full. Try again after current work finishes.": a request
\* is refused only if there are too many jobs or the work it asked for is running.
RefusedOnlyWhileWorkRuns ==
  [][\A r \in Requests : pc[r] = "joining" /\ answer'[r] = "busy" =>
       \/ Cardinality(Occupied) >= JobCapacity
       \/ worker[jobs[KeyOf[r]]] = "running"]_vars

-----------------------------------------------------------------------------
(* Refinement: counters, the mutex and the result channel share as promised. *)

Flight == INSTANCE SharedFlight
            WITH flight <- jobs,
                 riders <- [j \in Requests |-> Riders(j)],
                 doomed <- {j \in Requests : cancelled[j]}

\* Every behaviour of the registry is one of the abstract sharing.
ImplementsSharing == Flight!Spec
=============================================================================
