----------------------------- MODULE Scheduler -----------------------------
(***************************************************************************)
(* The app-wide work scheduler, src-tauri/src/scheduler.rs.                *)
(*                                                                         *)
(* A call is one future that wants a permit: Scheduler::run around an SDK  *)
(* operation, or a bare Scheduler::acquire (the calls in Direct).  Calls   *)
(* run on a multi-threaded executor, so every span of code between two     *)
(* awaits or two critical sections of State's mutex is a step of its own.  *)
(* In particular the mutex is released before Notify::notify_waiters is    *)
(* called, and a call arms its Notified future before it takes the mutex:  *)
(* whether a wake-up can be lost in between is what this module is about.  *)
(*                                                                         *)
(* Waiter ids only order the queue and name its entries; the call plays    *)
(* that part.  The peak and total counters of Snapshot are diagnostics     *)
(* nothing reads back and are left out.                                    *)
(***************************************************************************)
EXTENDS Integers, Sequences, FiniteSets

CONSTANTS
  Calls,              \* futures that may ask for a permit, one at a time each
  Direct,             \* the calls of acquire() that do not go through run()
  Scopes,             \* WorkScopes; the clones of one share budget and cancellation
  Services,           \* ServiceKeys: account, region and service
  ScopeOf,            \* ScopeOf[c], ServiceOf[c], KindOf[c]: acquire()'s arguments
  ServiceOf,
  KindOf,
  Background,         \* the scopes whose priority is Background
  Limit,              \* Limit[k]: APP_LIMIT, CLI_LIMIT, QUERY_LIMIT, CLEANUP_LIMIT
  ServiceLimit,       \* SERVICE_LIMIT
  QueueLimit,         \* QUEUE_LIMIT
  CleanupQueueLimit,  \* CLEANUP_QUEUE_LIMIT
  PriorityBurst,      \* PRIORITY_BURST
  OperationBudget     \* WorkBudget.operations of every scope

Kinds == {"ordinary", "cli", "query", "cleanup"}

ASSUME SchedulerAssumption ==
  /\ IsFiniteSet(Calls)
  /\ Direct \subseteq Calls
  /\ Background \subseteq Scopes
  /\ ScopeOf \in [Calls -> Scopes]
  /\ ServiceOf \in [Calls -> Services]
  /\ KindOf \in [Calls -> Kinds]
  /\ Limit \in [Kinds -> Nat \ {0}]
  /\ ServiceLimit \in Nat \ {0}
  /\ QueueLimit \in Nat \ {0}
  /\ CleanupQueueLimit \in Nat \ {0}
  /\ PriorityBurst \in Nat
  /\ OperationBudget \in Nat

VARIABLES
  pc,              \* where each call is
  woken,           \* woken[c]: c's armed Notified future has been notified
  queue,           \* State.queue
  active,          \* State.counters: permits in use of each kind
  serviceActive,   \* State.service_active; an absent entry is 0
  burst,           \* State.priority_burst
  operations,      \* WorkScope.operations
  stopped          \* the scopes whose check() fails: cancelled, or past their deadline

shared == <<queue, active, serviceActive, burst>>
vars == <<pc, woken, queue, active, serviceActive, burst, operations, stopped>>

\* idle        not asking
\* counted     run() has counted the operation, acquire() has not yet queued it
\* arming      queued; about to arm its Notified and check the scope
\* trying      armed and checked; about to take the mutex
\* waiting     in acquire()'s select
\* admitted    holds a permit; notify_waiters() still to come
\* running     holds a permit; run() polls its future, or acquire()'s caller works
\* releasing   holds a permit that is about to be dropped
\* notifying   ticket or permit given back; notify_waiters() still to come
PCs == {"idle", "counted", "arming", "trying", "waiting",
        "admitted", "running", "releasing", "notifying"}
Queued == {"arming", "trying", "waiting"}
Holding == {"admitted", "running", "releasing"}

Holders == {c \in Calls : pc[c] \in Holding}
Live(c) == ScopeOf[c] \notin stopped
Interactive(c) == ScopeOf[c] \notin Background
CleanupCall(c) == KindOf[c] = "cleanup"

-----------------------------------------------------------------------------
(* State *)

\* Mutants: an off-by-one ceiling, a service ceiling for cleanup.
FitsOffByOne(c) ==
  /\ active[KindOf[c]] <= Limit[KindOf[c]]
  /\ KindOf[c] = "ordinary" => serviceActive[ServiceOf[c]] < ServiceLimit
FitsServiceAlways(c) ==
  /\ active[KindOf[c]] < Limit[KindOf[c]]
  /\ serviceActive[ServiceOf[c]] < ServiceLimit

Fits(c) ==
  /\ active[KindOf[c]] < Limit[KindOf[c]]
  /\ KindOf[c] = "ordinary" => serviceActive[ServiceOf[c]] < ServiceLimit

\* Queue positions whose waiter fits now.
Fitting == {i \in DOMAIN queue : Fits(queue[i])}

\* Mutant: the burst is spent one admission late.
PreferredLate ==
  LET interactive == {i \in Fitting : Interactive(queue[i])}
  IN  IF burst > PriorityBurst \/ interactive = {} THEN Fitting ELSE interactive

\* The fitting positions next_eligible() chooses the oldest of: the interactive
\* ones, unless there is none or the burst is spent.
Preferred ==
  LET interactive == {i \in Fitting : Interactive(queue[i])}
  IN  IF burst >= PriorityBurst \/ interactive = {} THEN Fitting ELSE interactive

\* Mutant: the newest of the preferred waiters.
NextEligibleNewest(c) ==
  \E i \in Preferred : queue[i] = c /\ \A j \in Preferred : j <= i

NextEligible(c) ==
  \E i \in Preferred : queue[i] = c /\ \A j \in Preferred : i <= j

\* queue without its i-th entry.
Without(i) == [j \in 1 .. Len(queue) - 1 |-> IF j < i THEN queue[j] ELSE queue[j + 1]]

\* A background waiter before position i that would fit is being passed over.
PassesOver(i) ==
  \E j \in 1 .. i - 1 : ~Interactive(queue[j]) /\ Fits(queue[j])

Enter(c) ==
  /\ active' = [active EXCEPT ![KindOf[c]] = @ + 1]
  /\ serviceActive' = IF KindOf[c] = "ordinary"
                      THEN [serviceActive EXCEPT ![ServiceOf[c]] = @ + 1]
                      ELSE serviceActive

Goto(c, to) == pc' = [pc EXCEPT ![c] = to]

\* Mutant: notify_one() in the place of notify_waiters().
NotifyHead ==
  woken' = [c \in Calls |->
              woken[c] \/ (pc[c] \in {"trying", "waiting"} /\ queue # <<>> /\ c = Head(queue))]

\* changed.notify_waiters(): every Notified armed by now is woken, whether its
\* call has reached the select or is still on the way to the mutex.
NotifyWaiters == woken' = [c \in Calls |-> woken[c] \/ pc[c] \in {"trying", "waiting"}]

\* c's Notified goes out of scope; the next pass of the loop makes a new one.
DropNotified(c) == woken' = [woken EXCEPT ![c] = FALSE]

-----------------------------------------------------------------------------
(* Scheduler::run and Scheduler::acquire *)

\* run(): count_operation() succeeds while the scope's budget lasts; when it
\* fails the call ends with WorkOperationLimit and nothing has changed.
Count(c) ==
  /\ pc[c] = "idle" /\ c \notin Direct
  /\ operations[ScopeOf[c]] < OperationBudget
  /\ operations' = [operations EXCEPT ![ScopeOf[c]] = @ + 1]
  /\ Goto(c, "counted")
  /\ UNCHANGED <<woken, stopped, shared>>

\* Waiters that share c's queue allowance: cleanup has one of its own.
Pending(c) == {i \in DOMAIN queue : CleanupCall(queue[i]) <=> CleanupCall(c)}
QueueAllowance(c) == IF CleanupCall(c) THEN CleanupQueueLimit ELSE QueueLimit

ReadyToQueue(c) == pc[c] = (IF c \in Direct THEN "idle" ELSE "counted")

Enqueue(c) ==
  /\ ReadyToQueue(c)
  /\ Live(c)
  /\ Cardinality(Pending(c)) < QueueAllowance(c)
  /\ queue' = Append(queue, c)
  /\ Goto(c, "arming")
  /\ UNCHANGED <<woken, active, serviceActive, burst, operations, stopped>>

\* WorkCancelled, WorkDeadline or WorkQueueFull; a counted operation stays counted.
Refuse(c) ==
  /\ ReadyToQueue(c)
  /\ ~Live(c) \/ Cardinality(Pending(c)) >= QueueAllowance(c)
  /\ Goto(c, "idle")
  /\ UNCHANGED <<woken, operations, stopped, shared>>

\* The top of acquire()'s loop: a fresh Notified is enabled, then the scope is
\* checked (Withdraw is the failing check).
Arm(c) ==
  /\ pc[c] = "arming"
  /\ Live(c)
  /\ Goto(c, "trying")
  /\ UNCHANGED <<woken, operations, stopped, shared>>

Admit(c) ==
  /\ pc[c] = "trying"
  /\ NextEligible(c)
  /\ \E i \in DOMAIN queue :
       /\ queue[i] = c
       /\ burst' = IF PassesOver(i) THEN burst + 1 ELSE 0
       /\ queue' = Without(i)
  /\ Enter(c)
  /\ DropNotified(c)
  /\ Goto(c, "admitted")
  /\ UNCHANGED <<operations, stopped>>

Wait(c) ==
  /\ pc[c] = "trying"
  /\ ~NextEligible(c)
  /\ Goto(c, "waiting")
  /\ UNCHANGED <<woken, operations, stopped, shared>>

\* select: the notification is the last branch, taken only by a live scope.
Rearm(c) ==
  /\ pc[c] = "waiting"
  /\ woken[c]
  /\ Live(c)
  /\ DropNotified(c)
  /\ Goto(c, "arming")
  /\ UNCHANGED <<operations, stopped, shared>>

\* QueueTicket::drop, up to its notify_waiters().
DropTicket(c) ==
  /\ \E i \in DOMAIN queue : queue[i] = c /\ queue' = Without(i)
  /\ DropNotified(c)
  /\ Goto(c, "notifying")
  /\ UNCHANGED <<active, serviceActive, burst, operations, stopped>>

\* WorkCancelled or WorkDeadline, from the check in the loop or from the select.
Withdraw(c) ==
  /\ pc[c] \in {"arming", "waiting"}
  /\ ~Live(c)
  /\ DropTicket(c)

\* The whole future is dropped at its await.
Abandon(c) ==
  /\ pc[c] = "waiting"
  /\ DropTicket(c)

\* acquire() clears the ticket, notifies and returns the permit; run() checks
\* the scope once more before it polls its future.
Announce(c) ==
  /\ pc[c] = "admitted"
  /\ NotifyWaiters
  /\ Goto(c, IF c \in Direct \/ Live(c) THEN "running" ELSE "releasing")
  /\ UNCHANGED <<operations, stopped, shared>>

\* Mutant: the permit gives back its kind but not its service.
ReleaseKindOnly(c) ==
  /\ pc[c] \in {"running", "releasing"}
  /\ active' = [active EXCEPT ![KindOf[c]] = @ - 1]
  /\ Goto(c, "notifying")
  /\ UNCHANGED <<woken, queue, serviceActive, burst, operations, stopped>>

\* Permit::drop, up to its notify_waiters(): the future completed, timed out,
\* was cancelled or dropped, or the caller of acquire() is done.
Release(c) ==
  /\ pc[c] \in {"running", "releasing"}
  /\ active' = [active EXCEPT ![KindOf[c]] = @ - 1]
  /\ serviceActive' = IF KindOf[c] = "ordinary"
                      THEN [serviceActive EXCEPT ![ServiceOf[c]] = @ - 1]
                      ELSE serviceActive
  /\ Goto(c, "notifying")
  /\ UNCHANGED <<woken, queue, burst, operations, stopped>>

\* The end of both drops.
Notify(c) ==
  /\ pc[c] = "notifying"
  /\ NotifyWaiters
  /\ Goto(c, "idle")
  /\ UNCHANGED <<operations, stopped, shared>>

-----------------------------------------------------------------------------
(* WorkScope *)

\* The scope is cancelled, or its deadline passes.
Stop(s) ==
  /\ s \notin stopped
  /\ stopped' = stopped \cup {s}
  /\ UNCHANGED <<pc, woken, operations, shared>>

\* WorkScope::new for the next request, once the calls of this one are over.
Renew(s) ==
  /\ \A c \in Calls : ScopeOf[c] = s => pc[c] = "idle"
  /\ s \in stopped \/ operations[s] > 0
  /\ stopped' = stopped \ {s}
  /\ operations' = [operations EXCEPT ![s] = 0]
  /\ UNCHANGED <<pc, woken, shared>>

-----------------------------------------------------------------------------
Init ==
  /\ pc = [c \in Calls |-> "idle"]
  /\ woken = [c \in Calls |-> FALSE]
  /\ queue = <<>>
  /\ active = [k \in Kinds |-> 0]
  /\ serviceActive = [s \in Services |-> 0]
  /\ burst = 0
  /\ operations = [s \in Scopes |-> 0]
  /\ stopped = {}

\* The steps an executor owes a call once it has been woken.
Step(c) ==
  \/ Enqueue(c) \/ Refuse(c)
  \/ Arm(c) \/ Admit(c) \/ Wait(c) \/ Rearm(c) \/ Withdraw(c)
  \/ Announce(c) \/ Notify(c)

Next ==
  \/ \E c \in Calls : Count(c) \/ Step(c) \/ Abandon(c) \/ Release(c)
  \/ \E s \in Scopes : Stop(s) \/ Renew(s)

Spec == Init /\ [][Next]_vars

(***************************************************************************)
(* The executor polls every woken future; it owes nothing else.  Whether   *)
(* an ordinary operation ever ends is AWS's business, so Release is fair   *)
(* only for cleanup calls, whose scope has a ten second deadline of its    *)
(* own (cleanup_scope), and a scope is never obliged to stop.              *)
(***************************************************************************)
Fairness ==
  /\ \A c \in Calls : WF_vars((pc[c] \notin {"idle"} /\ Step(c)))
  /\ \A c \in Calls : CleanupCall(c) => WF_vars(Release(c))

FairSpec == Spec /\ Fairness

-----------------------------------------------------------------------------
(* Properties *)

TypeOK ==
  /\ pc \in [Calls -> PCs]
  /\ woken \in [Calls -> BOOLEAN]
  /\ queue \in Seq(Calls)
  /\ active \in [Kinds -> Nat]
  /\ serviceActive \in [Services -> Nat]
  /\ burst \in Nat
  /\ operations \in [Scopes -> 0 .. OperationBudget]
  /\ stopped \subseteq Scopes

\* The counters that admission reads are the permits that exist: every path out
\* of a permit (completion, timeout, cancellation, drop) gives back exactly what
\* enter() took, in the kind's counter and in the service's.
KindHolders(k) == {c \in Holders : KindOf[c] = k}
ServiceHolders(s) == {c \in KindHolders("ordinary") : ServiceOf[c] = s}
CountersMatchPermits ==
  /\ \A k \in Kinds : active[k] = Cardinality(KindHolders(k))
  /\ \A s \in Services : serviceActive[s] = Cardinality(ServiceHolders(s))

\* The ceilings are ceilings on the permits themselves, not on the counters.
WithinLimits ==
  /\ \A k \in Kinds : Cardinality(KindHolders(k)) <= Limit[k]
  /\ \A s \in Services : Cardinality(ServiceHolders(s)) <= ServiceLimit

\* The queue is exactly the calls with a live ticket, once each: acquire()'s
\* expect("owned queue ticket") cannot fail, no admitted, withdrawn or abandoned
\* call leaves an entry behind to block the ones after it.
QueueIsTickets ==
  /\ \A i, j \in DOMAIN queue : queue[i] = queue[j] => i = j
  /\ \A c \in Calls : pc[c] \in Queued <=> \E i \in DOMAIN queue : queue[i] = c

\* The waiter whose turn it is never sleeps with nobody left to wake it.  The
\* mutex is always released before notify_waiters(), so this needs the armed
\* Notified of acquire()'s loop and a notification after every change that can
\* make another waiter eligible: admission, ticket drop and permit drop.
NoLostWakeup ==
  \A c \in Calls :
    pc[c] = "waiting" /\ ~woken[c] /\ NextEligible(c)
      => \E d \in Calls : pc[d] \in {"admitted", "notifying"}

\* The run of passed-over background waiters is itself bounded.
BurstBounded == burst <= PriorityBurst

\* Within one class (kind, service, priority) admission is first come, first
\* served, whatever cancellations and wake-ups happen in between.
SameClass(c, d) ==
  /\ KindOf[c] = KindOf[d]
  /\ ServiceOf[c] = ServiceOf[d]
  /\ Interactive(c) <=> Interactive(d)
OlderInClass(c) ==
  {d \in Calls : \E i, j \in DOMAIN queue :
     i < j /\ queue[i] = d /\ queue[j] = c /\ SameClass(c, d)}
FirstComeFirstServed ==
  [][\A c \in Calls : pc[c] = "trying" /\ pc'[c] = "admitted"
       => OlderInClass(c) = {}]_vars

\* Cleanup is served although ordinary operations may never end and ordinary
\* work keeps arriving (cleanup_scope: "cannot be starved by normal work").
CleanupServed ==
  \A c \in Calls : CleanupCall(c) /\ pc[c] \in Queued ~> pc[c] \notin Queued

-----------------------------------------------------------------------------
(* Refinement: queue, tickets and wake-ups implement the bare resource budget. *)

Pools == Kinds \cup Services
PoolMembers ==
  [p \in Pools |-> IF p \in Kinds
                   THEN {c \in Calls : KindOf[c] = p}
                   ELSE {c \in Calls : KindOf[c] = "ordinary" /\ ServiceOf[c] = p}]
PoolCeiling == [p \in Pools |-> IF p \in Kinds THEN Limit[p] ELSE ServiceLimit]

Budget == INSTANCE ResourceBudget
            WITH Pools <- Pools, Members <- PoolMembers, Ceiling <- PoolCeiling,
                 holding <- Holders

\* Every behaviour of the scheduler is one of the abstract budget.
ImplementsBudget == Budget!Spec
=============================================================================
