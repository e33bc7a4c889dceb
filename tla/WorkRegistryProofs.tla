------------------------- MODULE WorkRegistryProofs -------------------------
(***************************************************************************)
(* What holds of the registry for every number of requests, ids and keys   *)
(* and every capacity.  What is shared is about jobs and subscriptions     *)
(* alone (SharingInv); what a cancellation that came first achieves is     *)
(* about tombstones and tokens besides (ForestalledInv).                   *)
(***************************************************************************)
EXTENDS WorkRegistry, FiniteSetTheorems, TLAPS

USE DEF PCs, Owning, WorkerStates, Answers

-----------------------------------------------------------------------------
(* The inductive invariant *)

SharingTypes ==
  /\ pc \in [Requests -> PCs]
  /\ jobs \in [Keys -> Requests \cup {None}]
  /\ cancelled \in [Requests -> BOOLEAN]
  /\ subscribers \in [Requests -> Nat]
  /\ worker \in [Requests -> WorkerStates]
  /\ jobOf \in [Requests -> Requests \cup {None}]
  /\ attached \in [Requests -> BOOLEAN]
  /\ cancelledLast \in [Requests -> BOOLEAN]
  /\ answer \in [Requests -> Answers]
  /\ swept \subseteq Requests

\* A request has no part in any job before it has subscribed, a subscribed one
\* refers to a job, and it waits detached exactly if it was the last to cancel.
WaitersPlaced ==
  \A r \in Requests :
    /\ pc[r] \in {"new", "registered", "joining"} =>
         jobOf[r] = None /\ ~cancelledLast[r] /\ worker[r] = "none"
    /\ pc[r] \in {"subscribed", "answered"} => jobOf[r] \in Requests
    /\ pc[r] = "subscribed" => (attached[r] <=> ~cancelledLast[r])
    /\ attached[r] => jobOf[r] \in Requests /\ pc[r] \in {"subscribed", "answered"}
    /\ cancelledLast[r] => jobOf[r] \in Requests /\ cancelled[jobOf[r]]

\* A job without a worker is a job that was never created.
JobsPlaced ==
  /\ \A k \in Keys : jobs[k] # None => KeyOf[jobs[k]] = k
  /\ \A r \in Requests : attached[r] => worker[jobOf[r]] # "none"
  /\ \A j \in Requests : worker[j] = "none" => ~cancelled[j] /\ j \notin swept

SharingInv ==
  /\ SharingTypes
  /\ WaitersPlaced
  /\ JobsPlaced
  /\ KeyHeldByWorker
  /\ SubscribersCounted
  /\ CancelledIffUnwanted

sharing == <<jobs, cancelled, subscribers, worker, jobOf, attached, cancelledLast, swept>>

-----------------------------------------------------------------------------
(* Riders *)

\* A job's riders are finitely many.
LEMMA RidersFinite ==
  \A j : IsFiniteSet(Riders(j)) /\ Cardinality(Riders(j)) \in Nat
  <1>1. \A j : Riders(j) \in SUBSET Requests
    BY DEF Riders
  <1> QED
    BY <1>1, RegistryAssumption, FS_Subset, FS_CardinalityType

\* A subscription adds its request to the riders of its job, and to no others.
LEMMA RidersJoin ==
  ASSUME attached \in [Requests -> BOOLEAN], jobOf \in [Requests -> Requests \cup {None}],
         NEW r \in Requests, NEW j \in Requests, ~attached[r],
         attached' = [attached EXCEPT ![r] = TRUE], jobOf' = [jobOf EXCEPT ![r] = j]
  PROVE  \A i \in Requests :
           /\ Riders(i)' = IF i = j THEN Riders(i) \cup {r} ELSE Riders(i)
           /\ Cardinality(Riders(i)') = Cardinality(Riders(i)) + (IF i = j THEN 1 ELSE 0)
  <1> TAKE i \in Requests
  <1>1. Riders(i)' = IF i = j THEN Riders(i) \cup {r} ELSE Riders(i)
    BY DEF Riders
  <1>2. r \notin Riders(i)
    BY DEF Riders
  <1>3. IsFiniteSet(Riders(i)) /\ Cardinality(Riders(i)) \in Nat
    BY RidersFinite
  <1>4. Cardinality(Riders(i) \cup {r}) = Cardinality(Riders(i)) + 1
    BY <1>2, <1>3, FS_AddElement
  <1> QED
    BY <1>1, <1>3, <1>4

\* A detached subscription takes its request from the riders of its job alone.
LEMMA RidersLeave ==
  ASSUME attached \in [Requests -> BOOLEAN], jobOf \in [Requests -> Requests \cup {None}],
         NEW r \in Requests, attached[r], jobOf[r] \in Requests,
         attached' = [attached EXCEPT ![r] = FALSE], jobOf' = jobOf
  PROVE  \A i \in Requests :
           /\ Riders(i)' = IF i = jobOf[r] THEN Riders(i) \ {r} ELSE Riders(i)
           /\ Cardinality(Riders(i)') =
                Cardinality(Riders(i)) - (IF i = jobOf[r] THEN 1 ELSE 0)
           /\ r \in Riders(jobOf[r])
  <1> TAKE i \in Requests
  <1>1. Riders(i)' = IF i = jobOf[r] THEN Riders(i) \ {r} ELSE Riders(i)
    BY DEF Riders
  <1>2. r \in Riders(jobOf[r])
    BY DEF Riders
  <1>3. \A k : IsFiniteSet(Riders(k)) /\ Cardinality(Riders(k)) \in Nat
    BY RidersFinite
  <1>4. Cardinality(Riders(jobOf[r]) \ {r}) = Cardinality(Riders(jobOf[r])) - 1
    BY <1>2, <1>3, FS_RemoveElement
  <1> QED
    BY <1>1, <1>2, <1>3, <1>4

\* One rider is all there is exactly if the count says one.
LEMMA LastRider ==
  ASSUME SubscribersCounted, NEW r \in Requests, NEW j \in Requests, r \in Riders(j)
  PROVE  subscribers[j] = 1 <=> Riders(j) = {r}
  <1>1. IsFiniteSet(Riders(j)) /\ Cardinality(Riders(j)) \in Nat
    BY RidersFinite
  <1>2. Cardinality(Riders(j) \ {r}) = Cardinality(Riders(j)) - 1
    BY <1>1, FS_RemoveElement
  <1>3. IsFiniteSet(Riders(j) \ {r})
    BY <1>1, FS_RemoveElement
  <1>4. Cardinality(Riders(j) \ {r}) = 0 <=> Riders(j) \ {r} = {}
    BY <1>3, FS_EmptySet
  <1> QED
    BY <1>1, <1>2, <1>4 DEF SubscribersCounted

-----------------------------------------------------------------------------
(* SharingInv is inductive *)

LEMMA SharingInvInit == Init => SharingInv
  <1> SUFFICES ASSUME Init PROVE SharingInv
    OBVIOUS
  <1>1. \A j : Riders(j) = {}
    BY DEF Init, Riders
  <1>2. SharingTypes /\ WaitersPlaced /\ JobsPlaced /\ KeyHeldByWorker
    BY RegistryAssumption DEF Init, SharingTypes, WaitersPlaced, JobsPlaced, KeyHeldByWorker
  <1>3. SubscribersCounted /\ CancelledIffUnwanted
    BY <1>1, FS_EmptySet DEF Init, SubscribersCounted, CancelledIffUnwanted
  <1> QED
    BY <1>2, <1>3 DEF SharingInv

\* A request that moves about before it subscribes, after it has detached, or from
\* waiting to having its answer disturbs nothing.
LEMMA SharingInvAside ==
  ASSUME SharingInv, UNCHANGED sharing,
         pc' \in [Requests -> PCs], answer' \in [Requests -> Answers],
         \A r \in Requests :
           /\ pc'[r] \in {"new", "registered", "joining"} =>
                pc[r] \in {"new", "registered", "joining"}
           /\ pc'[r] = "subscribed" => pc[r] = "subscribed"
           /\ pc'[r] \in {"subscribed", "answered"} <=> pc[r] \in {"subscribed", "answered"}
  PROVE  SharingInv'
  <1> USE DEF SharingInv, sharing
  <1>1. \A j : Riders(j)' = Riders(j)
    BY DEF Riders
  <1>2. SharingTypes'
    BY DEF SharingTypes
  <1>3. WaitersPlaced'
    BY DEF WaitersPlaced, SharingTypes
  <1>4. JobsPlaced' /\ KeyHeldByWorker'
    BY DEF JobsPlaced, KeyHeldByWorker
  <1>5. SubscribersCounted' /\ CancelledIffUnwanted'
    BY <1>1 DEF SubscribersCounted, CancelledIffUnwanted
  <1> QED
    BY <1>2, <1>3, <1>4, <1>5

\* Joining counts the joiner in; the job it joins is not cancelled.
LEMMA SharingInvJoin ==
  ASSUME SharingInv, NEW r \in Requests, Join(r)
  PROVE  SharingInv'
  <1> DEFINE j == jobs[KeyOf[r]]
  <1> USE RegistryAssumption DEF SharingInv
  <1>1. /\ pc[r] = "joining" /\ pc' = [pc EXCEPT ![r] = "subscribed"]
        /\ j \in Requests /\ ~cancelled[j] /\ KeyOf[j] = KeyOf[r]
        /\ subscribers' = [subscribers EXCEPT ![j] = @ + 1]
        /\ jobOf' = [jobOf EXCEPT ![r] = j] /\ attached' = [attached EXCEPT ![r] = TRUE]
        /\ UNCHANGED <<jobs, cancelled, worker, cancelledLast, answer, swept>>
    BY DEF Join, Subscribe, Goto, SharingTypes, JobsPlaced
  <1>2. ~attached[r] /\ ~cancelledLast[r]
    BY <1>1 DEF WaitersPlaced
  <1>3. worker[j] \in {"running", "published"}
    BY <1>1 DEF KeyHeldByWorker
  <1>4. \A i \in Requests :
          /\ Riders(i)' = IF i = j THEN Riders(i) \cup {r} ELSE Riders(i)
          /\ Cardinality(Riders(i)') = Cardinality(Riders(i)) + (IF i = j THEN 1 ELSE 0)
    BY <1>1, <1>2, RidersJoin DEF SharingTypes
  <1>5. SharingTypes'
    BY <1>1 DEF SharingTypes
  <1>6. WaitersPlaced'
    BY <1>1, <1>2 DEF WaitersPlaced, SharingTypes
  <1>7. JobsPlaced' /\ KeyHeldByWorker'
    BY <1>1, <1>3 DEF JobsPlaced, KeyHeldByWorker, SharingTypes
  <1>8. SubscribersCounted'
    BY <1>1, <1>4 DEF SubscribersCounted, SharingTypes
  <1>9. CancelledIffUnwanted'
    <2>1. r \in Riders(j)' /\ j \notin swept
      BY <1>1, <1>3, <1>4 DEF CancelledIffUnwanted
    <2> QED
      BY <1>1, <1>4, <2>1 DEF CancelledIffUnwanted
  <1> QED
    BY <1>5, <1>6, <1>7, <1>8, <1>9

\* A new job starts with its creator as the one rider.
LEMMA SharingInvCreate ==
  ASSUME SharingInv, NEW r \in Requests, Create(r)
  PROVE  SharingInv'
  <1> USE RegistryAssumption DEF SharingInv
  <1>1. /\ pc[r] = "joining" /\ pc' = [pc EXCEPT ![r] = "subscribed"]
        /\ jobs[KeyOf[r]] = None /\ jobs' = [jobs EXCEPT ![KeyOf[r]] = r]
        /\ subscribers' = [subscribers EXCEPT ![r] = 1]
        /\ worker' = [worker EXCEPT ![r] = "running"]
        /\ jobOf' = [jobOf EXCEPT ![r] = r] /\ attached' = [attached EXCEPT ![r] = TRUE]
        /\ UNCHANGED <<cancelled, cancelledLast, answer, swept>>
    BY DEF Create, Subscribe, Goto
  <1>2. ~attached[r] /\ ~cancelledLast[r] /\ worker[r] = "none"
    BY <1>1 DEF WaitersPlaced
  <1>3. ~cancelled[r] /\ r \notin swept
    BY <1>2 DEF JobsPlaced
  <1>4. \A i \in Requests :
          /\ Riders(i)' = IF i = r THEN Riders(i) \cup {r} ELSE Riders(i)
          /\ Cardinality(Riders(i)') = Cardinality(Riders(i)) + (IF i = r THEN 1 ELSE 0)
    BY <1>1, <1>2, RidersJoin DEF SharingTypes
  <1>5. Riders(r) = {}
    BY <1>2 DEF Riders, JobsPlaced
  <1>6. SharingTypes'
    BY <1>1 DEF SharingTypes
  <1>7. WaitersPlaced'
    BY <1>1, <1>2 DEF WaitersPlaced, SharingTypes
  <1>8. JobsPlaced'
    BY <1>1, <1>2 DEF JobsPlaced, SharingTypes, WaitersPlaced
  <1>9. KeyHeldByWorker'
    <2> SUFFICES ASSUME NEW i \in Requests
                 PROVE  worker'[i] \in {"running", "published"} <=> jobs'[KeyOf[i]] = i
      BY DEF KeyHeldByWorker
    <2>1. CASE i = r
      BY <1>1, <2>1 DEF SharingTypes
    <2>2. CASE i # r
      BY <1>1, <2>2 DEF KeyHeldByWorker, SharingTypes
    <2> QED
      BY <2>1, <2>2
  <1>10. SubscribersCounted'
    <2>1. Cardinality(Riders(r)') = 1
      BY <1>4, <1>5, FS_EmptySet
    <2>2. \A i \in Requests \ {r} : Cardinality(Riders(i)') = Cardinality(Riders(i))
      BY <1>4, RidersFinite
    <2> QED
      BY <1>1, <2>1, <2>2 DEF SubscribersCounted, SharingTypes
  <1>11. CancelledIffUnwanted'
    BY <1>1, <1>3, <1>4 DEF CancelledIffUnwanted, SharingTypes
  <1> QED
    BY <1>6, <1>7, <1>8, <1>9, <1>10, <1>11

\* detach() of an attached subscription: the count follows, and the job is
\* cancelled with its last rider.
LEMMA DetachKeepsCount ==
  ASSUME SharingInv, NEW r \in Requests, jobOf[r] \in Requests, Detach(r), UNCHANGED swept
  PROVE  /\ attached' = [attached EXCEPT ![r] = FALSE]
         /\ subscribers' \in [Requests -> Nat]
         /\ cancelled' \in [Requests -> BOOLEAN]
         /\ \A i \in Requests : cancelled[i] => cancelled'[i]
         /\ \A i \in Requests : cancelled'[i] => cancelled[i] \/ worker[i] # "none"
         /\ IsLast(r) => cancelled'[jobOf[r]]
         /\ SubscribersCounted'
         /\ CancelledIffUnwanted'
  <1> USE DEF SharingInv
  <1>1. attached' = [attached EXCEPT ![r] = FALSE] /\ jobOf' = jobOf /\ worker' = worker
    BY DEF Detach
  <1>2. CASE ~attached[r]
    <2>1. attached' = attached /\ subscribers' = subscribers /\ cancelled' = cancelled
      BY <1>2 DEF Detach, SharingTypes
    <2>2. \A i : Riders(i)' = Riders(i)
      BY <1>1, <2>1 DEF Riders
    <2> QED
      BY <1>1, <1>2, <2>1, <2>2
      DEF SharingTypes, SubscribersCounted, CancelledIffUnwanted, IsLast
  <1>3. CASE attached[r]
    <2> DEFINE j == jobOf[r]
    <2>1. subscribers' = [subscribers EXCEPT ![j] = @ - 1]
      BY <1>3 DEF Detach
    <2>2. \A i \in Requests :
            /\ Riders(i)' = IF i = j THEN Riders(i) \ {r} ELSE Riders(i)
            /\ Cardinality(Riders(i)') = Cardinality(Riders(i)) - (IF i = j THEN 1 ELSE 0)
            /\ r \in Riders(j)
      BY <1>1, <1>3, RidersLeave DEF SharingTypes
    <2>3. \A i : Cardinality(Riders(i)) \in Nat /\ Cardinality(Riders(i)') \in Nat
      <3>1. \A i : Riders(i)' \in SUBSET Requests
        BY DEF Riders
      <3> QED
        BY <3>1, RidersFinite, RegistryAssumption, FS_Subset, FS_CardinalityType
    <2>4. subscribers[j] = 1 <=> Riders(j) = {r}
      BY <2>2, LastRider
    <2>5. SubscribersCounted' /\ subscribers' \in [Requests -> Nat]
      <3>1. \A i \in Requests : subscribers'[i] = Cardinality(Riders(i)')
        BY <2>1, <2>2, <2>3 DEF SubscribersCounted, SharingTypes
      <3>2. DOMAIN subscribers' = Requests /\ subscribers' = [i \in Requests |-> subscribers'[i]]
        BY <2>1 DEF SharingTypes
      <3> QED
        BY <3>1, <3>2, <2>3 DEF SubscribersCounted
    <2>6. cancelled' = IF Riders(j) = {r} THEN [cancelled EXCEPT ![j] = TRUE] ELSE cancelled
      BY <1>3, <2>4 DEF Detach
    <2>7. cancelled' \in [Requests -> BOOLEAN] /\ worker[j] # "none"
      BY <1>3, <2>6 DEF SharingTypes, JobsPlaced
    <2>8. CancelledIffUnwanted'
      <3>1. \A i \in Requests : Riders(i)' = {} <=> Riders(i) = {} \/ (i = j /\ Riders(j) = {r})
        BY <2>2
      <3>2. \A i \in Requests :
              cancelled'[i] <=> cancelled[i] \/ (i = j /\ Riders(j) = {r})
        BY <2>6 DEF SharingTypes
      <3> QED
        BY <1>1, <3>1, <3>2 DEF CancelledIffUnwanted
    <2> QED
      BY <1>1, <1>3, <2>4, <2>5, <2>6, <2>7, <2>8 DEF SharingTypes, IsLast
  <1> QED
    BY <1>2, <1>3

\* The last subscriber to be cancelled stays, detached; every other detachment is
\* on the way out of coalesce().
LEMMA SharingInvDetach ==
  ASSUME SharingInv, NEW r \in Requests, CancelSeen(r) \/ DisplayDeadline(r) \/ Return(r)
  PROVE  SharingInv'
  <1> USE DEF SharingInv
  <1>1. /\ pc[r] \in {"subscribed", "answered"} /\ jobOf[r] \in Requests
        /\ Detach(r) /\ UNCHANGED <<swept, jobs, worker, jobOf>>
    BY DEF CancelSeen, DisplayDeadline, Return, Detach, WaitersPlaced
  <1>2. /\ attached' = [attached EXCEPT ![r] = FALSE]
        /\ subscribers' \in [Requests -> Nat]
        /\ cancelled' \in [Requests -> BOOLEAN]
        /\ \A i \in Requests : cancelled[i] => cancelled'[i]
        /\ \A i \in Requests : cancelled'[i] => cancelled[i] \/ worker[i] # "none"
        /\ IsLast(r) => cancelled'[jobOf[r]]
        /\ SubscribersCounted' /\ CancelledIffUnwanted'
    BY <1>1, DetachKeepsCount
  <1>3. JobsPlaced' /\ KeyHeldByWorker'
    BY <1>1, <1>2 DEF JobsPlaced, KeyHeldByWorker, SharingTypes
  <1>4. \/ /\ pc' = pc /\ answer' = answer /\ IsLast(r)
           /\ cancelledLast' = [cancelledLast EXCEPT ![r] = TRUE]
        \/ /\ \E to \in {"answered", "leaving"} : pc' = [pc EXCEPT ![r] = to]
           /\ answer' \in [Requests -> Answers]
           /\ cancelledLast' = cancelledLast
    BY DEF CancelSeen, DisplayDeadline, Return, Goto, Answer, AtDeadline, SharingTypes
  <1>5. SharingTypes'
    <2>1. pc' \in [Requests -> PCs] /\ answer' \in [Requests -> Answers]
      BY <1>4 DEF SharingTypes
    <2>2. attached' \in [Requests -> BOOLEAN]
      BY <1>2 DEF SharingTypes
    <2>3. cancelledLast' \in [Requests -> BOOLEAN]
      BY <1>4 DEF SharingTypes
    <2> QED
      BY <1>1, <1>2, <2>1, <2>2, <2>3 DEF SharingTypes
  <1>6. WaitersPlaced'
    BY <1>1, <1>2, <1>4 DEF WaitersPlaced, SharingTypes
  <1> QED
    BY <1>2, <1>3, <1>5, <1>6

\* A worker that publishes keeps its key; one that removes its entry finds its own.
LEMMA SharingInvWorker ==
  ASSUME SharingInv, NEW j \in Requests, Publish(j) \/ RemoveEntry(j)
  PROVE  SharingInv'
  <1> USE RegistryAssumption DEF SharingInv
  <1>1. /\ UNCHANGED <<pc, cancelled, subscribers, waitVars, answer, swept>>
        /\ worker[j] \in {"running", "published"}
        /\ \/ worker' = [worker EXCEPT ![j] = "published"] /\ jobs' = jobs
           \/ worker' = [worker EXCEPT ![j] = "gone"]
              /\ jobs' = [jobs EXCEPT ![KeyOf[j]] = None]
    BY DEF Publish, RemoveEntry, KeyHeldByWorker
  <1>2. \A i : Riders(i)' = Riders(i)
    BY <1>1 DEF Riders, waitVars
  <1>3. SharingTypes'
    BY <1>1 DEF SharingTypes, waitVars
  <1>4. WaitersPlaced'
    BY <1>1 DEF WaitersPlaced, SharingTypes, waitVars
  <1>5. JobsPlaced'
    BY <1>1 DEF JobsPlaced, SharingTypes, WaitersPlaced, waitVars
  <1>6. KeyHeldByWorker'
    BY <1>1 DEF KeyHeldByWorker, SharingTypes
  <1>7. SubscribersCounted' /\ CancelledIffUnwanted'
    BY <1>1, <1>2 DEF SubscribersCounted, CancelledIffUnwanted, SharingTypes
  <1> QED
    BY <1>3, <1>4, <1>5, <1>6, <1>7

\* A sweep cancels every job in flight and says so.
LEMMA SharingInvSweep ==
  ASSUME SharingInv, CancelJobs \/ CancelAll
  PROVE  SharingInv'
  <1> USE DEF SharingInv
  <1>1. /\ cancelled' = [j \in Requests |-> cancelled[j] \/ j \in InFlight]
        /\ swept' = swept \cup InFlight
        /\ UNCHANGED <<pc, jobs, subscribers, worker, waitVars, answer>>
    BY DEF CancelJobs, CancelAll
  <1>2. \A i : Riders(i)' = Riders(i)
    BY <1>1 DEF Riders, waitVars
  <1>3. \A j \in InFlight : j \in Requests /\ worker[j] \in {"running", "published"}
    BY DEF InFlight, Occupied, JobsPlaced, KeyHeldByWorker, SharingTypes
  <1>4. SharingTypes'
    BY <1>1, <1>3 DEF SharingTypes, waitVars
  <1>5. WaitersPlaced'
    BY <1>1 DEF WaitersPlaced, waitVars
  <1>6. JobsPlaced' /\ KeyHeldByWorker'
    BY <1>1, <1>3 DEF JobsPlaced, KeyHeldByWorker, waitVars
  <1>7. SubscribersCounted' /\ CancelledIffUnwanted'
    BY <1>1, <1>2 DEF SubscribersCounted, CancelledIffUnwanted
  <1> QED
    BY <1>4, <1>5, <1>6, <1>7

LEMMA SharingInvStep == SharingInv /\ [Next]_vars => SharingInv'
  <1> SUFFICES ASSUME SharingInv, [Next]_vars PROVE SharingInv'
    OBVIOUS
  <1>1. SharingTypes
    BY DEF SharingInv
  <1>2. ASSUME NEW r \in Requests,
               \/ Register(r) \/ Refuse(r) \/ LeaveEarly(r) \/ Unregister(r) \/ Enter(r)
               \/ Busy(r) \/ Receive(r)
        PROVE  SharingInv'
    <2>1. UNCHANGED sharing
      BY <1>2 DEF Register, Refuse, LeaveEarly, Unregister, Enter, Busy, Receive,
                  jobVars, waitVars, sharing
    <2>2. answer' \in [Requests -> Answers]
      BY <1>1, <1>2 DEF Register, Refuse, LeaveEarly, Unregister, Enter, Busy, Receive,
                        Answer, SharingTypes
    <2>3. \E to \in PCs :
            /\ pc' = [pc EXCEPT ![r] = to]
            /\ to \in {"registered", "joining"} => pc[r] \in {"new", "registered"}
            /\ to = "answered" <=> pc[r] = "subscribed"
            /\ to \notin {"new", "subscribed"} /\ pc[r] # "answered"
      BY <1>2 DEF Register, Refuse, LeaveEarly, Unregister, Enter, Busy, Receive, Goto
    <2> QED
      BY <1>1, <2>1, <2>2, <2>3, SharingInvAside DEF SharingTypes
  <1>3. ASSUME NEW i \in Ids, Forestall(i) \/ Cancel(i) PROVE SharingInv'
    BY <1>1, <1>3, SharingInvAside
    DEF Forestall, Cancel, jobVars, waitVars, sharing, SharingTypes
  <1>4. CASE Expire
    BY <1>1, <1>4, SharingInvAside DEF Expire, jobVars, waitVars, sharing, SharingTypes
  <1>5. CASE UNCHANGED vars
    BY <1>1, <1>5, SharingInvAside DEF vars, sharing, SharingTypes
  <1> QED
    BY <1>2, <1>3, <1>4, <1>5, SharingInvJoin, SharingInvCreate, SharingInvDetach,
       SharingInvWorker, SharingInvSweep
    DEF Next, Serve

LEMMA SharingInvariant == Spec => []SharingInv
  BY SharingInvInit, SharingInvStep, PTL DEF Spec

-----------------------------------------------------------------------------
(* What follows *)

\* Job.subscribers is the number of attached Subscriptions, for any interleaving of
\* joins, cancellations, deadlines and returns.
THEOREM SubscriptionsCounted == Spec => []SubscribersCounted
  BY SharingInvariant, PTL DEF SharingInv

\* No departure takes the work from a live joiner, and none leaves work running
\* that nobody wants.
THEOREM WorkStopsWithLastRider == Spec => []CancelledIffUnwanted
  BY SharingInvariant, PTL DEF SharingInv

\* A key is its worker's until the worker itself gives it up: identical work never
\* runs twice at once.
THEOREM KeyBelongsToWorker == Spec => []KeyHeldByWorker
  BY SharingInvariant, PTL DEF SharingInv

LEMMA CleanupReportStep ==
  SharingInv /\ [Next]_vars =>
    \A r \in Requests : answer'[r] # answer[r] =>
      /\ answer'[r] = "needed" => Riders(jobOf[r]) \ {r} # {}
      /\ answer'[r] = "unknown" => cancelled'[jobOf[r]]
  <1> SUFFICES ASSUME SharingInv, [Next]_vars, NEW r \in Requests, answer'[r] # answer[r],
                      answer'[r] \in {"needed", "unknown"}
               PROVE  /\ answer'[r] = "needed" => Riders(jobOf[r]) \ {r} # {}
                      /\ answer'[r] = "unknown" => cancelled'[jobOf[r]]
    OBVIOUS
  <1> USE DEF SharingInv
  <1>1. CancelSeen(r) \/ DisplayDeadline(r)
    <2>1. answer' # answer
      OBVIOUS
    <2>2. PICK s \in Requests :
            Refuse(s) \/ LeaveEarly(s) \/ Busy(s) \/ Receive(s) \/ CancelSeen(s)
              \/ DisplayDeadline(s)
      BY <2>1 DEF Next, Serve, Register, Unregister, Enter, Join, Create, Subscribe, Return,
                  Publish, RemoveEntry, Forestall, Cancel, Expire, CancelJobs, CancelAll, vars
    <2>3. answer' = [answer EXCEPT ![s] = answer'[s]] /\ s = r
      BY <2>2 DEF Refuse, LeaveEarly, Busy, Receive, CancelSeen, DisplayDeadline, Answer,
                  SharingTypes
    <2> QED
      BY <2>2, <2>3 DEF Refuse, LeaveEarly, Busy, Receive, Answer, SharingTypes
  <1>2. /\ pc[r] = "subscribed" /\ jobOf[r] \in Requests /\ Detach(r) /\ UNCHANGED swept
        /\ attached[r] <=> ~cancelledLast[r]
    BY <1>1 DEF CancelSeen, DisplayDeadline, WaitersPlaced
  <1>3. answer'[r] = "unknown" <=> IsLast(r) \/ cancelledLast[r]
    BY <1>1, <1>2 DEF CancelSeen, DisplayDeadline, Answer, AtDeadline, SharingTypes
  <1>4. ASSUME answer'[r] = "needed" PROVE Riders(jobOf[r]) \ {r} # {}
    <2>1. attached[r] /\ subscribers[jobOf[r]] # 1
      BY <1>2, <1>3, <1>4 DEF IsLast
    <2>2. r \in Riders(jobOf[r])
      BY <2>1 DEF Riders
    <2> QED
      BY <1>2, <2>1, <2>2, LastRider
  <1>5. ASSUME answer'[r] = "unknown" PROVE cancelled'[jobOf[r]]
    <2>1. CASE IsLast(r)
      BY <1>2, <2>1, DetachKeepsCount
    <2>2. CASE cancelledLast[r]
      BY <1>2, <2>2, DetachKeepsCount DEF WaitersPlaced
    <2> QED
      BY <1>3, <1>5, <2>1, <2>2
  <1> QED
    BY <1>4, <1>5

\* What a request is told about the cleanup of the work it leaves is true when it
\* is told.
THEOREM CleanupReportsTrue == Spec => CleanupReportTruthful
  BY SharingInvariant, CleanupReportStep, PTL DEF Spec, CleanupReportTruthful

-----------------------------------------------------------------------------
(* Refinement *)

sharedView == <<jobs, [j \in Requests |-> Riders(j)], {j \in Requests : cancelled[j]}>>

\* Detaching is leaving the flight, or nothing if the request had detached before.
LEMMA DetachIsLeave ==
  ASSUME SharingInv, NEW r \in Requests, CancelSeen(r) \/ DisplayDeadline(r) \/ Return(r)
  PROVE  Flight!Leave(r, jobOf[r]) \/ UNCHANGED sharedView
  <1> USE DEF SharingInv
  <1> DEFINE j == jobOf[r]
  <1>1. /\ j \in Requests /\ Detach(r) /\ UNCHANGED <<swept, jobs, jobOf>>
        /\ attached' = [attached EXCEPT ![r] = FALSE]
    BY DEF CancelSeen, DisplayDeadline, Return, Detach, WaitersPlaced
  <1>2. CASE ~attached[r]
    <2>1. attached' = attached /\ cancelled' = cancelled
      BY <1>1, <1>2 DEF Detach, SharingTypes
    <2> QED
      BY <1>1, <2>1 DEF sharedView, Riders
  <1>3. CASE attached[r]
    <2>1. \A i \in Requests : Riders(i)' = IF i = j THEN Riders(i) \ {r} ELSE Riders(i)
      BY <1>1, <1>3, RidersLeave DEF SharingTypes
    <2>2. r \in Riders(j) /\ (subscribers[j] = 1 <=> Riders(j) = {r})
      BY <1>1, <1>3, LastRider DEF Riders
    <2>3. cancelled' = IF Riders(j) = {r} THEN [cancelled EXCEPT ![j] = TRUE] ELSE cancelled
      BY <1>1, <1>3, <2>2 DEF Detach
    <2>4. {i \in Requests : cancelled[i]}' =
            IF Riders(j) = {r} THEN {i \in Requests : cancelled[i]} \cup {j}
                               ELSE {i \in Requests : cancelled[i]}
      BY <1>1, <2>3 DEF SharingTypes
    <2>5. [i \in Requests |-> Riders(i)]' =
            [[i \in Requests |-> Riders(i)] EXCEPT ![j] = @ \ {r}]
      BY <1>1, <2>1
    <2> QED
      BY <1>1, <2>2, <2>4, <2>5 DEF Flight!Leave
  <1> QED
    BY <1>2, <1>3

LEMMA SharingStep ==
  SharingInv /\ [Next]_vars => [Flight!Next]_sharedView
  <1> SUFFICES ASSUME SharingInv, [Next]_vars, ~UNCHANGED sharedView
               PROVE  Flight!Next
    OBVIOUS
  <1> USE RegistryAssumption DEF SharingInv
  <1>1. ASSUME NEW r \in Requests, Join(r) PROVE Flight!Ride(r)
    <2> DEFINE j == jobs[KeyOf[r]]
    <2>1. /\ j \in Requests /\ ~cancelled[j] /\ ~attached[r]
          /\ jobOf' = [jobOf EXCEPT ![r] = j] /\ attached' = [attached EXCEPT ![r] = TRUE]
          /\ UNCHANGED <<jobs, cancelled>>
      BY <1>1 DEF Join, Subscribe, SharingTypes, WaitersPlaced
    <2>2. \A i \in Requests : Riders(i)' = IF i = j THEN Riders(i) \cup {r} ELSE Riders(i)
      BY <2>1, RidersJoin DEF SharingTypes
    <2>3. [i \in Requests |-> Riders(i)]' =
            [[i \in Requests |-> Riders(i)] EXCEPT ![j] = @ \cup {r}]
      BY <2>1, <2>2
    <2> QED
      BY <2>1, <2>3 DEF Flight!Ride
  <1>2. ASSUME NEW r \in Requests, Create(r) PROVE Flight!Start(r)
    <2>1. /\ jobs[KeyOf[r]] = None /\ jobs' = [jobs EXCEPT ![KeyOf[r]] = r]
          /\ ~attached[r] /\ worker[r] = "none"
          /\ jobOf' = [jobOf EXCEPT ![r] = r] /\ attached' = [attached EXCEPT ![r] = TRUE]
          /\ UNCHANGED cancelled
      BY <1>2 DEF Create, Subscribe, SharingTypes, WaitersPlaced
    <2>2. \A i \in Requests : Riders(i)' = IF i = r THEN Riders(i) \cup {r} ELSE Riders(i)
      BY <2>1, RidersJoin DEF SharingTypes
    <2>3. Riders(r) = {}
      BY <2>1 DEF Riders, JobsPlaced
    <2>4. [i \in Requests |-> Riders(i)]' =
            [[i \in Requests |-> Riders(i)] EXCEPT ![r] = {r}]
      BY <2>2, <2>3
    <2> QED
      BY <2>1, <2>4 DEF Flight!Start
  <1>3. ASSUME NEW r \in Requests, CancelSeen(r) \/ DisplayDeadline(r) \/ Return(r)
        PROVE  \E f \in Requests : Flight!Leave(r, f)
    <2>1. jobOf[r] \in Requests
      BY <1>3 DEF CancelSeen, DisplayDeadline, Return, WaitersPlaced
    <2>2. Flight!Leave(r, jobOf[r])
      BY <1>3, DetachIsLeave
    <2> QED
      BY <2>1, <2>2 DEF Flight!Leave
  <1>4. ASSUME NEW j \in Requests, RemoveEntry(j) PROVE Flight!End(KeyOf[j])
    <2>1. /\ jobs' = [jobs EXCEPT ![KeyOf[j]] = None]
          /\ UNCHANGED <<cancelled, jobOf, attached>>
      BY <1>4 DEF RemoveEntry, KeyHeldByWorker, waitVars
    <2> QED
      BY <2>1 DEF Flight!End, Riders
  <1>5. ASSUME CancelJobs \/ CancelAll PROVE Flight!Ground
    <2>1. /\ cancelled' = [j \in Requests |-> cancelled[j] \/ j \in InFlight]
          /\ UNCHANGED <<jobs, jobOf, attached>>
      BY <1>5 DEF CancelJobs, CancelAll, waitVars
    <2>2. InFlight \subseteq Requests
      BY DEF InFlight, Occupied, SharingTypes
    <2>3. {j \in Requests : cancelled[j]}' = {j \in Requests : cancelled[j]} \cup InFlight
      BY <2>1, <2>2
    <2> QED
      BY <2>1, <2>3 DEF Flight!Ground, Riders, InFlight, Occupied
  <1>6. ASSUME UNCHANGED <<jobs, cancelled, jobOf, attached>> PROVE FALSE
    BY <1>6 DEF sharedView, Riders
  <1>7. KeyOf \in [Requests -> Keys]
    OBVIOUS
  <1>8. \/ \E r \in Requests :
             Join(r) \/ Create(r) \/ CancelSeen(r) \/ DisplayDeadline(r) \/ Return(r)
        \/ \E j \in Requests : RemoveEntry(j)
        \/ CancelJobs \/ CancelAll
    BY <1>6 DEF Next, Serve, Register, Refuse, LeaveEarly, Unregister, Enter, Busy, Receive,
                Publish, Forestall, Cancel, Expire, vars, jobVars, waitVars
  <1> QED
    BY <1>1, <1>2, <1>3, <1>4, <1>5, <1>7, <1>8 DEF Flight!Next

\* The registry, with its counters, its mutex, its result channel and its
\* deadlines, shares identical work as the abstract specification promises.
THEOREM RegistryImplementsSharing == Spec => ImplementsSharing
  <1>1. Init => Flight!Init
    <2> SUFFICES ASSUME Init PROVE Flight!Init
      OBVIOUS
    <2>1. \A j : Riders(j) = {}
      BY DEF Init, Riders
    <2> QED
      BY <2>1 DEF Init, Flight!Init
  <1> QED
    BY <1>1, SharingInvariant, SharingStep, PTL
    DEF Spec, ImplementsSharing, Flight!Spec, sharedView

-----------------------------------------------------------------------------
(* Cancellations that come first *)

Lists(s, i) == \E n \in DOMAIN s : s[n] = i
Apart(s) == \A m, n \in DOMAIN s : s[m] = s[n] => m = n

\* The store of tombstones is bounded and has an id once at most, as the map in the
\* code does.
TombstonesKept ==
  /\ tombstones \in Seq(Ids)
  /\ Len(tombstones) <= Tombstones
  /\ Apart(tombstones)

\* Until a forestalled request is received its tombstone stands, while it is being
\* verified its token is cancelled, and after that it can only leave.
Forestalled(r) ==
  /\ pc[r] \in {"new", "registered", "leaving", "done"}
  /\ jobOf[r] = None
  /\ pc[r] = "new" => Tombstoned(r)
  /\ pc[r] = "registered" => token[r]

ForestalledInv ==
  /\ TombstonesKept
  /\ token \in [Requests -> BOOLEAN]
  /\ forestalled \subseteq Requests
  /\ \A r \in forestalled : Forestalled(r)

\* Forgetting an id takes it out, and nothing else.
LEMMA ForgetOne ==
  ASSUME NEW s \in Seq(Ids), Apart(s), NEW i \in Ids
  PROVE  /\ Forget(s, i) \in Seq(Ids) /\ Apart(Forget(s, i))
         /\ Len(Forget(s, i)) <= Len(s)
         /\ ~Lists(Forget(s, i), i)
         /\ \A x \in Ids : x # i /\ Lists(s, x) => Lists(Forget(s, i), x)
  <1> DEFINE places == {n \in DOMAIN s : s[n] = i}
             gone == CHOOSE n \in places : TRUE
             rest == [n \in 1 .. Len(s) - 1 |-> IF n < gone THEN s[n] ELSE s[n + 1]]
  <1>1. CASE places = {}
    <2>1. Forget(s, i) = s
      BY <1>1 DEF Forget
    <2> QED
      BY <1>1, <2>1 DEF Lists
  <1>2. CASE places # {}
    <2>1. gone \in 1 .. Len(s) /\ s[gone] = i
      BY <1>2
    <2>2. Forget(s, i) = rest
      BY <1>2 DEF Forget
    <2> HIDE DEF gone
    <2>3. Len(s) \in Nat /\ Len(s) >= 1 /\ DOMAIN s = 1 .. Len(s)
      BY <2>1
    <2>4. PICK k \in Nat : k = Len(s) - 1
      <3>1. Len(s) - 1 \in Nat
        BY <2>3
      <3> QED
        BY <3>1
    <2>5. \A n \in 1 .. k : n \in 1 .. Len(s) /\ n + 1 \in 1 .. Len(s)
      BY <2>3, <2>4
    <2>6. /\ rest \in [1 .. k -> Ids]
          /\ \A n \in 1 .. k : rest[n] = IF n < gone THEN s[n] ELSE s[n + 1]
      BY <2>4, <2>5
    <2> HIDE DEF rest
    <2>7. rest \in Seq(Ids) /\ Len(rest) = k /\ DOMAIN rest = 1 .. k
      BY <2>6
    <2>8. Apart(rest)
      <3> SUFFICES ASSUME NEW m \in 1 .. k, NEW n \in 1 .. k, rest[m] = rest[n] PROVE m = n
        BY <2>7 DEF Apart
      <3>1. \A a, b \in 1 .. Len(s) : s[a] = s[b] => a = b
        BY <2>3 DEF Apart
      <3>2. \E a, b \in 1 .. Len(s) :
              /\ rest[m] = s[a] /\ rest[n] = s[b]
              /\ a = IF m < gone THEN m ELSE m + 1
              /\ b = IF n < gone THEN n ELSE n + 1
        BY <2>5, <2>6
      <3> QED
        <4>1. PICK a, b \in 1 .. Len(s) :
                /\ rest[m] = s[a] /\ rest[n] = s[b]
                /\ a = IF m < gone THEN m ELSE m + 1
                /\ b = IF n < gone THEN n ELSE n + 1
          BY <3>2
        <4>2. a = b
          BY <3>1, <4>1
        <4> QED
          BY <2>1, <4>1, <4>2
    <2>9. ~Lists(rest, i)
      <3> SUFFICES ASSUME NEW n \in 1 .. k, rest[n] = i PROVE FALSE
        BY <2>7 DEF Lists
      <3>1. \A a \in 1 .. Len(s) : s[a] = i => a = gone
        BY <2>1, <2>3 DEF Apart
      <3> QED
        <4>1. CASE n < gone
          <5>1. s[n] = i /\ n \in 1 .. Len(s)
            BY <2>5, <2>6, <4>1
          <5>2. n = gone
            BY <3>1, <5>1
          <5> QED
            BY <2>1, <4>1, <5>2
        <4>2. CASE ~(n < gone)
          <5>1. s[n + 1] = i /\ n + 1 \in 1 .. Len(s)
            BY <2>5, <2>6, <4>2
          <5>2. n + 1 = gone
            BY <3>1, <5>1
          <5> QED
            BY <2>1, <4>2, <5>2
        <4> QED
          BY <4>1, <4>2
    <2>10. ASSUME NEW x \in Ids, x # i, Lists(s, x) PROVE Lists(rest, x)
      <3>1. PICK n \in 1 .. Len(s) : s[n] = x
        BY <2>3, <2>10 DEF Lists
      <3>2. n # gone
        BY <2>1, <2>10, <3>1
      <3>3. CASE n < gone
        <4>1. n \in 1 .. k
          BY <2>1, <2>3, <2>4, <3>3
        <4> QED
          BY <2>6, <2>7, <3>1, <3>3, <4>1 DEF Lists
      <3>4. CASE n > gone
        <4>1. PICK m \in 1 .. k : m + 1 = n /\ ~(m < gone)
          <5>1. n - 1 \in 1 .. k /\ (n - 1) + 1 = n /\ ~(n - 1 < gone)
            BY <2>1, <2>3, <2>4, <3>4
          <5> QED
            BY <5>1
        <4> QED
          BY <2>6, <2>7, <3>1, <4>1 DEF Lists
      <3> QED
        BY <2>1, <3>2, <3>3, <3>4
    <2> QED
      BY <2>2, <2>3, <2>4, <2>7, <2>8, <2>9, <2>10
  <1> QED
    BY <1>1, <1>2

\* Without its oldest entry a store loses that entry's id alone.
LEMMA TailOne ==
  ASSUME NEW s \in Seq(Ids), Apart(s), s # <<>>
  PROVE  /\ Tail(s) \in Seq(Ids) /\ Apart(Tail(s)) /\ Len(Tail(s)) = Len(s) - 1
         /\ Head(s) \in Ids
         /\ \A x \in Ids : x # Head(s) /\ Lists(s, x) => Lists(Tail(s), x)
  <1>1. /\ Tail(s) \in Seq(Ids) /\ Len(Tail(s)) = Len(s) - 1 /\ Head(s) = s[1] /\ Head(s) \in Ids
        /\ \A n \in 1 .. Len(s) - 1 : Tail(s)[n] = s[n + 1]
        /\ DOMAIN s = 1 .. Len(s) /\ Len(s) \in Nat /\ Len(s) >= 1
    OBVIOUS
  <1>2. DOMAIN Tail(s) = 1 .. Len(s) - 1
    BY <1>1
  <1>3. Apart(Tail(s))
    <2> SUFFICES ASSUME NEW m \in 1 .. Len(s) - 1, NEW n \in 1 .. Len(s) - 1,
                        Tail(s)[m] = Tail(s)[n]
                 PROVE  m = n
      BY <1>2 DEF Apart
    <2>1. m + 1 \in 1 .. Len(s) /\ n + 1 \in 1 .. Len(s) /\ s[m + 1] = s[n + 1]
      BY <1>1
    <2>2. m + 1 = n + 1
      BY <1>1, <2>1 DEF Apart
    <2> QED
      BY <2>2
  <1>4. ASSUME NEW x \in Ids, x # Head(s), Lists(s, x) PROVE Lists(Tail(s), x)
    <2>1. PICK n \in 1 .. Len(s) : s[n] = x
      BY <1>1, <1>4 DEF Lists
    <2>2. n # 1
      BY <1>1, <1>4, <2>1
    <2>3. n - 1 \in 1 .. Len(s) - 1 /\ (n - 1) + 1 = n
      BY <1>1, <2>2
    <2>4. Tail(s)[n - 1] = x
      BY <1>1, <2>1, <2>3
    <2> QED
      BY <1>2, <2>3, <2>4 DEF Lists
  <1> QED
    BY <1>1, <1>3, <1>4

\* A new entry leaves the others where they are.
LEMMA AppendOne ==
  ASSUME NEW s \in Seq(Ids), Apart(s), NEW i \in Ids, ~Lists(s, i)
  PROVE  /\ Append(s, i) \in Seq(Ids) /\ Apart(Append(s, i))
         /\ Len(Append(s, i)) = Len(s) + 1
         /\ Lists(Append(s, i), i)
         /\ \A x : Lists(s, x) => Lists(Append(s, i), x)
  <1>1. /\ Append(s, i) \in Seq(Ids) /\ Len(Append(s, i)) = Len(s) + 1
        /\ DOMAIN s = 1 .. Len(s) /\ DOMAIN Append(s, i) = 1 .. Len(s) + 1 /\ Len(s) \in Nat
        /\ \A n \in 1 .. Len(s) : Append(s, i)[n] = s[n]
        /\ Append(s, i)[Len(s) + 1] = i
    OBVIOUS
  <1>2. \A n \in 1 .. Len(s) + 1 : n \in 1 .. Len(s) \/ n = Len(s) + 1
    BY <1>1
  <1>3. \A n \in 1 .. Len(s) : n \in 1 .. Len(s) + 1 /\ s[n] # i
    BY <1>1 DEF Lists
  <1>4. Apart(Append(s, i))
    BY <1>1, <1>2, <1>3 DEF Apart
  <1>5. Lists(Append(s, i), i)
    <2>1. Len(s) + 1 \in 1 .. Len(s) + 1
      BY <1>1
    <2> QED
      BY <1>1, <2>1 DEF Lists
  <1> QED
    BY <1>1, <1>3, <1>4, <1>5 DEF Lists

LEMMA ForestalledInvInit == Init => ForestalledInv
  BY RegistryAssumption
  DEF Init, ForestalledInv, TombstonesKept, Apart

\* A step that neither receives a request nor touches the tombstones takes no
\* forestalled request into coalesce(), and un-cancels no token.
LEMMA ForestalledInvAside ==
  ASSUME ForestalledInv, SharingInv, UNCHANGED <<tombstones, forestalled>>,
         token' \in [Requests -> BOOLEAN],
         \A r \in Requests : token[r] => token'[r],
         \A r \in forestalled :
           /\ jobOf'[r] = jobOf[r]
           /\ pc'[r] = pc[r] \/ pc'[r] \in {"leaving", "done"}
  PROVE  ForestalledInv'
  <1>1. TombstonesKept' /\ forestalled' \subseteq Requests
    BY DEF ForestalledInv, TombstonesKept
  <1>2. \A r \in forestalled : Forestalled(r)'
    BY DEF ForestalledInv, Forestalled, Tombstoned
  <1> QED
    BY <1>1, <1>2 DEF ForestalledInv

\* Receiving a request consumes its tombstone and cancels its token.
LEMMA ForestalledInvRegister ==
  ASSUME ForestalledInv, SharingInv, NEW r \in Requests, Register(r)
  PROVE  ForestalledInv'
  <1> USE RegistryAssumption
  <1>1. IdOf[r] \in Ids /\ pc \in [Requests -> PCs]
    BY DEF SharingInv, SharingTypes
  <1>2. /\ pc[r] = "new" /\ pc' = [pc EXCEPT ![r] = "registered"] /\ jobOf' = jobOf
        /\ token' = [token EXCEPT ![r] = Tombstoned(r)]
        /\ tombstones' = Forget(tombstones, IdOf[r])
        /\ forestalled' = {s \in forestalled : s = r \/ IdOf[s] # IdOf[r]}
    BY DEF Register, Goto, waitVars
  <1>3. TombstonesKept'
    BY <1>1, <1>2, ForgetOne DEF ForestalledInv, TombstonesKept
  <1>4. token' \in [Requests -> BOOLEAN] /\ forestalled' \subseteq Requests
    BY <1>2 DEF ForestalledInv, Tombstoned
  <1>5. ASSUME NEW s \in forestalled' PROVE Forestalled(s)'
    <2>1. s \in Requests /\ Forestalled(s) /\ IdOf[s] \in Ids
      BY <1>2, <1>5 DEF ForestalledInv
    <2>2. CASE s = r
      BY <1>1, <1>2, <2>1, <2>2 DEF Forestalled, ForestalledInv
    <2>3. CASE s # r
      <3>1. Lists(tombstones, IdOf[s]) => Lists(tombstones', IdOf[s])
        BY <1>1, <1>2, <1>5, <2>1, <2>3, ForgetOne DEF ForestalledInv, TombstonesKept
      <3> QED
        BY <1>1, <1>2, <2>1, <2>3, <3>1 DEF Forestalled, ForestalledInv, Tombstoned, Lists
    <2> QED
      BY <2>2, <2>3
  <1> QED
    BY <1>3, <1>4, <1>5 DEF ForestalledInv

\* A new tombstone forestalls the requests that are still to come under its id, and
\* the one that makes room for it gives up those under its own.
LEMMA ForestalledInvForestall ==
  ASSUME ForestalledInv, SharingInv, NEW i \in Ids, Forestall(i)
  PROVE  ForestalledInv'
  <1> USE RegistryAssumption
  <1> DEFINE full == Len(tombstones) >= Tombstones
             evicted == IF full THEN {Head(tombstones)} ELSE {}
             kept == Forget(MakeRoom, i)
  <1>1. /\ tombstones' = Append(kept, i)
        /\ forestalled' =
             {s \in forestalled : pc[s] # "new" \/ IdOf[s] \notin evicted}
               \cup {s \in Requests : pc[s] = "new" /\ IdOf[s] = i}
        /\ UNCHANGED <<pc, token, jobOf>>
    BY DEF Forestall, waitVars
  <1>2. tombstones \in Seq(Ids) /\ Apart(tombstones) /\ Len(tombstones) <= Tombstones
    BY DEF ForestalledInv, TombstonesKept
  <1>3. full => tombstones # <<>>
    BY <1>2
  <1>4. /\ MakeRoom \in Seq(Ids) /\ Apart(MakeRoom) /\ Len(MakeRoom) + 1 <= Tombstones
        /\ \A x \in Ids : x \notin evicted /\ Lists(tombstones, x) => Lists(MakeRoom, x)
    <2>1. CASE full
      BY <1>2, <1>3, <2>1, TailOne DEF MakeRoom
    <2>2. CASE ~full
      BY <1>2, <2>2 DEF MakeRoom
    <2> QED
      BY <2>1, <2>2
  <1>5. /\ kept \in Seq(Ids) /\ Apart(kept) /\ Len(kept) <= Len(MakeRoom) /\ ~Lists(kept, i)
        /\ \A x \in Ids : x # i /\ Lists(MakeRoom, x) => Lists(kept, x)
    BY <1>4, ForgetOne
  <1> HIDE DEF kept, evicted
  <1>6. /\ tombstones' \in Seq(Ids) /\ Apart(tombstones') /\ Len(tombstones') = Len(kept) + 1
        /\ Lists(tombstones', i)
        /\ \A x \in Ids : x \notin evicted /\ Lists(tombstones, x) => Lists(tombstones', x)
    BY <1>1, <1>4, <1>5, AppendOne
  <1>7. Len(tombstones') <= Tombstones
    BY <1>4, <1>5, <1>6
  <1>8. TombstonesKept' /\ forestalled' \subseteq Requests /\ token' \in [Requests -> BOOLEAN]
    BY <1>1, <1>6, <1>7 DEF TombstonesKept, ForestalledInv
  <1>9. ASSUME NEW s \in forestalled' PROVE Forestalled(s)'
    <2>1. s \in Requests /\ IdOf[s] \in Ids
      BY <1>8, <1>9
    <2>2. CASE s \in forestalled /\ (pc[s] # "new" \/ IdOf[s] \notin evicted)
      BY <1>1, <1>6, <2>1, <2>2 DEF ForestalledInv, Forestalled, Tombstoned, Lists
    <2>3. CASE pc[s] = "new" /\ IdOf[s] = i
      BY <1>1, <1>6, <2>1, <2>3
      DEF Forestalled, Tombstoned, Lists, SharingInv, WaitersPlaced
    <2> QED
      BY <1>1, <1>9, <2>2, <2>3
  <1> QED
    BY <1>8, <1>9 DEF ForestalledInv

\* An expired tombstone gives up the requests that are still to come under its id.
LEMMA ForestalledInvExpire ==
  ASSUME ForestalledInv, SharingInv, Expire
  PROVE  ForestalledInv'
  <1>1. /\ tombstones # <<>> /\ tombstones' = Tail(tombstones)
        /\ forestalled' = {s \in forestalled : pc[s] # "new" \/ IdOf[s] # Head(tombstones)}
        /\ UNCHANGED <<pc, token, jobOf>>
    BY DEF Expire, waitVars
  <1>2. tombstones \in Seq(Ids) /\ Apart(tombstones) /\ Len(tombstones) <= Tombstones
    BY DEF ForestalledInv, TombstonesKept
  <1>3. /\ tombstones' \in Seq(Ids) /\ Apart(tombstones')
        /\ Len(tombstones') = Len(tombstones) - 1
        /\ \A x \in Ids :
             x # Head(tombstones) /\ Lists(tombstones, x) => Lists(tombstones', x)
    BY <1>1, <1>2, TailOne
  <1>4. TombstonesKept' /\ forestalled' \subseteq Requests /\ token' \in [Requests -> BOOLEAN]
    BY <1>1, <1>2, <1>3, RegistryAssumption DEF TombstonesKept, ForestalledInv
  <1>5. ASSUME NEW s \in forestalled' PROVE Forestalled(s)'
    <2>1. s \in forestalled /\ IdOf[s] \in Ids
      BY <1>1, <1>4, <1>5, RegistryAssumption
    <2> QED
      BY <1>1, <1>3, <1>5, <2>1 DEF ForestalledInv, Forestalled, Tombstoned, Lists
  <1> QED
    BY <1>4, <1>5 DEF ForestalledInv

LEMMA ForestalledInvStep == ForestalledInv /\ SharingInv /\ [Next]_vars => ForestalledInv'
  <1> SUFFICES ASSUME ForestalledInv, SharingInv, [Next]_vars PROVE ForestalledInv'
    OBVIOUS
  <1>1. /\ token \in [Requests -> BOOLEAN] /\ pc \in [Requests -> PCs]
        /\ jobOf \in [Requests -> Requests \cup {None}] /\ forestalled \subseteq Requests
        /\ \A s \in forestalled : pc[s] \in {"new", "registered", "leaving", "done"}
        /\ \A s \in forestalled : pc[s] = "registered" => token[s]
    BY DEF ForestalledInv, Forestalled, SharingInv, SharingTypes
  <1>2. ASSUME NEW r \in Requests, Refuse(r) \/ LeaveEarly(r) \/ Unregister(r)
        PROVE  ForestalledInv'
    <2>1. /\ UNCHANGED <<tombstones, forestalled, jobOf>>
          /\ \E to \in {"leaving", "done"} : pc' = [pc EXCEPT ![r] = to]
          /\ token' = token \/ token' = [token EXCEPT ![r] = TRUE]
      BY <1>2 DEF Refuse, LeaveEarly, Unregister, Goto, waitVars
    <2> QED
      BY <1>1, <2>1, ForestalledInvAside
  <1>3. ASSUME NEW r \in Requests,
               \/ Enter(r) \/ Join(r) \/ Create(r) \/ Busy(r)
               \/ Receive(r) \/ CancelSeen(r) \/ DisplayDeadline(r) \/ Return(r)
        PROVE  ForestalledInv'
    <2>1. /\ UNCHANGED <<tombstones, forestalled, token>>
          /\ \/ pc[r] = "registered" /\ ~token[r]
             \/ pc[r] \in {"joining", "subscribed", "answered"}
      BY <1>3 DEF Enter, Join, Create, Busy, Receive, CancelSeen, DisplayDeadline, Return,
                  Subscribe
    <2>2. r \notin forestalled
      BY <1>1, <2>1
    <2>3. \A s \in Requests \ {r} : pc'[s] = pc[s] /\ jobOf'[s] = jobOf[s]
      BY <1>1, <1>3
      DEF Enter, Join, Create, Busy, Receive, CancelSeen, DisplayDeadline, Return,
          Subscribe, Detach, Goto, waitVars
    <2> QED
      BY <1>1, <2>1, <2>2, <2>3, ForestalledInvAside
  <1>4. ASSUME NEW j \in Requests, Publish(j) \/ RemoveEntry(j) PROVE ForestalledInv'
    <2>1. UNCHANGED <<pc, tombstones, forestalled, token, jobOf>>
      BY <1>4 DEF Publish, RemoveEntry, waitVars
    <2> QED
      BY <1>1, <2>1, ForestalledInvAside
  <1>5. ASSUME NEW i \in Ids, Cancel(i) PROVE ForestalledInv'
    <2>1. /\ UNCHANGED <<pc, tombstones, forestalled, jobOf>>
          /\ token' = [token EXCEPT ![requests[i]] = TRUE]
      BY <1>5 DEF Cancel, waitVars
    <2> QED
      BY <1>1, <2>1, ForestalledInvAside
  <1>6. ASSUME CancelJobs \/ CancelAll PROVE ForestalledInv'
    <2>1. /\ UNCHANGED <<pc, tombstones, forestalled, jobOf>>
          /\ \/ token' = token
             \/ token' = [r \in Requests |-> token[r] \/ r \in {requests[i] : i \in Registered}]
      BY <1>6 DEF CancelJobs, CancelAll, waitVars
    <2> QED
      BY <1>1, <2>1, ForestalledInvAside
  <1>7. CASE UNCHANGED vars
    <2>1. UNCHANGED <<pc, tombstones, forestalled, token, jobOf>>
      BY <1>7 DEF vars
    <2> QED
      BY <1>1, <2>1, ForestalledInvAside
  <1> QED
    BY <1>2, <1>3, <1>4, <1>5, <1>6, <1>7,
       ForestalledInvRegister, ForestalledInvForestall, ForestalledInvExpire
    DEF Next, Serve

\* A request whose cancellation overtook it never starts or joins work, however many
\* other ids are cancelled and reused around it: cancel() before register().
THEOREM ForestalledStayOut == Spec => []ForestalledNeverWorks
  <1>1. ForestalledInv => ForestalledNeverWorks
    BY DEF ForestalledInv, Forestalled, ForestalledNeverWorks
  <1> QED
    BY <1>1, SharingInvariant, ForestalledInvInit, ForestalledInvStep, PTL DEF Spec
=============================================================================
