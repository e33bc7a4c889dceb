-------------------------- MODULE SchedulerProofs --------------------------
(***************************************************************************)
(* What holds of the scheduler for every number of calls, scopes and       *)
(* services and every value of the limits.                                 *)
(***************************************************************************)
EXTENDS SchedulerFairness, FiniteSetTheorems, TLAPS

USE DEF Kinds, PCs, Queued, Holding

-----------------------------------------------------------------------------
(* The queue *)

\* Dropping the i-th entry leaves a queue one shorter, made of the others.
LEMMA WithoutType ==
  ASSUME queue \in Seq(Calls), NEW i \in DOMAIN queue
  PROVE  /\ Without(i) \in Seq(Calls)
         /\ Len(Without(i)) = Len(queue) - 1
         /\ DOMAIN Without(i) = 1 .. Len(queue) - 1
  <1>1. Len(queue) \in Nat /\ DOMAIN queue = 1 .. Len(queue) /\ i \in 1 .. Len(queue)
    OBVIOUS
  <1>2. \A j \in 1 .. Len(queue) - 1 : (IF j < i THEN queue[j] ELSE queue[j + 1]) \in Calls
    BY <1>1
  <1>3. Len(queue) - 1 \in Nat
    BY <1>1
  <1>4. Without(i) \in [1 .. Len(queue) - 1 -> Calls]
    BY <1>2 DEF Without
  <1> QED
    BY <1>3, <1>4

-----------------------------------------------------------------------------
(* Permits *)

\* A step that moves one call changes the holders by that call at most.
LEMMA HoldersMoved ==
  ASSUME pc \in [Calls -> PCs], NEW c \in Calls, NEW to \in PCs,
         pc' = [pc EXCEPT ![c] = to]
  PROVE  /\ Holders' = IF to \in Holding THEN Holders \cup {c} ELSE Holders \ {c}
         /\ c \in Holders <=> pc[c] \in Holding
  BY DEF Holders

\* The holders of a kind or of a service are finitely many.
LEMMA HoldersFinite ==
  /\ \A k : IsFiniteSet(KindHolders(k)) /\ Cardinality(KindHolders(k)) \in Nat
  /\ \A s : IsFiniteSet(ServiceHolders(s)) /\ Cardinality(ServiceHolders(s)) \in Nat
  <1>1. \A k : KindHolders(k) \in SUBSET Calls
    BY DEF KindHolders, Holders
  <1>2. \A s : ServiceHolders(s) \in SUBSET Calls
    BY DEF ServiceHolders, KindHolders, Holders
  <1> QED
    BY <1>1, <1>2, SchedulerAssumption, FS_Subset, FS_CardinalityType

\* Taking a permit adds one to its kind and, if ordinary, to its service.
LEMMA HoldersEnter ==
  ASSUME pc \in [Calls -> PCs], NEW c \in Calls, NEW to \in PCs,
         pc' = [pc EXCEPT ![c] = to],
         pc[c] \notin Holding, to \in Holding
  PROVE  /\ \A k \in Kinds : Cardinality(KindHolders(k)') =
              Cardinality(KindHolders(k)) + (IF k = KindOf[c] THEN 1 ELSE 0)
         /\ \A s \in Services : Cardinality(ServiceHolders(s)') =
              Cardinality(ServiceHolders(s))
                + (IF KindOf[c] = "ordinary" /\ s = ServiceOf[c] THEN 1 ELSE 0)
  <1>1. Holders' = Holders \cup {c} /\ c \notin Holders
    BY HoldersMoved
  <1>2. \A k \in Kinds : KindHolders(k)' =
          IF k = KindOf[c] THEN KindHolders(k) \cup {c} ELSE KindHolders(k)
    BY <1>1 DEF KindHolders
  <1>3. \A s \in Services : ServiceHolders(s)' =
          IF KindOf[c] = "ordinary" /\ s = ServiceOf[c]
          THEN ServiceHolders(s) \cup {c} ELSE ServiceHolders(s)
    BY <1>1 DEF ServiceHolders, KindHolders
  <1>4. \A k : c \notin KindHolders(k)
    BY <1>1 DEF KindHolders
  <1>5. \A s : c \notin ServiceHolders(s)
    BY <1>1 DEF ServiceHolders, KindHolders
  <1>6. \A k \in Kinds : Cardinality(KindHolders(k) \cup {c}) = Cardinality(KindHolders(k)) + 1
    BY <1>4, HoldersFinite, FS_AddElement
  <1>7. \A s \in Services :
          Cardinality(ServiceHolders(s) \cup {c}) = Cardinality(ServiceHolders(s)) + 1
    BY <1>5, HoldersFinite, FS_AddElement
  <1>8. ASSUME NEW k \in Kinds
        PROVE  Cardinality(KindHolders(k)') =
                 Cardinality(KindHolders(k)) + (IF k = KindOf[c] THEN 1 ELSE 0)
    <2>1. CASE k = KindOf[c]
      BY <2>1, <1>2, <1>6
    <2>2. CASE k # KindOf[c]
      BY <2>2, <1>2, HoldersFinite
    <2> QED
      BY <2>1, <2>2
  <1>9. ASSUME NEW s \in Services
        PROVE  Cardinality(ServiceHolders(s)') =
                 Cardinality(ServiceHolders(s))
                   + (IF KindOf[c] = "ordinary" /\ s = ServiceOf[c] THEN 1 ELSE 0)
    <2>1. CASE KindOf[c] = "ordinary" /\ s = ServiceOf[c]
      BY <2>1, <1>3, <1>7
    <2>2. CASE ~(KindOf[c] = "ordinary" /\ s = ServiceOf[c])
      BY <2>2, <1>3, HoldersFinite
    <2> QED
      BY <2>1, <2>2
  <1> QED
    BY <1>8, <1>9

\* Giving a permit back takes one away, and there was one to take.
LEMMA HoldersLeave ==
  ASSUME pc \in [Calls -> PCs], NEW c \in Calls, NEW to \in PCs,
         pc' = [pc EXCEPT ![c] = to],
         pc[c] \in Holding, to \notin Holding
  PROVE  /\ \A k \in Kinds : Cardinality(KindHolders(k)') =
              Cardinality(KindHolders(k)) - (IF k = KindOf[c] THEN 1 ELSE 0)
         /\ \A s \in Services : Cardinality(ServiceHolders(s)') =
              Cardinality(ServiceHolders(s))
                - (IF KindOf[c] = "ordinary" /\ s = ServiceOf[c] THEN 1 ELSE 0)
         /\ Cardinality(KindHolders(KindOf[c])) >= 1
         /\ KindOf[c] = "ordinary" => Cardinality(ServiceHolders(ServiceOf[c])) >= 1
  <1>1. Holders' = Holders \ {c} /\ c \in Holders
    BY HoldersMoved
  <1>2. \A k \in Kinds : KindHolders(k)' =
          IF k = KindOf[c] THEN KindHolders(k) \ {c} ELSE KindHolders(k)
    BY <1>1 DEF KindHolders
  <1>3. \A s \in Services : ServiceHolders(s)' =
          IF KindOf[c] = "ordinary" /\ s = ServiceOf[c]
          THEN ServiceHolders(s) \ {c} ELSE ServiceHolders(s)
    BY <1>1 DEF ServiceHolders, KindHolders
  <1>4. c \in KindHolders(KindOf[c])
    BY <1>1 DEF KindHolders
  <1>5. KindOf[c] = "ordinary" => c \in ServiceHolders(ServiceOf[c])
    BY <1>1 DEF ServiceHolders, KindHolders
  <1>6. Cardinality(KindHolders(KindOf[c]) \ {c}) = Cardinality(KindHolders(KindOf[c])) - 1
    BY <1>4, HoldersFinite, FS_RemoveElement
  <1>7. KindOf[c] = "ordinary" =>
          Cardinality(ServiceHolders(ServiceOf[c]) \ {c})
            = Cardinality(ServiceHolders(ServiceOf[c])) - 1
    BY <1>5, HoldersFinite, FS_RemoveElement
  <1>8. Cardinality(KindHolders(KindOf[c]) \ {c}) \in Nat
    BY HoldersFinite, FS_RemoveElement, FS_CardinalityType
  <1>9. Cardinality(ServiceHolders(ServiceOf[c]) \ {c}) \in Nat
    BY HoldersFinite, FS_RemoveElement, FS_CardinalityType
  <1>10. ASSUME NEW k \in Kinds
         PROVE  Cardinality(KindHolders(k)') =
                  Cardinality(KindHolders(k)) - (IF k = KindOf[c] THEN 1 ELSE 0)
    <2>1. CASE k = KindOf[c]
      BY <2>1, <1>2, <1>6
    <2>2. CASE k # KindOf[c]
      BY <2>2, <1>2, HoldersFinite
    <2> QED
      BY <2>1, <2>2
  <1>11. ASSUME NEW s \in Services
         PROVE  Cardinality(ServiceHolders(s)') =
                  Cardinality(ServiceHolders(s))
                    - (IF KindOf[c] = "ordinary" /\ s = ServiceOf[c] THEN 1 ELSE 0)
    <2>1. CASE KindOf[c] = "ordinary" /\ s = ServiceOf[c]
      BY <2>1, <1>3, <1>7
    <2>2. CASE ~(KindOf[c] = "ordinary" /\ s = ServiceOf[c])
      BY <2>2, <1>3, HoldersFinite
    <2> QED
      BY <2>1, <2>2
  <1>12. Cardinality(KindHolders(KindOf[c])) >= 1
    BY <1>6, <1>8, HoldersFinite
  <1>13. KindOf[c] = "ordinary" => Cardinality(ServiceHolders(ServiceOf[c])) >= 1
    BY <1>7, <1>9, HoldersFinite
  <1> QED
    BY <1>10, <1>11, <1>12, <1>13

\* A step that moves a call between two places of the same sort changes nothing.
LEMMA HoldersSame ==
  ASSUME pc \in [Calls -> PCs], NEW c \in Calls, NEW to \in PCs,
         pc' = [pc EXCEPT ![c] = to],
         pc[c] \in Holding <=> to \in Holding
  PROVE  /\ \A k : KindHolders(k)' = KindHolders(k)
         /\ \A s : ServiceHolders(s)' = ServiceHolders(s)
  <1>1. Holders' = Holders
    <2>1. CASE to \in Holding
      <3>1. Holders' = Holders \cup {c} /\ c \in Holders
        BY <2>1, HoldersMoved
      <3> QED
        BY <3>1
    <2>2. CASE to \notin Holding
      <3>1. Holders' = Holders \ {c} /\ c \notin Holders
        BY <2>2, HoldersMoved
      <3> QED
        BY <3>1
    <2> QED
      BY <2>1, <2>2
  <1> QED
    BY <1>1 DEF ServiceHolders, KindHolders

-----------------------------------------------------------------------------
(* Types, counters and ceilings *)

\* The inductive invariant: a counter can be decremented only because it counts
\* the permit that is given back, and a ceiling on the counters is a ceiling on
\* the permits only because they agree.
PermitInv == TypeOK /\ CountersMatchPermits /\ WithinLimits

LEMMA PermitInvInit == Init => PermitInv
  <1> SUFFICES ASSUME Init PROVE PermitInv
    OBVIOUS
  <1> USE DEF Init
  <1>1. TypeOK
    BY SchedulerAssumption DEF TypeOK
  <1>2. \A k : KindHolders(k) = {}
    BY DEF KindHolders, Holders
  <1>3. \A s : ServiceHolders(s) = {}
    BY <1>2 DEF ServiceHolders
  <1>4. CountersMatchPermits
    BY <1>2, <1>3, FS_EmptySet DEF CountersMatchPermits
  <1>5. WithinLimits
    <2>1. \A k \in Kinds : Limit[k] \in Nat
      BY SchedulerAssumption
    <2>2. ServiceLimit \in Nat
      BY SchedulerAssumption
    <2>3. \A k : Cardinality(KindHolders(k)) = 0
      BY <1>2, FS_EmptySet
    <2>4. \A s : Cardinality(ServiceHolders(s)) = 0
      BY <1>3, FS_EmptySet
    <2> QED
      BY <2>1, <2>2, <2>3, <2>4 DEF WithinLimits
  <1> QED
    BY <1>1, <1>4, <1>5 DEF PermitInv

\* A step in which no permit is taken or given back preserves what is said of
\* counters and ceilings.
LEMMA PermitsSame ==
  ASSUME PermitInv, NEW c \in Calls, NEW to \in PCs,
         pc' = [pc EXCEPT ![c] = to],
         pc[c] \in Holding <=> to \in Holding,
         UNCHANGED <<active, serviceActive>>
  PROVE  CountersMatchPermits' /\ WithinLimits'
  <1>1. /\ \A k : KindHolders(k)' = KindHolders(k)
        /\ \A s : ServiceHolders(s)' = ServiceHolders(s)
    BY HoldersSame DEF PermitInv, TypeOK
  <1>2. CountersMatchPermits'
    BY <1>1 DEF PermitInv, CountersMatchPermits
  <1>3. WithinLimits'
    BY <1>1 DEF PermitInv, WithinLimits
  <1> QED
    BY <1>2, <1>3

LEMMA PermitInvAdmit ==
  ASSUME PermitInv, NEW c \in Calls, Admit(c)
  PROVE  PermitInv'
  <1>1. /\ pc' = [pc EXCEPT ![c] = "admitted"] /\ pc[c] \notin Holding
        /\ pc \in [Calls -> PCs]
        /\ KindOf[c] \in Kinds /\ ServiceOf[c] \in Services
    BY SchedulerAssumption DEF PermitInv, TypeOK, Admit, Goto
  <1>2. Fits(c)
    BY DEF Admit, NextEligible, Preferred, Fitting
  <1>3. /\ \A k \in Kinds : active'[k] = active[k] + (IF k = KindOf[c] THEN 1 ELSE 0)
        /\ \A s \in Services : serviceActive'[s] = serviceActive[s]
             + (IF KindOf[c] = "ordinary" /\ s = ServiceOf[c] THEN 1 ELSE 0)
    BY <1>1 DEF PermitInv, TypeOK, Admit, Enter
  <1>4. /\ \A k \in Kinds : Cardinality(KindHolders(k)') =
             Cardinality(KindHolders(k)) + (IF k = KindOf[c] THEN 1 ELSE 0)
        /\ \A s \in Services : Cardinality(ServiceHolders(s)') =
             Cardinality(ServiceHolders(s))
               + (IF KindOf[c] = "ordinary" /\ s = ServiceOf[c] THEN 1 ELSE 0)
    BY <1>1, HoldersEnter
  <1>5. CountersMatchPermits'
    BY <1>3, <1>4 DEF PermitInv, CountersMatchPermits
  <1>6. WithinLimits'
    <2>1. ASSUME NEW k \in Kinds PROVE Cardinality(KindHolders(k)') <= Limit[k]
      <3>1. Cardinality(KindHolders(k)) \in Nat /\ Limit[k] \in Nat
        BY HoldersFinite, SchedulerAssumption
      <3>2. CASE k = KindOf[c]
        BY <3>1, <3>2, <1>2, <1>4 DEF Fits, PermitInv, CountersMatchPermits
      <3>3. CASE k # KindOf[c]
        BY <3>1, <3>3, <1>4 DEF PermitInv, WithinLimits
      <3> QED
        BY <3>2, <3>3
    <2>2. ASSUME NEW s \in Services PROVE Cardinality(ServiceHolders(s)') <= ServiceLimit
      <3>1. Cardinality(ServiceHolders(s)) \in Nat /\ ServiceLimit \in Nat
        BY HoldersFinite, SchedulerAssumption
      <3>2. CASE KindOf[c] = "ordinary" /\ s = ServiceOf[c]
        BY <3>1, <3>2, <1>2, <1>4 DEF Fits, PermitInv, CountersMatchPermits
      <3>3. CASE ~(KindOf[c] = "ordinary" /\ s = ServiceOf[c])
        BY <3>1, <3>3, <1>4 DEF PermitInv, WithinLimits
      <3> QED
        BY <3>2, <3>3
    <2> QED
      BY <2>1, <2>2 DEF WithinLimits
  <1>7. TypeOK'
    <2>1. queue' \in Seq(Calls)
      BY WithoutType DEF Admit, PermitInv, TypeOK
    <2>2. burst' \in Nat
      BY DEF Admit, PermitInv, TypeOK
    <2>3. active' \in [Kinds -> Nat]
      BY <1>1 DEF Admit, Enter, PermitInv, TypeOK
    <2>4. serviceActive' \in [Services -> Nat]
      BY <1>1 DEF Admit, Enter, PermitInv, TypeOK
    <2>5. woken' \in [Calls -> BOOLEAN]
      BY DEF Admit, DropNotified, PermitInv, TypeOK
    <2> QED
      BY <2>1, <2>2, <2>3, <2>4, <2>5, <1>1 DEF Admit, PermitInv, TypeOK
  <1> QED
    BY <1>5, <1>6, <1>7 DEF PermitInv

LEMMA PermitInvRelease ==
  ASSUME PermitInv, NEW c \in Calls, Release(c)
  PROVE  PermitInv'
  <1>1. /\ pc' = [pc EXCEPT ![c] = "notifying"] /\ pc[c] \in Holding
        /\ pc \in [Calls -> PCs]
        /\ KindOf[c] \in Kinds /\ ServiceOf[c] \in Services
    BY SchedulerAssumption DEF PermitInv, TypeOK, Release, Goto
  <1>2. /\ \A k \in Kinds : active'[k] = active[k] - (IF k = KindOf[c] THEN 1 ELSE 0)
        /\ \A s \in Services : serviceActive'[s] = serviceActive[s]
             - (IF KindOf[c] = "ordinary" /\ s = ServiceOf[c] THEN 1 ELSE 0)
    BY <1>1 DEF PermitInv, TypeOK, Release
  <1>3. /\ \A k \in Kinds : Cardinality(KindHolders(k)') =
             Cardinality(KindHolders(k)) - (IF k = KindOf[c] THEN 1 ELSE 0)
        /\ \A s \in Services : Cardinality(ServiceHolders(s)') =
             Cardinality(ServiceHolders(s))
               - (IF KindOf[c] = "ordinary" /\ s = ServiceOf[c] THEN 1 ELSE 0)
        /\ Cardinality(KindHolders(KindOf[c])) >= 1
        /\ KindOf[c] = "ordinary" => Cardinality(ServiceHolders(ServiceOf[c])) >= 1
    BY <1>1, HoldersLeave
  <1>4. CountersMatchPermits'
    BY <1>2, <1>3 DEF PermitInv, CountersMatchPermits
  <1>5. WithinLimits'
    <2>1. ASSUME NEW k \in Kinds PROVE Cardinality(KindHolders(k)') <= Limit[k]
      <3>1. Cardinality(KindHolders(k)) \in Nat /\ Limit[k] \in Nat
        BY HoldersFinite, SchedulerAssumption
      <3> QED
        BY <3>1, <1>3 DEF PermitInv, WithinLimits
    <2>2. ASSUME NEW s \in Services PROVE Cardinality(ServiceHolders(s)') <= ServiceLimit
      <3>1. Cardinality(ServiceHolders(s)) \in Nat /\ ServiceLimit \in Nat
        BY HoldersFinite, SchedulerAssumption
      <3> QED
        BY <3>1, <1>3 DEF PermitInv, WithinLimits
    <2> QED
      BY <2>1, <2>2 DEF WithinLimits
  <1>6. TypeOK'
    <2>1. active[KindOf[c]] >= 1
      BY <1>1, <1>3 DEF PermitInv, CountersMatchPermits
    <2>2. KindOf[c] = "ordinary" => serviceActive[ServiceOf[c]] >= 1
      BY <1>1, <1>3 DEF PermitInv, CountersMatchPermits
    <2>3. active' \in [Kinds -> Nat]
      BY <2>1, <1>1 DEF Release, PermitInv, TypeOK
    <2>4. serviceActive' \in [Services -> Nat]
      BY <2>2, <1>1 DEF Release, PermitInv, TypeOK
    <2> QED
      BY <2>3, <2>4, <1>1 DEF Release, Goto, PermitInv, TypeOK
  <1> QED
    BY <1>4, <1>5, <1>6 DEF PermitInv

LEMMA PermitInvDropTicket ==
  ASSUME PermitInv, NEW c \in Calls, pc[c] \in Queued, DropTicket(c)
  PROVE  PermitInv'
  <1>1. CountersMatchPermits' /\ WithinLimits'
    BY PermitsSame DEF DropTicket, Goto
  <1>2. queue' \in Seq(Calls)
    BY WithoutType DEF DropTicket, PermitInv, TypeOK
  <1>3. TypeOK'
    BY <1>2 DEF DropTicket, DropNotified, Goto, PermitInv, TypeOK
  <1> QED
    BY <1>1, <1>3 DEF PermitInv

LEMMA PermitInvStep == PermitInv /\ [Next]_vars => PermitInv'
  <1> SUFFICES ASSUME PermitInv, [Next]_vars PROVE PermitInv'
    OBVIOUS
  <1> USE DEF Goto, shared
  <1>1. ASSUME NEW c \in Calls, Count(c) PROVE PermitInv'
    <2>1. CountersMatchPermits' /\ WithinLimits'
      BY <1>1, PermitsSame DEF Count
    <2>2. operations' \in [Scopes -> 0 .. OperationBudget]
      <3>1. ScopeOf[c] \in Scopes /\ OperationBudget \in Nat
        BY SchedulerAssumption
      <3>2. operations[ScopeOf[c]] + 1 \in 0 .. OperationBudget
        BY <3>1, <1>1 DEF Count, PermitInv, TypeOK
      <3> QED
        BY <3>1, <3>2, <1>1 DEF Count, PermitInv, TypeOK
    <2>3. TypeOK'
      BY <1>1, <2>2 DEF Count, PermitInv, TypeOK
    <2> QED
      BY <2>1, <2>3 DEF PermitInv
  <1>2. ASSUME NEW c \in Calls, Enqueue(c) PROVE PermitInv'
    <2>1. CountersMatchPermits' /\ WithinLimits'
      BY <1>2, PermitsSame DEF Enqueue, ReadyToQueue
    <2>2. TypeOK'
      BY <1>2 DEF Enqueue, PermitInv, TypeOK
    <2> QED
      BY <2>1, <2>2 DEF PermitInv
  <1>3. ASSUME NEW c \in Calls, Refuse(c) PROVE PermitInv'
    <2>1. CountersMatchPermits' /\ WithinLimits'
      BY <1>3, PermitsSame DEF Refuse, ReadyToQueue
    <2>2. TypeOK'
      BY <1>3 DEF Refuse, PermitInv, TypeOK
    <2> QED
      BY <2>1, <2>2 DEF PermitInv
  <1>4. ASSUME NEW c \in Calls, Arm(c) \/ Wait(c) \/ Rearm(c) PROVE PermitInv'
    <2>1. CountersMatchPermits' /\ WithinLimits'
      BY <1>4, PermitsSame DEF Arm, Wait, Rearm
    <2>2. TypeOK'
      BY <1>4 DEF Arm, Wait, Rearm, DropNotified, PermitInv, TypeOK
    <2> QED
      BY <2>1, <2>2 DEF PermitInv
  <1>5. ASSUME NEW c \in Calls, Admit(c) PROVE PermitInv'
    BY <1>5, PermitInvAdmit
  <1>6. ASSUME NEW c \in Calls, Withdraw(c) \/ Abandon(c) PROVE PermitInv'
    BY <1>6, PermitInvDropTicket DEF Withdraw, Abandon
  <1>7. ASSUME NEW c \in Calls, Announce(c) PROVE PermitInv'
    <2>1. CASE c \in Direct \/ Live(c)
      <3>1. CountersMatchPermits' /\ WithinLimits'
        BY <2>1, <1>7, PermitsSame DEF Announce
      <3>2. TypeOK'
        BY <2>1, <1>7 DEF Announce, NotifyWaiters, PermitInv, TypeOK
      <3> QED
        BY <3>1, <3>2 DEF PermitInv
    <2>2. CASE ~(c \in Direct \/ Live(c))
      <3>1. CountersMatchPermits' /\ WithinLimits'
        BY <2>2, <1>7, PermitsSame DEF Announce
      <3>2. TypeOK'
        BY <2>2, <1>7 DEF Announce, NotifyWaiters, PermitInv, TypeOK
      <3> QED
        BY <3>1, <3>2 DEF PermitInv
    <2> QED
      BY <2>1, <2>2
  <1>8. ASSUME NEW c \in Calls, Release(c) PROVE PermitInv'
    BY <1>8, PermitInvRelease
  <1>9. ASSUME NEW c \in Calls, Notify(c) PROVE PermitInv'
    <2>1. CountersMatchPermits' /\ WithinLimits'
      BY <1>9, PermitsSame DEF Notify
    <2>2. TypeOK'
      BY <1>9 DEF Notify, NotifyWaiters, PermitInv, TypeOK
    <2> QED
      BY <2>1, <2>2 DEF PermitInv
  <1>10. ASSUME NEW s \in Scopes, Stop(s) \/ Renew(s) PROVE PermitInv'
    <2>1. UNCHANGED <<pc, woken, queue, active, serviceActive, burst>>
      BY <1>10 DEF Stop, Renew
    <2>2. CountersMatchPermits' /\ WithinLimits'
      BY <2>1 DEF PermitInv, CountersMatchPermits, WithinLimits,
                  KindHolders, ServiceHolders, Holders
    <2>3. TypeOK'
      BY <1>10, <2>1, SchedulerAssumption DEF Stop, Renew, PermitInv, TypeOK
    <2> QED
      BY <2>2, <2>3 DEF PermitInv
  <1>11. CASE UNCHANGED vars
    BY <1>11 DEF vars, PermitInv, TypeOK, CountersMatchPermits, WithinLimits,
                 KindHolders, ServiceHolders, Holders
  <1> QED
    BY <1>1, <1>2, <1>3, <1>4, <1>5, <1>6, <1>7, <1>8, <1>9, <1>10, <1>11
    DEF Next, Step

\* Every variable keeps its type: no counter of permits is ever decremented below
\* zero, whatever the calls, the limits and the interleaving.
THEOREM TypeCorrect == Spec => []TypeOK
  <1>1. Spec => []PermitInv
    BY PermitInvInit, PermitInvStep, PTL DEF Spec
  <1>2. PermitInv => TypeOK
    BY DEF PermitInv
  <1> QED
    BY <1>1, <1>2, PTL

\* The counters that admission reads are the permits that exist.
THEOREM CountersCorrect == Spec => []CountersMatchPermits
  <1>1. Spec => []PermitInv
    BY PermitInvInit, PermitInvStep, PTL DEF Spec
  <1>2. PermitInv => CountersMatchPermits
    BY DEF PermitInv
  <1> QED
    BY <1>1, <1>2, PTL

\* The app, CLI, query, cleanup and per-service ceilings are never exceeded.
THEOREM LimitsRespected == Spec => []WithinLimits
  <1>1. Spec => []PermitInv
    BY PermitInvInit, PermitInvStep, PTL DEF Spec
  <1>2. PermitInv => WithinLimits
    BY DEF PermitInv
  <1> QED
    BY <1>1, <1>2, PTL

-----------------------------------------------------------------------------
(* Tickets *)

\* Dropping c's entry leaves every other call's place, in the same order.
LEMMA WithoutEntries ==
  ASSUME queue \in Seq(Calls), NEW i \in DOMAIN queue,
         \A j, k \in DOMAIN queue : queue[j] = queue[k] => j = k
  PROVE  /\ \A j, k \in DOMAIN Without(i) : Without(i)[j] = Without(i)[k] => j = k
         /\ \A d \in Calls :
              (\E j \in DOMAIN Without(i) : Without(i)[j] = d)
                <=> d # queue[i] /\ \E j \in DOMAIN queue : queue[j] = d
  <1> DEFINE n == Len(queue)
  <1>1. n \in Nat /\ DOMAIN queue = 1 .. n /\ i \in 1 .. n
    OBVIOUS
  <1>2. DOMAIN Without(i) = 1 .. n - 1
    BY WithoutType
  <1>3. \A j \in 1 .. n - 1 : Without(i)[j] = IF j < i THEN queue[j] ELSE queue[j + 1]
    BY DEF Without
  <1> HIDE DEF n
  <1>4. ASSUME NEW j \in 1 .. n - 1, NEW k \in 1 .. n - 1, Without(i)[j] = Without(i)[k]
        PROVE  j = k
    <2> DEFINE from(m) == IF m < i THEN m ELSE m + 1
    <2>1. from(j) \in 1 .. n /\ from(k) \in 1 .. n
      BY <1>1
    <2>2. Without(i)[j] = queue[from(j)] /\ Without(i)[k] = queue[from(k)]
      BY <1>3
    <2>3. from(j) = from(k)
      <3> HIDE DEF from
      <3> QED
        BY <2>1, <2>2, <1>1, <1>4
    <2> QED
      BY <2>3, <1>1
  <1>5. ASSUME NEW d \in Calls, NEW j \in 1 .. n - 1, Without(i)[j] = d
        PROVE  d # queue[i] /\ \E k \in 1 .. n : queue[k] = d
    <2>1. CASE j < i
      BY <2>1, <1>1, <1>3, <1>5
    <2>2. CASE ~(j < i)
      <3>1. j + 1 \in 1 .. n /\ j + 1 # i
        BY <2>2, <1>1
      <3> QED
        BY <3>1, <2>2, <1>1, <1>3, <1>5
    <2> QED
      BY <2>1, <2>2
  <1>6. ASSUME NEW d \in Calls, d # queue[i], NEW k \in 1 .. n, queue[k] = d
        PROVE  \E j \in 1 .. n - 1 : Without(i)[j] = d
    <2>1. CASE k < i
      <3>1. k \in 1 .. n - 1
        BY <2>1, <1>1
      <3> QED
        BY <3>1, <2>1, <1>3, <1>6
    <2>2. CASE k > i
      <3>1. k - 1 \in 1 .. n - 1 /\ ~(k - 1 < i) /\ (k - 1) + 1 = k
        BY <2>2, <1>1
      <3>2. Without(i)[k - 1] = queue[k]
        BY <3>1, <1>3
      <3> QED
        BY <3>1, <3>2, <1>6
    <2> QED
      BY <2>1, <2>2, <1>1, <1>6
  <1> QED
    BY <1>1, <1>2, <1>4, <1>5, <1>6

LEMMA TicketsStep == PermitInv /\ QueueIsTickets /\ [Next]_vars => QueueIsTickets'
  <1> SUFFICES ASSUME PermitInv, QueueIsTickets, [Next]_vars PROVE QueueIsTickets'
    OBVIOUS
  <1> USE DEF Goto, shared
  <1>1. pc \in [Calls -> PCs] /\ queue \in Seq(Calls)
    BY DEF PermitInv, TypeOK
  <1>2. ASSUME NEW c \in Calls, pc[c] \in Queued, NEW to \in PCs \ Queued,
               NEW i \in DOMAIN queue, queue[i] = c, queue' = Without(i),
               pc' = [pc EXCEPT ![c] = to]
        PROVE  QueueIsTickets'
    <2>1. /\ \A j, k \in DOMAIN queue' : queue'[j] = queue'[k] => j = k
          /\ \A d \in Calls : (\E j \in DOMAIN queue' : queue'[j] = d)
               <=> d # c /\ \E j \in DOMAIN queue : queue[j] = d
      BY <1>1, <1>2, WithoutEntries DEF QueueIsTickets
    <2>2. \A d \in Calls : pc'[d] \in Queued <=> d # c /\ pc[d] \in Queued
      BY <1>1, <1>2
    <2> QED
      BY <2>1, <2>2 DEF QueueIsTickets
  <1>3. ASSUME NEW c \in Calls, NEW to \in PCs, pc' = [pc EXCEPT ![c] = to],
               pc[c] \in Queued <=> to \in Queued, queue' = queue
        PROVE  QueueIsTickets'
    BY <1>1, <1>3 DEF QueueIsTickets
  <1>4. ASSUME NEW c \in Calls, Enqueue(c) PROVE QueueIsTickets'
    <2>1. pc[c] \notin Queued /\ pc' = [pc EXCEPT ![c] = "arming"]
      BY <1>4 DEF Enqueue, ReadyToQueue
    <2>2. /\ Len(queue) \in Nat
          /\ DOMAIN queue = 1 .. Len(queue)
          /\ DOMAIN queue' = 1 .. Len(queue) + 1
          /\ \A j \in 1 .. Len(queue) : queue'[j] = queue[j]
          /\ queue'[Len(queue) + 1] = c
      BY <1>1, <1>4 DEF Enqueue
    <2>3. \A j \in DOMAIN queue : queue[j] # c
      BY <2>1 DEF QueueIsTickets
    <2>4. \A j, k \in DOMAIN queue' : queue'[j] = queue'[k] => j = k
      BY <2>2, <2>3 DEF QueueIsTickets
    <2>5. \A d \in Calls : (\E j \in DOMAIN queue' : queue'[j] = d)
            <=> d = c \/ \E j \in DOMAIN queue : queue[j] = d
      BY <2>2
    <2>6. \A d \in Calls : pc'[d] \in Queued <=> d = c \/ pc[d] \in Queued
      BY <1>1, <2>1
    <2> QED
      BY <2>4, <2>5, <2>6 DEF QueueIsTickets
  <1>5. ASSUME NEW c \in Calls, Count(c) \/ Refuse(c) PROVE QueueIsTickets'
    BY <1>3, <1>5 DEF Count, Refuse, ReadyToQueue
  <1>6. ASSUME NEW c \in Calls, Arm(c) \/ Wait(c) \/ Rearm(c) PROVE QueueIsTickets'
    BY <1>3, <1>6 DEF Arm, Wait, Rearm
  <1>7. ASSUME NEW c \in Calls, Admit(c) PROVE QueueIsTickets'
    BY <1>2, <1>7 DEF Admit
  <1>8. ASSUME NEW c \in Calls, Withdraw(c) \/ Abandon(c) PROVE QueueIsTickets'
    BY <1>2, <1>8 DEF Withdraw, Abandon, DropTicket
  <1>9. ASSUME NEW c \in Calls, Announce(c) PROVE QueueIsTickets'
    <2>1. CASE c \in Direct \/ Live(c)
      BY <2>1, <1>3, <1>9 DEF Announce
    <2>2. CASE ~(c \in Direct \/ Live(c))
      BY <2>2, <1>3, <1>9 DEF Announce
    <2> QED
      BY <2>1, <2>2
  <1>10. ASSUME NEW c \in Calls, Release(c) \/ Notify(c) PROVE QueueIsTickets'
    BY <1>3, <1>10 DEF Release, Notify
  <1>11. ASSUME NEW s \in Scopes, Stop(s) \/ Renew(s) PROVE QueueIsTickets'
    BY <1>11 DEF Stop, Renew, QueueIsTickets
  <1>12. CASE UNCHANGED vars
    BY <1>12 DEF vars, QueueIsTickets
  <1> QED
    BY <1>4, <1>5, <1>6, <1>7, <1>8, <1>9, <1>10, <1>11, <1>12 DEF Next, Step

\* The queue is exactly the calls with a live ticket, once each: no entry is left
\* behind by a withdrawn, abandoned or admitted call, and expect("owned queue
\* ticket") cannot fail.
THEOREM TicketsCorrect == Spec => []QueueIsTickets
  <1>1. Init => QueueIsTickets
    BY DEF Init, QueueIsTickets
  <1>2. PermitInv /\ QueueIsTickets /\ [Next]_vars => PermitInv' /\ QueueIsTickets'
    BY PermitInvStep, TicketsStep
  <1> QED
    BY <1>1, <1>2, PermitInvInit, PTL DEF Spec

-----------------------------------------------------------------------------
(* Wake-ups *)

\* A new entry at the end of the queue does not make an older one eligible.
LEMMA AppendKeepsOrder ==
  ASSUME PermitInv, NEW c \in Calls, Enqueue(c),
         NEW d \in Calls, d # c, NextEligible(d)'
  PROVE  NextEligible(d)
  <1>1. /\ Len(queue) \in Nat
        /\ DOMAIN queue = 1 .. Len(queue)
        /\ DOMAIN queue' = 1 .. Len(queue) + 1
        /\ \A j \in 1 .. Len(queue) : queue'[j] = queue[j]
        /\ queue'[Len(queue) + 1] = c
    BY DEF Enqueue, PermitInv, TypeOK
  <1>2. UNCHANGED <<active, serviceActive, burst>>
    BY DEF Enqueue
  <1>3. \A e : Fits(e)' <=> Fits(e)
    BY <1>2 DEF Fits
  <1>4. /\ Fitting \subseteq Fitting'
        /\ \A j \in Fitting' : j \in Fitting \/ j = Len(queue) + 1
    BY <1>1, <1>3 DEF Fitting
  <1>5. PICK i \in Preferred' : queue'[i] = d /\ \A j \in Preferred' : i <= j
    BY DEF NextEligible
  <1>6. i \in 1 .. Len(queue) /\ i \in Fitting /\ queue[i] = d
    <2>1. i \in Fitting'
      BY <1>5 DEF Preferred
    <2>2. i \in Fitting
      BY <2>1, <1>1, <1>4, <1>5
    <2>3. i \in 1 .. Len(queue)
      BY <2>2, <1>1 DEF Fitting
    <2> QED
      BY <2>2, <2>3, <1>1, <1>5
  <1>7. CASE burst >= PriorityBurst
    BY <1>7, <1>2, <1>4, <1>5, <1>6 DEF Preferred, NextEligible
  <1>8. CASE burst < PriorityBurst /\ Interactive(d)
    <2>1. i \in {j \in Fitting : Interactive(queue[j])}
      BY <1>8, <1>6
    <2>2. Preferred = {j \in Fitting : Interactive(queue[j])}
      <3>1. ~(burst >= PriorityBurst)
        BY <1>8, SchedulerAssumption DEF PermitInv, TypeOK
      <3>2. {j \in Fitting : Interactive(queue[j])} # {}
        BY <2>1
      <3> QED
        BY <3>1, <3>2 DEF Preferred
    <2>3. {j \in Fitting : Interactive(queue[j])} \subseteq
            {j \in Fitting' : Interactive(queue'[j])}
      BY <1>1, <1>4 DEF Fitting
    <2>4. Preferred \subseteq Preferred'
      BY <1>2, <1>4, <2>2, <2>3 DEF Preferred
    <2> QED
      BY <1>5, <1>6, <2>1, <2>2, <2>4 DEF NextEligible
  <1>9. CASE burst < PriorityBurst /\ ~Interactive(d)
    <2>1. {j \in Fitting' : Interactive(queue'[j])} = {}
      BY <1>9, <1>2, <1>5, SchedulerAssumption DEF Preferred, PermitInv, TypeOK
    <2>2. {j \in Fitting : Interactive(queue[j])} = {}
      BY <1>1, <1>4, <2>1 DEF Fitting
    <2>3. Preferred = Fitting /\ Preferred' = Fitting'
      BY <2>1, <2>2 DEF Preferred
    <2> QED
      BY <1>4, <1>5, <1>6, <2>3 DEF NextEligible
  <1> QED
    BY <1>7, <1>8, <1>9, SchedulerAssumption DEF PermitInv, TypeOK

LEMMA WakeupStep == PermitInv /\ NoLostWakeup /\ [Next]_vars => NoLostWakeup'
  <1> SUFFICES ASSUME PermitInv, NoLostWakeup, [Next]_vars PROVE NoLostWakeup'
    OBVIOUS
  <1> USE DEF Goto, shared
  <1>1. pc \in [Calls -> PCs] /\ woken \in [Calls -> BOOLEAN]
    BY DEF PermitInv, TypeOK
  \* Whoever changes what is eligible, other than by queueing, is about to notify.
  <1>2. ASSUME NEW c \in Calls, pc'[c] \in {"admitted", "notifying"} PROVE NoLostWakeup'
    BY <1>2 DEF NoLostWakeup
  \* Whoever notifies leaves no waiting call unwoken.
  <1>3. ASSUME NEW c \in Calls, NEW to \in PCs \ {"waiting"}, NotifyWaiters,
               pc' = [pc EXCEPT ![c] = to]
        PROVE  NoLostWakeup'
    <2>1. \A d \in Calls : pc'[d] = "waiting" => woken'[d]
      BY <1>1, <1>3 DEF NotifyWaiters
    <2> QED
      BY <2>1 DEF NoLostWakeup
  \* Whoever does neither changes nothing for the calls that wait.
  <1>4. ASSUME NEW c \in Calls, NEW to \in PCs \ {"waiting"},
               pc[c] \notin {"admitted", "notifying"},
               pc' = [pc EXCEPT ![c] = to],
               \A d \in Calls \ {c} : woken'[d] = woken[d],
               \A d \in Calls \ {c} : NextEligible(d)' => NextEligible(d)
        PROVE  NoLostWakeup'
    <2> SUFFICES ASSUME NEW d \in Calls, pc'[d] = "waiting", ~woken'[d], NextEligible(d)'
                 PROVE  \E e \in Calls : pc'[e] \in {"admitted", "notifying"}
      BY DEF NoLostWakeup
    <2>1. d # c /\ pc[d] = "waiting" /\ ~woken[d] /\ NextEligible(d)
      BY <1>1, <1>4
    <2>2. PICK e \in Calls : pc[e] \in {"admitted", "notifying"}
      BY <2>1 DEF NoLostWakeup
    <2> QED
      BY <2>2, <1>1, <1>4
  <1>5. UNCHANGED shared => \A d \in Calls : NextEligible(d)' <=> NextEligible(d)
    BY DEF NextEligible, Preferred, Fitting, Fits
  <1>6. ASSUME NEW c \in Calls, Count(c) \/ Refuse(c) PROVE NoLostWakeup'
    BY <1>4, <1>5, <1>6 DEF Count, Refuse, ReadyToQueue
  <1>7. ASSUME NEW c \in Calls, Enqueue(c) PROVE NoLostWakeup'
    <2>1. \A d \in Calls \ {c} : NextEligible(d)' => NextEligible(d)
      BY <1>7, AppendKeepsOrder
    <2> QED
      BY <2>1, <1>4, <1>7 DEF Enqueue, ReadyToQueue
  <1>8. ASSUME NEW c \in Calls, Arm(c) \/ Rearm(c) PROVE NoLostWakeup'
    BY <1>1, <1>4, <1>5, <1>8 DEF Arm, Rearm, DropNotified
  \* The one step into the select: c has just seen that it is not its turn.
  <1>9. ASSUME NEW c \in Calls, Wait(c) PROVE NoLostWakeup'
    <2> SUFFICES ASSUME NEW d \in Calls, pc'[d] = "waiting", ~woken'[d], NextEligible(d)'
                 PROVE  \E e \in Calls : pc'[e] \in {"admitted", "notifying"}
      BY DEF NoLostWakeup
    <2>1. d # c /\ pc[d] = "waiting" /\ ~woken[d] /\ NextEligible(d)
      BY <1>1, <1>5, <1>9 DEF Wait
    <2>2. PICK e \in Calls : pc[e] \in {"admitted", "notifying"}
      BY <2>1 DEF NoLostWakeup
    <2> QED
      BY <2>2, <1>1, <1>9 DEF Wait
  <1>10. ASSUME NEW c \in Calls, Admit(c) PROVE NoLostWakeup'
    BY <1>1, <1>2, <1>10 DEF Admit
  <1>11. ASSUME NEW c \in Calls, Withdraw(c) \/ Abandon(c) PROVE NoLostWakeup'
    BY <1>1, <1>2, <1>11 DEF Withdraw, Abandon, DropTicket
  <1>12. ASSUME NEW c \in Calls, Announce(c) PROVE NoLostWakeup'
    <2>1. CASE c \in Direct \/ Live(c)
      BY <2>1, <1>3, <1>12 DEF Announce
    <2>2. CASE ~(c \in Direct \/ Live(c))
      BY <2>2, <1>3, <1>12 DEF Announce
    <2> QED
      BY <2>1, <2>2
  <1>13. ASSUME NEW c \in Calls, Release(c) PROVE NoLostWakeup'
    BY <1>1, <1>2, <1>13 DEF Release
  <1>14. ASSUME NEW c \in Calls, Notify(c) PROVE NoLostWakeup'
    BY <1>3, <1>14 DEF Notify
  <1>15. CASE UNCHANGED <<pc, woken, shared>>
    BY <1>5, <1>15 DEF NoLostWakeup
  <1>16. ASSUME NEW s \in Scopes, Stop(s) \/ Renew(s) PROVE NoLostWakeup'
    BY <1>15, <1>16 DEF Stop, Renew
  <1>17. CASE UNCHANGED vars
    BY <1>15, <1>17 DEF vars
  <1> QED
    BY <1>6, <1>7, <1>8, <1>9, <1>10, <1>11, <1>12, <1>13, <1>14, <1>16, <1>17
    DEF Next, Step

\* However many calls there are and however the unlocks, the notifications, the
\* cancellations and the drops interleave, the waiter whose turn it is never
\* sleeps unless somebody is about to wake it.
THEOREM NoWakeupIsLost == Spec => []NoLostWakeup
  <1>1. Init => NoLostWakeup
    BY DEF Init, NoLostWakeup
  <1>2. PermitInv /\ NoLostWakeup /\ [Next]_vars => PermitInv' /\ NoLostWakeup'
    BY PermitInvStep, WakeupStep
  <1> QED
    BY <1>1, <1>2, PermitInvInit, PTL DEF Spec

-----------------------------------------------------------------------------
(* Order *)

\* The call whose turn it is sits at the oldest preferred position.
LEMMA EligiblePosition ==
  ASSUME QueueIsTickets, NEW i \in DOMAIN queue, NextEligible(queue[i])
  PROVE  i \in Preferred /\ \A j \in Preferred : i <= j
  <1>1. PICK k \in Preferred : queue[k] = queue[i] /\ \A j \in Preferred : k <= j
    BY DEF NextEligible
  <1>2. k \in DOMAIN queue
    BY <1>1 DEF Preferred, Fitting
  <1>3. k = i
    BY <1>1, <1>2 DEF QueueIsTickets
  <1> QED
    BY <1>1, <1>3

LEMMA BurstStep ==
  PermitInv /\ QueueIsTickets /\ BurstBounded /\ [Next]_vars => BurstBounded'
  <1> SUFFICES ASSUME PermitInv, QueueIsTickets, BurstBounded, [Next]_vars
               PROVE  BurstBounded'
    OBVIOUS
  <1>1. burst \in Nat /\ PriorityBurst \in Nat /\ queue \in Seq(Calls)
    BY SchedulerAssumption DEF PermitInv, TypeOK
  <1>2. ASSUME NEW c \in Calls, Admit(c) PROVE BurstBounded'
    <2>1. PICK i \in DOMAIN queue :
            queue[i] = c /\ burst' = IF PassesOver(i) THEN burst + 1 ELSE 0
      BY <1>2 DEF Admit
    <2>2. CASE burst >= PriorityBurst
      <3>1. \A j \in Fitting : i <= j
        BY <1>2, <2>1, <2>2, EligiblePosition DEF Admit, Preferred
      <3>2. \A j \in 1 .. i - 1 : j \in DOMAIN queue /\ ~(i <= j)
        BY <1>1
      <3>3. ~PassesOver(i)
        BY <3>1, <3>2 DEF PassesOver, Fitting
      <3> QED
        BY <3>3, <2>1, <1>1 DEF BurstBounded
    <2>3. CASE burst < PriorityBurst
      BY <2>1, <2>3, <1>1 DEF BurstBounded
    <2> QED
      BY <2>2, <2>3, <1>1
  <1>3. CASE UNCHANGED burst
    BY <1>3 DEF BurstBounded
  <1> QED
    BY <1>2, <1>3
    DEF Next, Step, vars, shared, Count, Enqueue, Refuse, Arm, Wait, Rearm, Withdraw, Abandon,
        DropTicket, Announce, Release, Notify, Stop, Renew

\* next_eligible() never lets more than PRIORITY_BURST admissions in a row pass
\* over a fitting background waiter.
THEOREM BurstIsBounded == Spec => []BurstBounded
  <1>1. Init => BurstBounded /\ QueueIsTickets
    BY SchedulerAssumption DEF Init, BurstBounded, QueueIsTickets
  <1>2. PermitInv /\ QueueIsTickets /\ BurstBounded /\ [Next]_vars
          => PermitInv' /\ QueueIsTickets' /\ BurstBounded'
    BY PermitInvStep, TicketsStep, BurstStep
  <1> QED
    BY <1>1, <1>2, PermitInvInit, PTL DEF Spec

LEMMA OrderStep ==
  PermitInv /\ QueueIsTickets /\ [Next]_vars
    => [\A c \in Calls : pc[c] = "trying" /\ pc'[c] = "admitted"
          => OlderInClass(c) = {}]_vars
  <1> SUFFICES ASSUME PermitInv, QueueIsTickets, Next,
                      NEW c \in Calls, pc[c] = "trying", pc'[c] = "admitted"
               PROVE  OlderInClass(c) = {}
    OBVIOUS
  <1>1. pc \in [Calls -> PCs]
    BY DEF PermitInv, TypeOK
  <1>2. Admit(c)
    BY <1>1 DEF Next, Step, Goto, vars, shared, Count, Enqueue, ReadyToQueue, Refuse, Arm, Admit,
                Wait, Rearm, Withdraw, Abandon, DropTicket, Announce, Release, Notify, Stop, Renew
  <1> SUFFICES ASSUME NEW d \in Calls, NEW i \in DOMAIN queue, NEW j \in DOMAIN queue,
                      i < j, queue[i] = d, queue[j] = c, SameClass(c, d)
               PROVE  FALSE
    BY DEF OlderInClass
  <1>3. j \in Preferred /\ \A k \in Preferred : j <= k
    BY <1>2, EligiblePosition DEF Admit
  <1>4. i \in Fitting
    BY <1>3 DEF Preferred, Fitting, Fits, SameClass
  <1>5. i \in Preferred
    BY <1>3, <1>4 DEF Preferred, SameClass
  <1>6. queue \in Seq(Calls) /\ i \in Nat /\ j \in Nat
    BY DEF PermitInv, TypeOK
  <1> QED
    BY <1>3, <1>5, <1>6

\* Within one kind, service and priority no call is admitted before an older one.
THEOREM OrderKept == Spec => FirstComeFirstServed
  <1>1. Init => QueueIsTickets
    BY DEF Init, QueueIsTickets
  <1>2. PermitInv /\ QueueIsTickets /\ [Next]_vars => PermitInv' /\ QueueIsTickets'
    BY PermitInvStep, TicketsStep
  <1> QED
    BY <1>1, <1>2, OrderStep, PermitInvInit, PTL DEF Spec, FirstComeFirstServed

-----------------------------------------------------------------------------
(* Priority: SchedulerFairness *)

\* No waiter was passed over more often than the scheduler counted: whoever passes over
\* the oldest fitting waiter also passes over a waiter that next_eligible() counts.
StreakCounted == streak \in [Calls -> Nat] /\ \A d \in Calls : streak[d] <= burst

\* An admission is Admit's.
LEMMA AdmitsIsAdmit ==
  ASSUME PermitInv, Next, NEW c \in Calls, Admits(c) PROVE Admit(c)
  <1>1. pc \in [Calls -> PCs] /\ pc[c] = "trying" /\ pc'[c] = "admitted"
    BY DEF PermitInv, TypeOK, Admits
  <1> QED
    BY <1>1
    DEF Next, Step, Goto, vars, shared, Count, Enqueue, ReadyToQueue, Refuse, Arm, Admit, Wait,
        Rearm, Withdraw, Abandon, DropTicket, Announce, Release, Notify, Stop, Renew

\* Whoever overtakes the oldest fitting waiter is counted.
LEMMA OvertakingCounted ==
  ASSUME PermitInv, QueueIsTickets, NEW c \in Calls, Admit(c), NEW d \in Calls,
         Overtakes(c, d)
  PROVE  burst' = burst + 1
  <1>1. PICK i \in DOMAIN queue :
          queue[i] = c /\ burst' = IF PassesOver(i) THEN burst + 1 ELSE 0
    BY DEF Admit
  <1>2. PICK j \in Fitting : queue[j] = d /\ \A k \in Fitting : j <= k
    BY DEF Overtakes, OldestFitting
  <1>3. i \in Fitting
    BY <1>1, EligiblePosition DEF Admit, Preferred
  <1>4. i # j /\ ~Interactive(queue[j]) /\ Fits(queue[j]) /\ j <= i
    BY <1>1, <1>2, <1>3 DEF Overtakes, Fitting
  <1>5. i \in Nat /\ j \in Nat /\ j \in 1 .. i - 1
    BY <1>4, <1>2 DEF PermitInv, TypeOK, Fitting
  <1> QED
    BY <1>1, <1>4, <1>5 DEF PassesOver

\* A burst ends only with an admission that passes nobody over.
LEMMA StreakStep ==
  PermitInv /\ QueueIsTickets /\ StreakCounted /\ [FNext]_fvars => StreakCounted'
  <1> SUFFICES ASSUME PermitInv, QueueIsTickets, StreakCounted, [FNext]_fvars
               PROVE  StreakCounted'
    OBVIOUS
  <1>1. burst \in Nat /\ pc \in [Calls -> PCs]
    BY DEF PermitInv, TypeOK
  <1>2. CASE UNCHANGED fvars
    BY <1>2 DEF fvars, vars, history, StreakCounted
  <1>3. CASE FNext
    <2> DEFINE passed(d) == \E c \in Calls : Overtakes(c, d)
    <2>1. streak' \in [Calls -> Nat]
      BY <1>3 DEF FNext, Observe, StreakCounted
    <2>2. \A d \in Calls : streak'[d] \in {0, streak[d], streak[d] + 1}
      BY <1>3 DEF FNext, Observe
    <2>3. \A d \in Calls : (\E c \in Calls : Admits(c)) /\ ~passed(d) => streak'[d] = 0
      BY <1>3 DEF FNext, Observe
    <2>4. \A d \in Calls : ~passed(d) => streak'[d] \in {0, streak[d]}
      BY <1>3 DEF FNext, Observe
    <2>5. ASSUME NEW c \in Calls, Admits(c) PROVE StreakCounted'
      <3>1. Admit(c)
        BY <1>3, <2>5, AdmitsIsAdmit DEF FNext
      <3>2. burst' \in Nat
        BY <1>1, <3>1 DEF Admit
      <3>3. ASSUME NEW d \in Calls, passed(d) PROVE streak'[d] <= burst'
        <4>1. PICK e \in Calls : Overtakes(e, d)
          BY <3>3
        <4>2. burst' = burst + 1
          BY <1>3, <4>1, AdmitsIsAdmit, OvertakingCounted DEF FNext, Overtakes
        <4> QED
          BY <1>1, <2>2, <4>2 DEF StreakCounted
      <3>4. ASSUME NEW d \in Calls, ~passed(d) PROVE streak'[d] <= burst'
        BY <2>3, <2>5, <3>2, <3>4
      <3> QED
        BY <2>1, <3>3, <3>4 DEF StreakCounted
    <2>6. CASE \A c \in Calls : ~Admits(c)
      <3>1. burst' = burst
        BY <1>1, <1>3, <2>6
        DEF FNext, Admits, Next, Step, Goto, shared, Count, Enqueue, Refuse, Arm, Admit, Wait,
            Rearm, Withdraw, Abandon, DropTicket, Announce, Release, Notify, Stop, Renew
      <3>2. \A d \in Calls : ~passed(d)
        BY <2>6 DEF Overtakes
      <3> QED
        BY <1>1, <2>1, <2>4, <3>1, <3>2 DEF StreakCounted
    <2> QED
      BY <2>5, <2>6
  <1> QED
    BY <1>2, <1>3

\* Once the oldest fitting waiter is background, at most PRIORITY_BURST interactive calls
\* in a row are admitted before it.
THEOREM OldestIsServed == FSpec => []OldestPassedOverAtMostBurst
  <1> DEFINE Inv == PermitInv /\ QueueIsTickets /\ BurstBounded /\ StreakCounted
  <1>1. FInit => Inv
    <2>1. Init => PermitInv /\ QueueIsTickets /\ BurstBounded
      BY PermitInvInit, SchedulerAssumption DEF Init, BurstBounded, QueueIsTickets
    <2>2. FInit => StreakCounted
      BY DEF FInit, Init, StreakCounted
    <2> QED
      BY <2>1, <2>2 DEF FInit
  <1>2. Inv /\ [FNext]_fvars => Inv'
    <2>1. [FNext]_fvars => [Next]_vars
      BY DEF FNext, fvars
    <2> QED
      BY <2>1, PermitInvStep, TicketsStep, BurstStep, StreakStep
  <1>3. Inv => OldestPassedOverAtMostBurst
    BY SchedulerAssumption
    DEF PermitInv, TypeOK, BurstBounded, StreakCounted, OldestPassedOverAtMostBurst
  <1> QED
    BY <1>1, <1>2, <1>3, PTL DEF FSpec

-----------------------------------------------------------------------------
(* Refinement *)

\* The budget's cardinality is the scheduler's: one definition, reached twice.
LEMMA BudgetCardinality ==
  ASSUME NEW S PROVE Budget!Cardinality(S) = Cardinality(S)
  BY DEF Budget!Cardinality, Cardinality, Budget!IsFiniteSet, IsFiniteSet

LEMMA BudgetStep ==
  PermitInv /\ [Next]_vars => [Budget!Next]_Holders
  <1> SUFFICES ASSUME PermitInv, [Next]_vars, Holders' # Holders PROVE Budget!Next
    BY DEF Budget!Next
  <1> USE DEF Goto
  <1>1. pc \in [Calls -> PCs]
    BY DEF PermitInv, TypeOK
  <1>2. ASSUME NEW c \in Calls, Admit(c) PROVE Budget!Take(c)
    <2>1. c \notin Holders /\ Holders' = Holders \cup {c}
      BY <1>1, <1>2, HoldersMoved DEF Admit
    <2>2. Fits(c)
      BY <1>2 DEF Admit, NextEligible, Preferred, Fitting
    <2>3. ASSUME NEW p \in Pools, c \in PoolMembers[p]
          PROVE  Cardinality(Holders \cap PoolMembers[p]) < PoolCeiling[p]
      <3>1. CASE p \in Kinds
        <4>1. Holders \cap PoolMembers[p] = KindHolders(p) /\ p = KindOf[c]
          BY <2>3, <3>1 DEF PoolMembers, Pools, KindHolders, Holders
        <4>2. PoolCeiling[p] = Limit[p]
          BY <3>1 DEF PoolCeiling, Pools
        <4>3. Cardinality(KindHolders(p)) = active[p]
          BY <3>1 DEF PermitInv, CountersMatchPermits
        <4> QED
          BY <4>1, <4>2, <4>3, <2>2 DEF Fits
      <3>2. CASE p \notin Kinds
        <4>1. /\ Holders \cap PoolMembers[p] = ServiceHolders(p)
              /\ p = ServiceOf[c] /\ KindOf[c] = "ordinary"
          BY <2>3, <3>2 DEF PoolMembers, Pools, ServiceHolders, KindHolders, Holders
        <4>2. PoolCeiling[p] = ServiceLimit
          BY <3>2 DEF PoolCeiling, Pools
        <4>3. Cardinality(ServiceHolders(p)) = serviceActive[p]
          BY <3>2 DEF PermitInv, CountersMatchPermits, Pools
        <4> QED
          BY <4>1, <4>2, <4>3, <2>2 DEF Fits
      <3> QED
        BY <3>1, <3>2
    <2> QED
      BY <2>1, <2>3, BudgetCardinality DEF Budget!Take, Budget!InPool
  <1>3. ASSUME NEW c \in Calls, Release(c) PROVE Budget!Give(c)
    <2>1. pc' = [pc EXCEPT ![c] = "notifying"] /\ pc[c] \in Holding
      BY <1>3 DEF Release
    <2>2. c \in Holders /\ Holders' = Holders \ {c}
      BY <2>1, <1>1, HoldersMoved
    <2> QED
      BY <2>2 DEF Budget!Give
  <1>4. ASSUME NEW c \in Calls,
               Count(c) \/ Enqueue(c) \/ Refuse(c) \/ Arm(c) \/ Wait(c) \/ Rearm(c)
                 \/ Withdraw(c) \/ Abandon(c) \/ Announce(c) \/ Notify(c)
        PROVE  FALSE
    <2>1. \E to \in PCs : pc' = [pc EXCEPT ![c] = to] /\ (pc[c] \in Holding <=> to \in Holding)
      <3>1. CASE Announce(c)
        BY <3>1 DEF Announce
      <3>2. CASE ~Announce(c)
        BY <3>2, <1>4 DEF Count, Enqueue, ReadyToQueue, Refuse, Arm, Wait, Rearm, Withdraw,
                          Abandon, DropTicket, Notify
      <3> QED
        BY <3>1, <3>2
    <2> QED
      BY <2>1, <1>1 DEF Holders
  <1>5. pc' # pc
    BY DEF Holders
  <1> QED
    BY <1>2, <1>3, <1>4, <1>5 DEF Next, Step, Stop, Renew, vars, Budget!Next

\* The scheduler, with its queue, tickets, bursts, wake-ups and cancellations,
\* implements the bare resource budget.
THEOREM SchedulerImplementsBudget == Spec => ImplementsBudget
  <1>1. Init => Budget!Init
    BY DEF Init, Budget!Init, Holders
  <1>2. Spec => []PermitInv
    BY PermitInvInit, PermitInvStep, PTL DEF Spec
  <1> QED
    BY <1>1, <1>2, BudgetStep, PTL DEF Spec, ImplementsBudget, Budget!Spec
=============================================================================
