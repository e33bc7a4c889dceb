----------------------------- MODULE QueryProofs -----------------------------
(***************************************************************************)
(* Proofs about QueryLifecycle, for any runs, keys, limits and policies.   *)
(*                                                                         *)
(* The registry and the guards agree on who owns a key (EntriesMatchGuards *)
(* and EntriesOwned) and on who owns a slot (PinnedSlotsRecoverable and    *)
(* SlotsPlaced); SlotsPlaced also says what is known of the remote query   *)
(* wherever the run is.  Together they are inductive, and the two claims   *)
(* on unresolved queries follow from them.                                 *)
(***************************************************************************)
EXTENDS QueryLifecycle, FiniteSetTheorems, TLAPS

\* The remote query of r cannot be running: it never started, or it is over.
Over(r) == remote[r] \in {"none", "rejected", "ended"}

\* An entry stands under the key of its run.
EntriesOwned ==
  \A k \in Keys : entries[k] # Absent => KeyOf[entries[k].token] = k

\* Who owns r's slot, and what is known of its remote query, by where r is.
SlotsPlaced ==
  \A r \in Runs :
    /\ pc[r] \in {"idle", "beginning", "selected", "wantsQuery"}
         => permit[r] = "none" /\ remote[r] = "none"
    /\ pc[r] \in {"wantsStart", "authorizing", "authorized"}
         => permit[r] = "guard" /\ remote[r] = "none"
    /\ pc[r] \in RemotePossible => permit[r] = "guard"
    /\ pc[r] = "closing" =>
         /\ permit[r] # "entry"
         /\ r \in unknown => permit[r] = "guard"
         /\ r \notin unknown => Over(r)
    /\ pc[r] = "dropping" =>
         /\ r \in unknown => permit[r] = "entry" \/ (permit[r] = "none" /\ r \in acknowledged)
         /\ r \notin unknown => Over(r) /\ permit[r] # "entry"
    /\ pc[r] = "done" =>
         /\ permit[r] # "guard"
         /\ permit[r] = "none" => Over(r) \/ r \in acknowledged
    /\ r \in unknown => pc[r] \in {"closing", "dropping", "done"}

\* The permits that exist were granted within the limit.
SlotsBounded == Cardinality(Held) <= QueryLimit

\* The reading of the policy that lets a run start saw everything allowed.
ReadBeforeStart ==
  \A r \in Runs :
    /\ pc[r] = "authorizing" /\ policy = Operations => r \in cleared
    /\ pc[r] \in {"authorized"} \cup RemotePossible => r \in cleared
    /\ remote[r] # "none" => r \in cleared

RecordsInv == TypeOK /\ EntriesOwned /\ EntriesMatchGuards /\ PinnedSlotsRecoverable /\ SlotsPlaced
LifecycleInv == RecordsInv /\ SlotsBounded /\ ReadBeforeStart

-----------------------------------------------------------------------------
\* Nothing has begun, nothing is held.
LEMMA InitRecords == Init => RecordsInv
BY QueryAssumption
   DEF Init, RecordsInv, TypeOK, EntriesOwned, EntriesMatchGuards, PinnedSlotsRecoverable,
       SlotsPlaced, PCs, GuardStates, RemotePossible, Absent, Over

\* Every step keeps the two sides' records in agreement.
LEMMA StepRecords == RecordsInv /\ [Next]_vars => RecordsInv'
<1> SUFFICES ASSUME RecordsInv, [Next]_vars PROVE RecordsInv'
  OBVIOUS
<1> USE QueryAssumption
    DEF RecordsInv, TypeOK, EntriesOwned, EntriesMatchGuards, PinnedSlotsRecoverable,
        SlotsPlaced, PCs, GuardStates, RemotePossible, Absent, Entry, Over, Goto, Close
<1>1. ASSUME NEW r \in Runs, Preflight(r) PROVE RecordsInv'
  BY <1>1 DEF Preflight
<1>2. ASSUME NEW r \in Runs, Mismatch(r) PROVE RecordsInv'
  BY <1>2 DEF Mismatch
<1>3. ASSUME NEW r \in Runs, Refuse(r) PROVE RecordsInv'
  BY <1>3 DEF Refuse
<1>4. ASSUME NEW r \in Runs, Begin(r) PROVE RecordsInv'
  BY <1>4 DEF Begin
<1>5. ASSUME NEW r \in Runs, Replace(r) PROVE RecordsInv'
  BY <1>5 DEF Replace, Release
<1>6. ASSUME NEW r \in Runs, NEW t \in Runs, AcknowledgeSelected(r, t) PROVE RecordsInv'
  BY <1>6 DEF AcknowledgeSelected, Release, Selects
<1>7. ASSUME NEW r \in Runs, AcquireQuery(r) PROVE RecordsInv'
  BY <1>7 DEF AcquireQuery
<1>8. ASSUME NEW r \in Runs, AcquireStart(r) PROVE RecordsInv'
  BY <1>8 DEF AcquireStart
<1>9. ASSUME NEW r \in Runs, Authorize(r) PROVE RecordsInv'
  BY <1>9 DEF Authorize
<1>10. ASSUME NEW r \in Runs, GiveUp(r) PROVE RecordsInv'
  BY <1>10 DEF GiveUp
<1>11. ASSUME NEW r \in Runs, Start(r) PROVE RecordsInv'
  BY <1>11 DEF Start
<1>12. ASSUME NEW r \in Runs, Started(r) PROVE RecordsInv'
  BY <1>12 DEF Started
<1>13. ASSUME NEW r \in Runs, StartFailed(r) PROVE RecordsInv'
  BY <1>13 DEF StartFailed
<1>14. ASSUME NEW r \in Runs, StartUnknown(r) PROVE RecordsInv'
  BY <1>14 DEF StartUnknown
<1>15. ASSUME NEW r \in Runs, PollTerminal(r) PROVE RecordsInv'
  BY <1>15 DEF PollTerminal
<1>16. ASSUME NEW r \in Runs, PollEnds(r) PROVE RecordsInv'
  BY <1>16 DEF PollEnds
<1>17. ASSUME NEW r \in Runs, AskStop(r) PROVE RecordsInv'
  BY <1>17 DEF AskStop
<1>18. ASSUME NEW r \in Runs, Stopped(r) PROVE RecordsInv'
  BY <1>18 DEF Stopped
<1>19. ASSUME NEW r \in Runs, StopUnknown(r) PROVE RecordsInv'
  BY <1>19 DEF StopUnknown
<1>20. ASSUME NEW r \in Runs, Finish(r) PROVE RecordsInv'
  BY <1>20 DEF Finish, Keeps, MarkUnknown, Remove
<1>21. ASSUME NEW r \in Runs, Drop(r) PROVE RecordsInv'
  BY <1>21 DEF Drop
<1>22. ASSUME NEW r \in Runs, Unwind(r) PROVE RecordsInv'
  BY <1>22 DEF Unwind
<1>23. ASSUME NEW r \in Runs, RemoteStep(r) PROVE RecordsInv'
  BY <1>23 DEF RemoteStep
<1>24. ASSUME NEW p \in Policies, ChangePolicy(p) PROVE RecordsInv'
  BY <1>24 DEF ChangePolicy
<1>25. CASE UNCHANGED vars
  BY <1>25 DEF vars
<1> HIDE DEF RecordsInv, TypeOK, EntriesOwned, EntriesMatchGuards, PinnedSlotsRecoverable,
             SlotsPlaced
<1> QED
  BY <1>1, <1>2, <1>3, <1>4, <1>5, <1>6, <1>7, <1>8, <1>9, <1>10, <1>11, <1>12, <1>13,
     <1>14, <1>15, <1>16, <1>17, <1>18, <1>19, <1>20, <1>21, <1>22, <1>23, <1>24, <1>25
  DEF Next, Progress

-----------------------------------------------------------------------------
\* Except AcquireQuery, no step gives a slot to a run that has none.
LEMMA StepSlots == RecordsInv /\ SlotsBounded /\ [Next]_vars => SlotsBounded'
<1> SUFFICES ASSUME RecordsInv, SlotsBounded, [Next]_vars PROVE SlotsBounded'
  OBVIOUS
<1> IsFiniteSet(Held) /\ Cardinality(Held) \in Nat
  BY QueryAssumption, FS_Subset, FS_CardinalityType DEF Held
<1>1. ASSUME Held' \subseteq Held PROVE SlotsBounded'
  BY <1>1, QueryAssumption, FS_Subset, FS_CardinalityType DEF SlotsBounded
<1>2. ASSUME NEW r \in Runs, AcquireQuery(r) PROVE SlotsBounded'
  <2>1. Held' = Held \cup {r} /\ r \notin Held
    BY <1>2 DEF AcquireQuery, Held, RecordsInv, TypeOK, SlotsPlaced
  <2>2. Cardinality(Held') = Cardinality(Held) + 1
    BY <2>1, FS_AddElement
  <2> QED
    BY <1>2, <2>2, QueryAssumption DEF AcquireQuery, SlotsBounded
<1>3. ASSUME NEW r \in Runs, Finish(r) PROVE Held' \subseteq Held
  BY <1>3 DEF Finish, Held, RecordsInv, TypeOK, SlotsPlaced
<1>4. ASSUME NEW r \in Runs, Drop(r) \/ Replace(r) \/ \E t \in Runs : AcknowledgeSelected(r, t)
      PROVE  Held' \subseteq Held
  BY <1>4 DEF Drop, Replace, AcknowledgeSelected, Release, Held, RecordsInv, TypeOK
<1>5. ASSUME permit' = permit PROVE Held' \subseteq Held
  BY <1>5 DEF Held
<1>6. ASSUME NEW r \in Runs,
             \/ Preflight(r) \/ Mismatch(r) \/ Refuse(r) \/ Begin(r) \/ Unwind(r) \/ RemoteStep(r)
             \/ AcquireStart(r) \/ Authorize(r) \/ GiveUp(r) \/ Start(r) \/ Started(r)
             \/ StartFailed(r) \/ StartUnknown(r) \/ PollTerminal(r) \/ PollEnds(r)
             \/ AskStop(r) \/ Stopped(r) \/ StopUnknown(r)
      PROVE  permit' = permit
  BY <1>6 DEF Preflight, Mismatch, Refuse, Begin, Unwind, RemoteStep, AcquireStart, Authorize,
              GiveUp, Start, Started, StartFailed, StartUnknown, PollTerminal, PollEnds,
              AskStop, Stopped, StopUnknown
<1>7. ASSUME (\E p \in Policies : ChangePolicy(p)) \/ UNCHANGED vars PROVE permit' = permit
  BY <1>7 DEF ChangePolicy, vars
<1> QED
  BY <1>1, <1>2, <1>3, <1>4, <1>5, <1>6, <1>7 DEF Next, Progress

\* The actions that a run can take only after, or at, the reading of the policy, and
\* those that change the policy, keep the record of what the reading saw.
LEMMA StepReading == RecordsInv /\ ReadBeforeStart /\ [Next]_vars => ReadBeforeStart'
<1> SUFFICES ASSUME RecordsInv, ReadBeforeStart, [Next]_vars PROVE ReadBeforeStart'
  OBVIOUS
<1> USE DEF ReadBeforeStart, RecordsInv, TypeOK, RemotePossible, GuardStates, Goto, Close
<1>1. ASSUME NEW r \in Runs,
             \/ Preflight(r) \/ Mismatch(r) \/ Refuse(r) \/ Begin(r) \/ Replace(r)
             \/ AcquireQuery(r) \/ GiveUp(r) \/ Finish(r) \/ Drop(r) \/ Unwind(r)
             \/ \E t \in Runs : AcknowledgeSelected(r, t)
      PROVE  ReadBeforeStart'
  BY <1>1 DEF Preflight, Mismatch, Refuse, Begin, Replace, Release, AcquireQuery, GiveUp,
              Finish, Drop, Unwind, AcknowledgeSelected
<1>2. ASSUME NEW r \in Runs, AcquireStart(r) \/ Authorize(r) \/ Start(r)
      PROVE  ReadBeforeStart'
  BY <1>2 DEF AcquireStart, Authorize, Start
<1>3. ASSUME NEW r \in Runs,
             \/ Started(r) \/ StartFailed(r) \/ StartUnknown(r) \/ PollTerminal(r)
             \/ PollEnds(r) \/ AskStop(r) \/ StopUnknown(r)
      PROVE  ReadBeforeStart'
  BY <1>3 DEF Started, StartFailed, StartUnknown, PollTerminal, PollEnds, AskStop, StopUnknown
<1>4. ASSUME NEW r \in Runs, Stopped(r) \/ RemoteStep(r) PROVE ReadBeforeStart'
  BY <1>4 DEF Stopped, RemoteStep
<1>5. ASSUME NEW p \in Policies, ChangePolicy(p) PROVE ReadBeforeStart'
  BY <1>5 DEF ChangePolicy
<1>6. CASE UNCHANGED vars
  BY <1>6 DEF vars
<1> HIDE DEF ReadBeforeStart, RecordsInv
<1> QED
  BY <1>1, <1>2, <1>3, <1>4, <1>5, <1>6 DEF Next, Progress

\* The three facts on which every theorem below rests.
LEMMA LifecycleInvariant == Spec => []LifecycleInv
<1>1. Init => LifecycleInv
  <2> SUFFICES ASSUME Init PROVE LifecycleInv
    OBVIOUS
  <2>1. Held = {}
    BY DEF Init, Held
  <2>2. SlotsBounded
    BY <2>1, FS_EmptySet, QueryAssumption DEF SlotsBounded
  <2>3. ReadBeforeStart
    BY DEF Init, ReadBeforeStart, RemotePossible
  <2> QED
    BY <2>2, <2>3, InitRecords DEF LifecycleInv
<1>2. LifecycleInv /\ [Next]_vars => LifecycleInv'
  BY StepRecords, StepSlots, StepReading DEF LifecycleInv
<1> QED
  BY <1>1, <1>2, PTL DEF Spec

-----------------------------------------------------------------------------
\* A run whose remote query is unresolved owns the entry of its key and a slot.
LEMMA UnresolvedOwns ==
  ASSUME RecordsInv, NEW r \in Unresolved
  PROVE  /\ permit[r] # "none"
         /\ entries[KeyOf[r]] # Absent
         /\ entries[KeyOf[r]].token = r
<1> r \in Runs /\ KeyOf[r] \in Keys /\ ~Over(r) /\ r \notin acknowledged
  BY QueryAssumption DEF Unresolved, Over
<1>1. CASE pc[r] \in GuardStates
  <2>1. entries[KeyOf[r]] = [state |-> "active", token |-> r]
    BY <1>1 DEF RecordsInv, EntriesMatchGuards
  <2>2. permit[r] # "none"
    BY <1>1 DEF RecordsInv, SlotsPlaced, GuardStates, RemotePossible, Over
  <2> QED
    BY <2>1, <2>2 DEF Absent
<1>2. CASE pc[r] \in {"dropping", "done"}
  <2>1. permit[r] = "entry"
    BY <1>2 DEF RecordsInv, SlotsPlaced, TypeOK
  <2>2. PICK k \in Keys : entries[k] = [state |-> "unknown", token |-> r]
    BY <2>1 DEF RecordsInv, PinnedSlotsRecoverable
  <2>3. k = KeyOf[r]
    BY <2>2 DEF RecordsInv, EntriesOwned, Absent
  <2> QED
    BY <2>1, <2>2, <2>3 DEF Absent
<1>3. CASE pc[r] \in {"idle", "beginning", "selected"}
  BY <1>3 DEF RecordsInv, SlotsPlaced, Over
<1> QED
  BY <1>1, <1>2, <1>3 DEF RecordsInv, TypeOK, PCs

\* The state of the registry, the guards and the slots keeps its type.
THEOREM LifecycleTypeCorrect == Spec => []TypeOK
<1>1. LifecycleInv => TypeOK
  BY DEF LifecycleInv, RecordsInv
<1> QED
  BY <1>1, LifecycleInvariant, PTL

\* An open guard owns the active entry of its key, and no active entry outlives its
\* guard, whatever is acknowledged, finished or unwound meanwhile.
THEOREM GuardsOwnEntries == Spec => []EntriesMatchGuards
<1>1. LifecycleInv => EntriesMatchGuards
  BY DEF LifecycleInv, RecordsInv
<1> QED
  BY <1>1, LifecycleInvariant, PTL

\* Every slot that an unknown outcome pins is reachable through its entry.
THEOREM SlotsRecoverable == Spec => []PinnedSlotsRecoverable
<1>1. LifecycleInv => PinnedSlotsRecoverable
  BY DEF LifecycleInv, RecordsInv
<1> QED
  BY <1>1, LifecycleInvariant, PTL

\* Every unresolved remote query holds one of the QueryLimit slots.
THEOREM UnresolvedKeepSlots == Spec => []UnresolvedHoldSlots
<1>1. LifecycleInv => UnresolvedHoldSlots
  BY UnresolvedOwns
     DEF LifecycleInv, UnresolvedHoldSlots, SlotsBounded, Held, Unresolved
<1> QED
  BY <1>1, LifecycleInvariant, PTL

\* So there are never more than QueryLimit of them, however many runs there are.
THEOREM UnresolvedBounded == Spec => [](Cardinality(Unresolved) <= QueryLimit)
<1>1. LifecycleInv => Cardinality(Unresolved) <= QueryLimit
  <2> SUFFICES ASSUME LifecycleInv PROVE Cardinality(Unresolved) <= QueryLimit
    OBVIOUS
  <2>1. Unresolved \subseteq Held
    BY UnresolvedOwns DEF LifecycleInv, Held, Unresolved
  <2>2. IsFiniteSet(Held) /\ Cardinality(Held) \in Nat
    BY QueryAssumption, FS_Subset, FS_CardinalityType DEF Held
  <2>3. Cardinality(Unresolved) \in Nat /\ Cardinality(Unresolved) <= Cardinality(Held)
    BY <2>1, <2>2, FS_Subset, FS_CardinalityType
  <2> QED
    BY <2>2, <2>3, QueryAssumption DEF LifecycleInv, SlotsBounded
<1> QED
  BY <1>1, LifecycleInvariant, PTL

\* No query is started again under a key while it may still be running.
THEOREM NoSecondScan == Spec => []UnresolvedOncePerKey
<1>1. LifecycleInv => UnresolvedOncePerKey
  BY UnresolvedOwns DEF LifecycleInv, UnresolvedOncePerKey
<1> QED
  BY <1>1, LifecycleInvariant, PTL

\* No remote query starts under a policy that stayed revoked since admission.
THEOREM StartsAllowed == Spec => []StartedOnlyIfAllowed
<1>1. LifecycleInv => StartedOnlyIfAllowed
  BY DEF LifecycleInv, ReadBeforeStart, StartedOnlyIfAllowed
<1> QED
  BY <1>1, LifecycleInvariant, PTL
=============================================================================
