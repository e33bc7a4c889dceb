------------------------- MODULE VerificationProofs -------------------------
(***************************************************************************)
(* Proofs about Verification, for any callers, configurations, principals  *)
(* and number of flights.                                                  *)
(*                                                                         *)
(* A session is pinned by two fields that are each written once: snapshot  *)
(* before the credentials are asked for, principal when the first session  *)
(* is installed.  Pinned says that every session ever installed agrees     *)
(* with them; it needs to know what the worker in flight has in hand       *)
(* (WorkerPlaced).                                                         *)
(***************************************************************************)
EXTENDS Verification, TLAPS

\* The worker has compared its configuration with the pinned one.
Compared == {"credentials", "resolving", "caller", "asking", "rereading", "installing"}

\* What the worker has in hand, by where it is.
WorkerPlaced ==
  /\ worker # "over" => flight \in Revisions
  /\ worker \notin {"over", "reading"} => taken \in Snapshots
  /\ worker \in Compared => snapshot = taken
  /\ worker \in {"caller", "asking", "rereading", "installing"} =>
       owner \in Principals \cup {Foreign}
  /\ worker \in {"rereading", "installing"} => owner \in Principals

\* A waiting caller has subscribed to a flight that was started.
CallersPlaced == \A c \in Callers : caller[c] = "waiting" => channel[c] \in 1 .. flight

\* Every session is for the pinned principal and the pinned configuration.
Pinned == \A s \in minted : s.principal = principal /\ s.snapshot = snapshot

\* A context that is over has no session.
OverForGood == invalidated => session = NoSession

VerificationInv == TypeOK /\ WorkerPlaced /\ CallersPlaced /\ Pinned /\ OverForGood

-----------------------------------------------------------------------------
\* No flight was started and no session installed.
LEMMA InitVerification == ASSUME VerificationAssumption PROVE Init => VerificationInv
<1> SUFFICES ASSUME Init PROVE VerificationInv
  OBVIOUS
<1> USE DEF Init, NoSession
<1>1. TypeOK
  <2>1. 0 \in 0 .. Flights
    BY DEF VerificationAssumption
  <2> QED
    BY <2>1 DEF TypeOK, Lives, WorkerStates, PCs
<1>2. WorkerPlaced
  BY DEF WorkerPlaced, Compared
<1>3. CallersPlaced
  BY DEF CallersPlaced
<1>4. Pinned /\ OverForGood
  BY DEF Pinned, OverForGood
<1> QED
  BY <1>1, <1>2, <1>3, <1>4 DEF VerificationInv

\* Every step keeps what is known of the worker, the callers and the sessions.
LEMMA StepVerification ==
  ASSUME VerificationAssumption PROVE VerificationInv /\ [Next]_vars => VerificationInv'
<1> SUFFICES ASSUME VerificationInv, [Next]_vars PROVE VerificationInv'
  OBVIOUS
<1>0. TypeOK /\ WorkerPlaced /\ CallersPlaced /\ Pinned /\ OverForGood /\ Flights \in Nat
  BY DEF VerificationInv, VerificationAssumption
<1> USE VerificationAssumption DEF NoSession, shared, world, flightVars, callerVars
<1>1. CASE ReadConfig
  <2>1. flight \in Revisions
    BY <1>1, <1>0 DEF ReadConfig, Running, WorkerPlaced
  <2>2. invalidated' \in BOOLEAN
    BY <1>1, <1>0, Zenon DEF ReadConfig, Running, FailForGood, Publish, Invalidate,
       Proceed, TypeOK
  <2>3. TypeOK'
    BY <1>1, <1>0, <2>1, <2>2 DEF ReadConfig, Running, FailForGood, Publish,
       Invalidate, Proceed, TypeOK, WorkerPlaced, WorkerStates, Compared
  <2>4. WorkerPlaced'
    BY <1>1, <1>0 DEF ReadConfig, Running, FailForGood, Publish, Invalidate, Proceed,
       TypeOK, WorkerPlaced, Revisions, Compared
  <2>5. CallersPlaced'
    BY <1>1, <1>0 DEF ReadConfig, Running, FailForGood, Publish, Invalidate, Proceed,
       TypeOK, CallersPlaced, Revisions
  <2>6. Pinned'
    BY <1>1, <1>0 DEF ReadConfig, Running, FailForGood, Publish, Invalidate, Proceed,
       TypeOK, Pinned, WorkerPlaced, Sessions, VerificationAssumption, Compared
  <2>7. OverForGood'
    BY <1>1, <1>0 DEF ReadConfig, Running, FailForGood, Publish, Invalidate, Proceed,
       OverForGood
  <2> QED
    BY <2>3, <2>4, <2>5, <2>6, <2>7 DEF VerificationInv
<1>2. CASE Examine
  <2>1. flight \in Revisions
    BY <1>2, <1>0 DEF Examine, Running, WorkerPlaced
  <2>2. invalidated' \in BOOLEAN
    BY <1>2, <1>0, Zenon DEF Examine, Running, Fail, FailForGood, Publish, Invalidate,
       Proceed, TypeOK
  <2>3. TypeOK'
    BY <1>2, <1>0, <2>1, <2>2 DEF Examine, Running, Fail, FailForGood, Publish,
       Invalidate, Proceed, TypeOK, WorkerPlaced, WorkerStates, Compared
  <2>4. WorkerPlaced'
    BY <1>2, <1>0 DEF Examine, Running, Fail, FailForGood, Publish, Invalidate,
       Proceed, TypeOK, WorkerPlaced, Revisions, Compared
  <2>5. CallersPlaced'
    BY <1>2, <1>0 DEF Examine, Running, Fail, FailForGood, Publish, Invalidate,
       Proceed, TypeOK, CallersPlaced, Revisions
  <2>6. Pinned'
    BY <1>2, <1>0 DEF Examine, Running, Fail, FailForGood, Publish, Invalidate,
       Proceed, TypeOK, Pinned, WorkerPlaced, Sessions, VerificationAssumption,
       Compared
  <2>7. OverForGood'
    BY <1>2, <1>0 DEF Examine, Running, Fail, FailForGood, Publish, Invalidate,
       Proceed, OverForGood
  <2> QED
    BY <2>3, <2>4, <2>5, <2>6, <2>7 DEF VerificationInv
<1>3. CASE GateCredentials \/ GateIdentity
  <2>1. flight \in Revisions
    BY <1>3, <1>0 DEF GateCredentials, GateIdentity, Gate, Running, WorkerPlaced
  <2>2. TypeOK'
    BY <1>3, <1>0, <2>1 DEF GateCredentials, GateIdentity, Gate, Running, Fail,
       Publish, Proceed, TypeOK, WorkerPlaced, WorkerStates, Compared
  <2>3. WorkerPlaced'
    BY <1>3, <1>0 DEF GateCredentials, GateIdentity, Gate, Running, Fail, Publish,
       Proceed, TypeOK, WorkerPlaced, Revisions, Compared
  <2>4. CallersPlaced'
    BY <1>3, <1>0 DEF GateCredentials, GateIdentity, Gate, Running, Fail, Publish,
       Proceed, TypeOK, CallersPlaced, Revisions
  <2>5. Pinned'
    BY <1>3, <1>0 DEF GateCredentials, GateIdentity, Gate, Running, Fail, Publish,
       Proceed, TypeOK, Pinned, WorkerPlaced, Sessions, VerificationAssumption,
       Compared
  <2>6. OverForGood'
    BY <1>3, <1>0 DEF GateCredentials, GateIdentity, Gate, Running, Fail, Publish,
       Proceed, OverForGood
  <2> QED
    BY <2>2, <2>3, <2>4, <2>5, <2>6 DEF VerificationInv
<1>4. CASE Resolve
  <2>1. flight \in Revisions
    BY <1>4, <1>0 DEF Resolve, Running, WorkerPlaced
  <2>2. TypeOK'
    BY <1>4, <1>0, <2>1 DEF Resolve, Running, Fail, Publish, Proceed, TypeOK,
       WorkerPlaced, WorkerStates, Compared, Lives
  <2>3. WorkerPlaced'
    BY <1>4, <1>0 DEF Resolve, Running, Fail, Publish, Proceed, TypeOK, WorkerPlaced,
       Revisions, Compared
  <2>4. CallersPlaced'
    BY <1>4, <1>0 DEF Resolve, Running, Fail, Publish, Proceed, TypeOK, CallersPlaced,
       Revisions
  <2>5. Pinned'
    BY <1>4, <1>0 DEF Resolve, Running, Fail, Publish, Proceed, TypeOK, Pinned,
       WorkerPlaced, Sessions, VerificationAssumption, Compared
  <2>6. OverForGood'
    BY <1>4, <1>0 DEF Resolve, Running, Fail, Publish, Proceed, OverForGood
  <2> QED
    BY <2>2, <2>3, <2>4, <2>5, <2>6 DEF VerificationInv
<1>5. CASE Identify
  <2>1. flight \in Revisions
    BY <1>5, <1>0 DEF Identify, Running, WorkerPlaced
  <2>2. invalidated' \in BOOLEAN
    BY <1>5, <1>0, Zenon DEF Identify, Running, Fail, FailForGood, Publish,
       Invalidate, Proceed, TypeOK
  <2>3. TypeOK'
    BY <1>5, <1>0, <2>1, <2>2 DEF Identify, Running, Fail, FailForGood, Publish,
       Invalidate, Proceed, TypeOK, WorkerPlaced, WorkerStates, Compared
  <2>4. WorkerPlaced'
    BY <1>5, <1>0 DEF Identify, Running, Fail, FailForGood, Publish, Invalidate,
       Proceed, TypeOK, WorkerPlaced, Revisions, Compared
  <2>5. CallersPlaced'
    BY <1>5, <1>0 DEF Identify, Running, Fail, FailForGood, Publish, Invalidate,
       Proceed, TypeOK, CallersPlaced, Revisions
  <2>6. Pinned'
    BY <1>5, <1>0 DEF Identify, Running, Fail, FailForGood, Publish, Invalidate,
       Proceed, TypeOK, Pinned, WorkerPlaced, Sessions, VerificationAssumption,
       Compared
  <2>7. OverForGood'
    BY <1>5, <1>0 DEF Identify, Running, Fail, FailForGood, Publish, Invalidate,
       Proceed, OverForGood
  <2> QED
    BY <2>3, <2>4, <2>5, <2>6, <2>7 DEF VerificationInv
<1>6. CASE Reread
  <2>1. flight \in Revisions
    BY <1>6, <1>0 DEF Reread, Running, WorkerPlaced
  <2>2. invalidated' \in BOOLEAN
    BY <1>6, <1>0, Zenon DEF Reread, Running, Fail, FailForGood, Publish, Invalidate,
       Proceed, TypeOK
  <2>3. TypeOK'
    BY <1>6, <1>0, <2>1, <2>2 DEF Reread, Running, Fail, FailForGood, Publish,
       Invalidate, Proceed, TypeOK, WorkerPlaced, WorkerStates, Compared
  <2>4. WorkerPlaced'
    BY <1>6, <1>0 DEF Reread, Running, Fail, FailForGood, Publish, Invalidate,
       Proceed, TypeOK, WorkerPlaced, Revisions, Compared
  <2>5. CallersPlaced'
    BY <1>6, <1>0 DEF Reread, Running, Fail, FailForGood, Publish, Invalidate,
       Proceed, TypeOK, CallersPlaced, Revisions
  <2>6. Pinned'
    BY <1>6, <1>0 DEF Reread, Running, Fail, FailForGood, Publish, Invalidate,
       Proceed, TypeOK, Pinned, WorkerPlaced, Sessions, VerificationAssumption,
       Compared
  <2>7. OverForGood'
    BY <1>6, <1>0 DEF Reread, Running, Fail, FailForGood, Publish, Invalidate,
       Proceed, OverForGood
  <2> QED
    BY <2>3, <2>4, <2>5, <2>6, <2>7 DEF VerificationInv
<1>7. CASE Install
  <2>1. flight \in Revisions
    BY <1>7, <1>0 DEF Install, Running, WorkerPlaced
  <2>2. invalidated' \in BOOLEAN
    BY <1>7, <1>0, Zenon DEF Install, Installed, Running, Fail, FailForGood, Publish,
       Invalidate, TypeOK
  <2>3. minted' \subseteq Sessions
    BY <1>7, <1>0, <2>1 DEF Install, Installed, Running, Fail, FailForGood, Publish,
       Invalidate, WorkerPlaced, TypeOK, Sessions
  <2>4. TypeOK'
    BY <1>7, <1>0, <2>1, <2>2, <2>3 DEF Install, Installed, Running, Fail,
       FailForGood, Publish, Invalidate, TypeOK, WorkerPlaced, WorkerStates, Compared,
       Sessions
  <2>5. WorkerPlaced'
    BY <1>7, <1>0 DEF Install, Installed, Running, Fail, FailForGood, Publish,
       Invalidate, TypeOK, WorkerPlaced, Revisions, Compared
  <2>6. CallersPlaced'
    BY <1>7, <1>0 DEF Install, Installed, Running, Fail, FailForGood, Publish,
       Invalidate, TypeOK, CallersPlaced, Revisions
  <2>7. Pinned'
    BY <1>7, <1>0 DEF Install, Installed, Running, Fail, FailForGood, Publish,
       Invalidate, TypeOK, Pinned, WorkerPlaced, Sessions, VerificationAssumption,
       Compared
  <2>8. OverForGood'
    BY <1>7, <1>0 DEF Install, Installed, Running, Fail, FailForGood, Publish,
       Invalidate, OverForGood
  <2> QED
    BY <2>4, <2>5, <2>6, <2>7, <2>8 DEF VerificationInv
<1>8. CASE Panic
  <2>1. flight \in Revisions
    BY <1>8, <1>0 DEF Panic, WorkerPlaced
  <2>2. TypeOK'
    BY <1>8, <1>0, <2>1 DEF Panic, Fail, Publish, TypeOK, WorkerPlaced, WorkerStates,
       Compared
  <2>3. WorkerPlaced'
    BY <1>8, <1>0 DEF Panic, Fail, Publish, TypeOK, WorkerPlaced, Revisions, Compared
  <2>4. CallersPlaced'
    BY <1>8, <1>0 DEF Panic, Fail, Publish, TypeOK, CallersPlaced, Revisions
  <2>5. Pinned'
    BY <1>8, <1>0 DEF Panic, Fail, Publish, TypeOK, Pinned, WorkerPlaced, Sessions,
       VerificationAssumption, Compared
  <2>6. OverForGood'
    BY <1>8, <1>0 DEF Panic, Fail, Publish, OverForGood
  <2> QED
    BY <2>2, <2>3, <2>4, <2>5, <2>6 DEF VerificationInv
<1>9. CASE World
  <2>1. TypeOK'
    BY <1>9, <1>0 DEF World, Reconfigure, Age, TypeOK, WorkerPlaced, WorkerStates,
       Lives
  <2>2. WorkerPlaced'
    BY <1>9, <1>0 DEF World, Reconfigure, Age, TypeOK, WorkerPlaced, Revisions,
       Compared
  <2>3. CallersPlaced'
    BY <1>9, <1>0 DEF World, Reconfigure, Age, TypeOK, CallersPlaced, Revisions
  <2>4. Pinned'
    BY <1>9, <1>0 DEF World, Reconfigure, Age, TypeOK, Pinned, WorkerPlaced, Sessions,
       VerificationAssumption, Compared
  <2>5. OverForGood'
    BY <1>9, <1>0 DEF World, Reconfigure, Age, OverForGood
  <2> QED
    BY <2>1, <2>2, <2>3, <2>4, <2>5 DEF VerificationInv
<1>10. ASSUME NEW c \in Callers, Join(c) PROVE VerificationInv'
  <2>1. flight' \in Revisions /\ flight <= flight' /\ channel'[c] = flight'
    BY <1>10, <1>0 DEF Join, Over, TypeOK, WorkerPlaced, Revisions
  <2>2. TypeOK'
    <3>1. flight' \in 0 .. Flights
      BY <2>1, <1>0 DEF Revisions
    <3>2. channel' \in [Callers -> 0 .. Flights]
      BY <1>10, <1>0, <2>1, <3>1 DEF Join, TypeOK
    <3>3. caller' \in [Callers -> PCs]
      BY <1>10, <1>0 DEF Join, Goto, TypeOK, PCs
    <3> QED
      BY <1>10, <1>0, <3>1, <3>2, <3>3 DEF Join, TypeOK, WorkerStates
  <2>3. WorkerPlaced'
    BY <1>10, <1>0, <2>1 DEF Join, TypeOK, WorkerPlaced, Compared
  <2>4. CallersPlaced'
    <3> SUFFICES ASSUME NEW d \in Callers, caller'[d] = "waiting" PROVE channel'[d] \in 1 .. flight'
      BY DEF CallersPlaced
    <3>1. CASE d = c
      BY <3>1, <2>1, <1>0 DEF Revisions
    <3>2. CASE d # c
      <4>1. caller[d] = "waiting" /\ channel'[d] = channel[d]
        BY <3>2, <1>10, <1>0 DEF Join, Goto, TypeOK
      <4> QED
        BY <4>1, <2>1, <1>0 DEF CallersPlaced, TypeOK, Revisions
    <3> QED
      BY <3>1, <3>2
  <2>5. Pinned' /\ OverForGood'
    BY <1>10, <1>0 DEF Join, Pinned, OverForGood
  <2> QED
    BY <2>2, <2>3, <2>4, <2>5 DEF VerificationInv
<1>11. ASSUME NEW c \in Callers, Receive(c) PROVE VerificationInv'
  <2>1. channel[c] \in Revisions
    BY <1>11, <1>0 DEF Receive, CallersPlaced, TypeOK, Revisions
  <2>2. TypeOK'
    <3>1. outcome[channel[c]] \in 0 .. Flights
      BY <2>1, <1>0 DEF TypeOK
    <3>2. held' \in [Callers -> 0 .. Flights]
      BY <1>11, <1>0, <3>1 DEF Receive, Out, TypeOK
    <3>3. channel' \in [Callers -> 0 .. Flights]
      BY <1>11, <1>0 DEF Receive, Out, TypeOK
    <3>4. caller' \in [Callers -> PCs]
      BY <1>11, <1>0 DEF Receive, Out, Goto, TypeOK, PCs
    <3> QED
      BY <1>11, <1>0, <3>2, <3>3, <3>4 DEF Receive, TypeOK
  <2>3. WorkerPlaced' /\ Pinned' /\ OverForGood'
    BY <1>11, <1>0 DEF Receive, WorkerPlaced, Pinned, OverForGood
  <2>4. CallersPlaced'
    BY <1>11, <1>0 DEF Receive, Goto, Out, TypeOK, CallersPlaced
  <2> QED
    BY <2>2, <2>3, <2>4 DEF VerificationInv
<1>12. ASSUME NEW c \in Callers, Compare(c) PROVE VerificationInv'
  <2>1. invalidated' \in BOOLEAN
    BY <1>12, <1>0, Zenon DEF Compare, Goto, Out, Invalidate, TypeOK
  <2>2. TypeOK'
    BY <1>12, <1>0, <2>1 DEF Compare, Goto, Out, Invalidate, TypeOK, WorkerPlaced,
       WorkerStates, PCs
  <2>3. WorkerPlaced'
    BY <1>12, <1>0 DEF Compare, Goto, Out, Invalidate, TypeOK, WorkerPlaced,
       Revisions, Compared
  <2>4. CallersPlaced'
    BY <1>12, <1>0 DEF Compare, Goto, Out, Invalidate, TypeOK, CallersPlaced,
       Revisions
  <2>5. Pinned'
    BY <1>12, <1>0 DEF Compare, Goto, Out, Invalidate, TypeOK, Pinned, WorkerPlaced,
       Sessions, VerificationAssumption, Compared
  <2>6. OverForGood'
    BY <1>12, <1>0 DEF Compare, Goto, Out, Invalidate, OverForGood
  <2> QED
    BY <2>2, <2>3, <2>4, <2>5, <2>6 DEF VerificationInv
<1>13. ASSUME NEW c \in Callers, Fence(c) \/ Revalidate(c) \/ Leave(c) PROVE VerificationInv'
  <2>1. TypeOK'
    BY <1>13, <1>0 DEF Fence, Revalidate, Leave, Goto, Out, TypeOK, WorkerPlaced,
       WorkerStates, PCs
  <2>2. WorkerPlaced'
    BY <1>13, <1>0 DEF Fence, Revalidate, Leave, Goto, Out, TypeOK, WorkerPlaced,
       Revisions, Compared
  <2>3. CallersPlaced'
    BY <1>13, <1>0 DEF Fence, Revalidate, Leave, Goto, Out, TypeOK, CallersPlaced,
       Revisions
  <2>4. Pinned'
    BY <1>13, <1>0 DEF Fence, Revalidate, Leave, Goto, Out, TypeOK, Pinned,
       WorkerPlaced, Sessions, VerificationAssumption, Compared
  <2>5. OverForGood'
    BY <1>13, <1>0 DEF Fence, Revalidate, Leave, Goto, Out, OverForGood
  <2> QED
    BY <2>1, <2>2, <2>3, <2>4, <2>5 DEF VerificationInv
<1>14. CASE UNCHANGED vars
  <2>1. TypeOK'
    BY <1>14, <1>0 DEF vars, verification, TypeOK, WorkerPlaced, WorkerStates
  <2>2. WorkerPlaced'
    BY <1>14, <1>0 DEF vars, verification, TypeOK, WorkerPlaced, Revisions, Compared
  <2>3. CallersPlaced'
    BY <1>14, <1>0 DEF vars, verification, TypeOK, CallersPlaced, Revisions
  <2>4. Pinned'
    BY <1>14, <1>0 DEF vars, verification, TypeOK, Pinned, WorkerPlaced, Sessions,
       VerificationAssumption, Compared
  <2>5. OverForGood'
    BY <1>14, <1>0 DEF vars, verification, OverForGood
  <2> QED
    BY <2>1, <2>2, <2>3, <2>4, <2>5 DEF VerificationInv
<1> QED
  BY <1>1, <1>2, <1>3, <1>4, <1>5, <1>6, <1>7, <1>8, <1>9, <1>10, <1>11, <1>12, <1>13,
     <1>14 DEF Next, Work

\* VerificationInv holds in every reachable state.
LEMMA VerificationInvariant == ASSUME VerificationAssumption PROVE Spec => []VerificationInv
<1> QED
  BY InitVerification, StepVerification, PTL DEF Spec

-----------------------------------------------------------------------------
\* Every variable of the verification keeps its type.
THEOREM VerificationTypeCorrect == ASSUME VerificationAssumption PROVE Spec => []TypeOK
<1>1. VerificationInv => TypeOK
  BY DEF VerificationInv
<1> QED
  BY <1>1, VerificationInvariant, PTL

\* All sessions a context ever has are for one principal and one configuration:
\* whoever signs in, edits the file or panics while a verification is in flight,
\* a request that outlives several renewals never changes hands.
THEOREM OnePrincipal == ASSUME VerificationAssumption PROVE Spec => []SessionsAgree
<1>1. VerificationInv => SessionsAgree
  BY DEF VerificationAssumption, VerificationInv, TypeOK, Pinned, Sessions, SessionsAgree
<1> QED
  BY <1>1, VerificationInvariant, PTL

\* A context that anyone found changed is never used again: verifications in flight
\* install nothing and no caller gets past its fence.
THEOREM NeverUsedAgain == ASSUME VerificationAssumption PROVE Spec => InvalidatedForGood
<1> DEFINE Kept ==
      invalidated =>
        /\ invalidated' /\ session' = NoSession
        /\ \A c \in Callers : caller'[c] = "using" => caller[c] = "using"
<1>1. VerificationInv /\ [Next]_vars => [Kept]_verification
  <2> SUFFICES ASSUME VerificationInv, Next, invalidated
               PROVE  /\ invalidated' /\ session' = NoSession
                      /\ \A c \in Callers : caller'[c] = "using" => caller[c] = "using"
    BY DEF vars
  <2> USE DEF VerificationInv, TypeOK, OverForGood, NoSession, shared, world, flightVars,
              callerVars, PCs
  <2>1. CASE Work \/ Panic
    BY <2>1 DEF Work, Panic, ReadConfig, Examine, GateCredentials, GateIdentity, Gate, Resolve,
                Identify, Reread, Install, Running, Fail, FailForGood, Publish, Invalidate,
                Proceed
  <2>2. CASE World
    BY <2>2 DEF World, Reconfigure, Age
  <2>3. ASSUME NEW c \in Callers,
               Join(c) \/ Receive(c) \/ Compare(c) \/ Fence(c) \/ Revalidate(c) \/ Leave(c)
        PROVE  /\ invalidated' /\ session' = NoSession
               /\ \A d \in Callers : caller'[d] = "using" => caller[d] = "using"
    BY <2>3 DEF Join, Receive, Compare, Fence, Revalidate, Leave, Goto, Out, Invalidate
  <2> QED
    BY <2>1, <2>2, <2>3 DEF Next
<1> QED
  BY <1>1, VerificationInvariant, PTL DEF Spec, InvalidatedForGood
=============================================================================
