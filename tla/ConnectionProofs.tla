-------------------------- MODULE ConnectionProofs --------------------------
(***************************************************************************)
(* Proofs about Connection, for any requests, selections, scopes and       *)
(* settings, any number of edits and any limits.                           *)
(*                                                                         *)
(* The selected account is right because every step that outdates it also  *)
(* forgets it, and because a selection carries the number of its attempt,  *)
(* which its context was made with (HasContext).  No context is made       *)
(* before settings were observed, so the first settings, which forget      *)
(* nothing, find nothing (Configured).                                     *)
(*                                                                         *)
(* A result is not delivered late because what outdates it cannot be       *)
(* undone (Progress): settings, attempts and policies are only counted up, *)
(* and the account selected next is none that a request works under        *)
(* (SelectionsApart); and because nothing late comes into the cache        *)
(* (CacheSound).  A reservation is found because a context nobody     *)
(* holds any more is never held again (LeasesRight), and because while the *)
(* settings are unreadable no context is of the latest ones                *)
(* (FailedForgets).                                                        *)
(***************************************************************************)
EXTENDS Connection, TLAPS

Places ==
  Ends \cup {"idle", "select", "publish", "fail", "resolve", "verify", "verified", "permitted",
            "lookup", "hit", "running", "tick", "ended", "compare", "report", "insert"}
Readings == Settings \cup {Broken, None, "observed", "swept", "failed"}
Context == [scope : Pins \cup {Selected}, revision : Nat, attempt : Nat]

LocalTyped ==
  /\ pc \in [Actors -> Places] /\ reading \in [Actors -> Readings] /\ seen \in [Actors -> Nat]
  /\ ctx \in [Actors -> Nat] /\ inherited \in [Actors -> Nat]

StateTyped ==
  /\ saved \in Settings \cup {Broken}
  /\ revision \in Nat /\ attempt \in Nat /\ contexts \in Seq(Context)

\* From its resolution to its end a request works under a context; a selection's is
\* the one its attempt made.
Placed(a) == pc[a] \notin {"idle", "resolve", "select"} \cup Ends
HasContext ==
  \A a \in Actors : Placed(a) =>
    /\ ctx[a] \in DOMAIN contexts
    /\ a \in Selections => contexts[ctx[a]].attempt = inherited[a]

Configured ==
  /\ observed = None => contexts = <<>>
  /\ \A a \in Actors : reading[a] = "observed" => observed # None

\* The selected account is of the latest attempt and settings, and shown if there is one.
SelectionRight ==
  /\ active # 0 => /\ active \in DOMAIN contexts
                   /\ contexts[active].attempt = attempt /\ contexts[active].revision = revision
  /\ (active # 0) <=> (status = "verified")

\* Pinned contexts are of the latest settings, one for each scope.
PinnedRight ==
  /\ pending \subseteq DOMAIN contexts /\ overrides \subseteq DOMAIN contexts
  /\ \A id \in overrides : contexts[id].revision = revision
  /\ \A id, other \in overrides : contexts[id].scope = contexts[other].scope => id = other

ConnectionInv ==
  LocalTyped /\ StateTyped /\ HasContext /\ Configured /\ SelectionRight /\ PinnedRight

-----------------------------------------------------------------------------
(* What a step does to the request that takes it *)

\* Only a moves, and gets no context.
LocalStep(a) ==
  /\ LocalTyped'
  /\ \A b \in Actors \ {a} :
       /\ pc'[b] = pc[b] /\ reading'[b] = reading[b]
       /\ ctx'[b] = ctx[b] /\ inherited'[b] = inherited[b]
  /\ Placed(a)' => Placed(a) /\ ctx'[a] = ctx[a] /\ inherited'[a] = inherited[a]
  /\ reading'[a] = "observed" => reading[a] = "observed"

\* A request that ends has no context any more.
LEMMA EndIsLocal ==
  ASSUME LocalTyped, NEW a \in Actors, NEW how \in Ends, End(a, how) PROVE LocalStep(a)
<1>1. None # "observed" /\ None \in Readings
  BY ConnectionAssumption DEF ConnectionAssumption, Readings
<1>2. LocalTyped'
  <2>1. how \in Places
    BY DEF Places
  <2>2. pc' \in [Actors -> Places] /\ reading' \in [Actors -> Readings]
    BY <1>1, <2>1 DEF LocalTyped, End, Goto
  <2>3. seen' \in [Actors -> Nat] /\ ctx' \in [Actors -> Nat] /\ inherited' \in [Actors -> Nat]
    BY DEF LocalTyped, End
  <2> QED
    BY <2>2, <2>3 DEF LocalTyped
<1> QED
  BY <1>1, <1>2 DEF LocalStep, LocalTyped, End, Goto, Placed, Ends

\* A request that goes on keeps what it has.
LEMMA ContinueIsLocal ==
  ASSUME LocalTyped, NEW a \in Actors, NEW to \in Places, Continue(a, to),
         Placed(a) \/ to \in {"resolve", "select"}, UNCHANGED <<ctx, inherited>>,
         seen' = seen \/ seen' = [seen EXCEPT ![a] = 0]
  PROVE  LocalStep(a)
<1>1. None # "observed" /\ None \in Readings
  BY ConnectionAssumption DEF ConnectionAssumption, Readings
<1>2. LocalTyped'
  BY <1>1 DEF LocalTyped, Continue, Goto
<1> QED
  BY <1>1, <1>2 DEF LocalStep, LocalTyped, Continue, Goto, Placed

\* A request that only reads is where it was.
LEMMA ReadingIsLocal ==
  ASSUME LocalTyped, NEW a \in Actors, NEW what \in Readings \ {"observed"},
         reading' = [reading EXCEPT ![a] = what], UNCHANGED <<pc, ctx, inherited, seen>>
  PROVE  LocalStep(a)
BY DEF LocalStep, LocalTyped, Placed

\* A request that moves without getting a context leaves those of all others alone.
LEMMA LocalKeeps ==
  ASSUME ConnectionInv, NEW a \in Actors, LocalStep(a), contexts' = contexts,
         observed' = observed \/ observed' # None
  PROVE  LocalTyped' /\ HasContext' /\ Configured'
<1>1. LocalTyped'
  BY DEF LocalStep
<1>2. HasContext'
  BY DEF ConnectionInv, LocalStep, HasContext, Placed
<1>3. Configured'
  BY DEF ConnectionInv, LocalStep, Configured
<1> QED
  BY <1>1, <1>2, <1>3

-----------------------------------------------------------------------------
(* What it does to the connection *)

\* Steps that leave the connection alone.
LEMMA QuietStep ==
  ASSUME ConnectionInv, NEW a \in Actors, LocalStep(a),
         UNCHANGED <<saved, connection, contexts>>
  PROVE  ConnectionInv'
<1>1. LocalTyped' /\ HasContext' /\ Configured'
  BY LocalKeeps DEF connection
<1>2. StateTyped' /\ SelectionRight' /\ PinnedRight'
  BY DEF ConnectionInv, StateTyped, SelectionRight, PinnedRight, connection, selection
<1> QED
  BY <1>1, <1>2 DEF ConnectionInv

\* Giving up on a context forgets it wherever it is.
LEMMA InvalidatingStep ==
  ASSUME ConnectionInv, NEW a \in Actors, LocalStep(a), NEW id, InvalidateContext(id),
         UNCHANGED <<saved, contexts>>
  PROVE  ConnectionInv'
<1>1. LocalTyped' /\ HasContext' /\ Configured'
  BY LocalKeeps DEF InvalidateContext
<1>2. StateTyped' /\ SelectionRight'
  BY DEF ConnectionInv, StateTyped, SelectionRight, InvalidateContext
<1>3. PinnedRight'
  BY DEF ConnectionInv, PinnedRight, InvalidateContext
<1> QED
  BY <1>1, <1>2, <1>3 DEF ConnectionInv

\* A failed validation gives up on the context or leaves the connection alone.
LEMMA InvalidatedStep ==
  ASSUME ConnectionInv, NEW r \in Requests, LocalStep(r), Invalidated(r),
         UNCHANGED <<saved, contexts>>
  PROVE  ConnectionInv'
<1>1. r \in Actors
  BY DEF Actors
<1>2. CASE InvalidateContext(ctx[r])
  BY <1>1, <1>2, InvalidatingStep
<1>3. CASE UNCHANGED connection
  BY <1>1, <1>3, QuietStep
<1> QED
  BY <1>2, <1>3 DEF Invalidated

\* A new context has a number of its own, and the others keep theirs.
LEMMA NewContextAdded ==
  ASSUME StateTyped, NEW scope \in Pins \cup {Selected}, NEW rev \in Nat, NEW att \in Nat,
         NewContext(scope, rev, att)
  PROVE  /\ contexts' \in Seq(Context) /\ Len(contexts') \in DOMAIN contexts'
         /\ Len(contexts') \in Nat \ {0} /\ Len(contexts') \notin DOMAIN contexts
         /\ DOMAIN contexts' = DOMAIN contexts \cup {Len(contexts')}
         /\ \A id \in DOMAIN contexts : contexts'[id] = contexts[id]
         /\ contexts'[Len(contexts')] = [scope |-> scope, revision |-> rev, attempt |-> att]
BY DEF StateTyped, NewContext, Context

-----------------------------------------------------------------------------
(* Reading the settings: Refresh *)

\* No settings were observed and no context was made.
LEMMA InitConnection == Init => ConnectionInv
<1> SUFFICES ASSUME Init PROVE ConnectionInv
  OBVIOUS
<1>1. None \in Readings /\ None # "observed" /\ FirstSettings \in Settings
  BY ConnectionAssumption DEF ConnectionAssumption, Readings
<1>2. LocalTyped
  BY <1>1 DEF Init, LocalTyped, Places
<1>3. StateTyped
  BY <1>1 DEF Init, StateTyped
<1>4. HasContext /\ Configured
  BY <1>1 DEF Init, HasContext, Placed, Configured
<1>5. SelectionRight /\ PinnedRight
  BY DEF Init, SelectionRight, PinnedRight
<1> QED
  BY <1>2, <1>3, <1>4, <1>5 DEF ConnectionInv

\* What is read is not observed yet.
LEMMA LoadStep == ASSUME ConnectionInv, NEW a \in Actors, Load(a) PROVE ConnectionInv'
<1>1. saved \in Readings \ {"observed"}
  BY ConnectionAssumption DEF ConnectionAssumption, ConnectionInv, StateTyped, Readings
<1>2. LocalStep(a)
  BY <1>1, ReadingIsLocal DEF Load, ConnectionInv
<1> QED
  BY <1>2, QuietStep DEF Load, files

\* New settings forget all that was verified under others; the first ones find nothing.
LEMMA ObserveStep == ASSUME ConnectionInv, NEW a \in Actors, Observe(a) PROVE ConnectionInv'
<1>0. LocalTyped /\ StateTyped /\ HasContext /\ Configured /\ SelectionRight /\ PinnedRight
  BY DEF ConnectionInv
<1>1. /\ reading[a] # "observed" /\ observed' # None
      /\ revision' \in Nat /\ attempt' \in Nat /\ "observed" \in Readings
  BY <1>0, ConnectionAssumption
  DEF ConnectionAssumption, Observe, StateTyped, selection, Readings
<1>2. LocalTyped'
  <2>1. reading' \in [Actors -> Readings]
    BY <1>0, <1>1 DEF Observe, LocalTyped
  <2>2. seen' \in [Actors -> Nat]
    BY <1>0, <1>1 DEF Observe, LocalTyped
  <2> QED
    BY <1>0, <2>1, <2>2 DEF Observe, LocalTyped
<1>3. StateTyped' /\ HasContext'
  BY <1>0, <1>1 DEF Observe, StateTyped, HasContext, Placed, files
<1>4. Configured'
  BY <1>0, <1>1 DEF Observe, Configured, LocalTyped
<1>5. SelectionRight' /\ PinnedRight'
  <2>1. CASE UNCHANGED <<revision, selection, overrides, pending>>
    BY <1>0, <2>1 DEF Observe, SelectionRight, PinnedRight, selection
  <2>2. CASE observed = None /\ UNCHANGED <<selection, overrides, pending>>
    BY <1>0, <2>2 DEF Observe, Configured, SelectionRight, PinnedRight, selection
  <2>3. CASE active' = 0 /\ status' = "disconnected" /\ overrides' = {} /\ pending' = {}
    BY <2>3 DEF SelectionRight, PinnedRight
  <2> QED
    BY <2>1, <2>2, <2>3 DEF Observe
<1> QED
  BY <1>2, <1>3, <1>4, <1>5 DEF ConnectionInv

\* Settings that cannot be read sweep and then forget everything.
LEMMA UnreadableStep ==
  ASSUME ConnectionInv, NEW a \in Actors, Sweep(a) \/ InvalidateSettings(a)
  PROVE  ConnectionInv'
<1>0. LocalTyped /\ StateTyped /\ HasContext /\ Configured /\ SelectionRight /\ PinnedRight
  BY DEF ConnectionInv
<1>1. CASE Sweep(a)
  <2>1. LocalStep(a)
    BY <1>0, <1>1, ReadingIsLocal DEF Sweep, Readings
  <2> QED
    BY <1>1, <2>1, QuietStep DEF Sweep, files
<1>2. CASE InvalidateSettings(a)
  <2>1. LocalStep(a)
    <3>1. CASE End(a, "refused")
      BY <1>0, <3>1, EndIsLocal DEF Ends
    <3>2. CASE /\ reading' = [reading EXCEPT ![a] = "failed"]
               /\ UNCHANGED <<pc, seen, ctx, inherited>>
      BY <1>0, <3>2, ReadingIsLocal DEF Readings
    <3> QED
      BY <1>2, <3>1, <3>2 DEF InvalidateSettings, Unreadable
  <2>2. LocalTyped' /\ HasContext' /\ Configured'
    BY <1>2, <2>1, LocalKeeps DEF InvalidateSettings
  <2>3. StateTyped' /\ SelectionRight' /\ PinnedRight'
    BY <1>0, <1>2 DEF InvalidateSettings, StateTyped, SelectionRight, PinnedRight, files
  <2> QED
    BY <2>2, <2>3 DEF ConnectionInv
<1> QED
  BY <1>1, <1>2

-----------------------------------------------------------------------------
(* Widget requests: Fetch *)

\* A request that resolved works under the context it was given.
LEMMA GivenContext ==
  ASSUME ConnectionInv, NEW a \in Actors, Resolved(a), observed # None, observed' = observed,
         DOMAIN contexts \subseteq DOMAIN contexts',
         \A id \in DOMAIN contexts : contexts'[id] = contexts[id],
         NEW given \in DOMAIN contexts', given \in Nat, NEW n \in Nat,
         ctx' = [ctx EXCEPT ![a] = given],
         inherited' = [inherited EXCEPT ![a] = n],
         a \in Selections => contexts'[given].attempt = n
  PROVE  LocalTyped' /\ HasContext' /\ Configured'
<1>0. LocalTyped /\ HasContext /\ Configured
  BY DEF ConnectionInv
<1>1. None \in Readings /\ None # "observed"
  BY ConnectionAssumption DEF ConnectionAssumption, Readings
<1>2. LocalTyped'
  BY <1>0, <1>1 DEF LocalTyped, Resolved, Continue, Goto, Places
<1>3. HasContext'
  BY <1>0 DEF LocalTyped, HasContext, Placed, Resolved, Continue, Goto
<1>4. Configured'
  BY <1>0, <1>1 DEF LocalTyped, Configured, Resolved, Continue
<1> QED
  BY <1>2, <1>3, <1>4

\* An inheriting request takes the selected account's context.
LEMMA ResolveSelectedStep ==
  ASSUME ConnectionInv, NEW r \in Requests, ResolveSelected(r) PROVE ConnectionInv'
<1>0. /\ LocalTyped /\ StateTyped /\ Configured /\ SelectionRight /\ PinnedRight
      /\ r \in Actors /\ r \notin Selections
  BY ConnectionAssumption DEF ConnectionInv, ConnectionAssumption, Actors
<1>1. CASE active = 0
  <2>1. LocalStep(r)
    BY <1>0, <1>1, EndIsLocal DEF ResolveSelected, Ends
  <2> QED
    BY <1>0, <2>1, QuietStep DEF ResolveSelected, files
<1>2. CASE active # 0
  <2>1. observed # None /\ active \in DOMAIN contexts /\ active \in Nat /\ attempt \in Nat
    BY <1>0, <1>2 DEF ResolveSelected, Fresh, Configured, SelectionRight, StateTyped
  <2>2. LocalTyped' /\ HasContext' /\ Configured'
    BY <1>0, <1>2, <2>1, GivenContext DEF ResolveSelected, connection
  <2>3. StateTyped' /\ SelectionRight' /\ PinnedRight'
    BY <1>0 DEF ResolveSelected, StateTyped, SelectionRight, PinnedRight, connection, selection,
                files
  <2> QED
    BY <2>2, <2>3 DEF ConnectionInv
<1> QED
  BY <1>1, <1>2

\* A pinned request takes a context of its scope, or makes one, under the settings it read.
LEMMA ResolvePinnedStep ==
  ASSUME ConnectionInv, NEW r \in Requests, NEW pin \in Pins, ResolvePinned(r, pin)
  PROVE  ConnectionInv'
<1>0. /\ LocalTyped /\ StateTyped /\ Configured /\ SelectionRight /\ PinnedRight
      /\ r \in Actors /\ r \notin Selections
  BY ConnectionAssumption DEF ConnectionInv, ConnectionAssumption, Actors
<1>1. observed # None /\ observed' = observed
  BY <1>0 DEF ResolvePinned, Fresh, Configured
<1>2. /\ seen[r] \in Nat /\ inherited[r] \in Nat
      /\ inherited = [inherited EXCEPT ![r] = inherited[r]]
      /\ Len(contexts) \in Nat /\ DOMAIN contexts = 1 .. Len(contexts)
  BY <1>0 DEF LocalTyped, StateTyped
<1>3. CASE End(r, "refused") /\ UNCHANGED <<contexts, pending>>
  <2>1. LocalStep(r)
    BY <1>0, <1>3, EndIsLocal DEF Ends
  <2> QED
    BY <1>0, <1>3, <2>1, QuietStep DEF ResolvePinned, connection, files
<1>4. ASSUME NEW id \in overrides \cup pending, Resolved(r), ctx' = [ctx EXCEPT ![r] = id],
             UNCHANGED <<inherited, contexts, pending>>
      PROVE  ConnectionInv'
  <2>1. id \in DOMAIN contexts /\ id \in Nat
    BY <1>0, <1>2, <1>4 DEF PinnedRight
  <2>2. LocalTyped' /\ HasContext' /\ Configured'
    BY <1>0, <1>1, <1>2, <1>4, <2>1, GivenContext
  <2>3. StateTyped' /\ SelectionRight' /\ PinnedRight'
    BY <1>0, <1>4
    DEF ResolvePinned, StateTyped, SelectionRight, PinnedRight, selection, files
  <2> QED
    BY <2>2, <2>3 DEF ConnectionInv
<1>5. ASSUME NewContext(pin, seen[r], 0), Resolved(r), ctx' = [ctx EXCEPT ![r] = Len(contexts')],
             UNCHANGED inherited,
             pending' \subseteq pending \cup {Len(contexts')}
      PROVE  ConnectionInv'
  <2>1. /\ contexts' \in Seq(Context) /\ Len(contexts') \in DOMAIN contexts'
        /\ Len(contexts') \in Nat
        /\ DOMAIN contexts' = DOMAIN contexts \cup {Len(contexts')}
        /\ \A id \in DOMAIN contexts : contexts'[id] = contexts[id]
    BY <1>0, <1>2, <1>5, NewContextAdded
  <2>2. LocalTyped' /\ HasContext' /\ Configured'
    BY <1>0, <1>1, <1>2, <1>5, <2>1, GivenContext
  <2>3. StateTyped' /\ SelectionRight'
    BY <1>0, <2>1 DEF ResolvePinned, StateTyped, SelectionRight, selection, files
  <2>4. PinnedRight'
    <3>1. overrides' = overrides /\ revision' = revision
      BY DEF ResolvePinned
    <3>2. pending' \subseteq DOMAIN contexts'
      BY <1>0, <1>5, <2>1 DEF PinnedRight
    <3>3. \A id \in overrides : id \in DOMAIN contexts /\ contexts'[id] = contexts[id]
      BY <1>0, <2>1 DEF PinnedRight
    <3>4. overrides' \subseteq DOMAIN contexts'
      BY <2>1, <3>1, <3>3
    <3>5. \A id \in overrides' : contexts'[id].revision = revision'
      BY <1>0, <3>1, <3>3 DEF PinnedRight
    <3>6. \A id, other \in overrides' :
            contexts'[id].scope = contexts'[other].scope => id = other
      BY <1>0, <3>1, <3>3 DEF PinnedRight
    <3> QED
      BY <3>2, <3>4, <3>5, <3>6 DEF PinnedRight
  <2> QED
    BY <2>2, <2>3, <2>4 DEF ConnectionInv
<1> QED
  BY <1>3, <1>4, <1>5 DEF ResolvePinned, Matching


\* A verified pinned context takes the place of the one of its scope, and perhaps of another.
LEMMA VerifiedStep ==
  ASSUME ConnectionInv, NEW r \in Requests, Fresh(r, "verified"), Valid(r),
         Continue(r, "permitted"), UNCHANGED <<seen, ctx, inherited>>,
         UNCHANGED <<saved, revision, observed, selection, contexts>>,
         pending' \subseteq pending,
         overrides' \subseteq {id \in overrides : contexts[id].scope # contexts[ctx[r]].scope}
                               \cup {ctx[r]}
  PROVE  ConnectionInv'
<1>0. /\ LocalTyped /\ StateTyped /\ HasContext /\ SelectionRight /\ PinnedRight
      /\ r \in Actors /\ "permitted" \in Places /\ Placed(r)
  BY DEF ConnectionInv, Actors, Places, Fresh, Placed, Ends
<1>1. LocalStep(r)
  BY <1>0, ContinueIsLocal
<1>2. LocalTyped' /\ HasContext' /\ Configured'
  BY <1>0, <1>1, LocalKeeps
<1>3. StateTyped' /\ SelectionRight'
  BY <1>0 DEF StateTyped, SelectionRight, selection
<1>4. ctx[r] \in DOMAIN contexts /\ contexts[ctx[r]].revision = revision
  BY <1>0 DEF HasContext, Valid, Authorized
<1>5. PinnedRight'
  BY <1>0, <1>4 DEF PinnedRight
<1> QED
  BY <1>2, <1>3, <1>5 DEF ConnectionInv

\* A request that ends, or goes on with what it has.
LEMMA MovedIsLocal ==
  ASSUME LocalTyped, NEW r \in Actors,
         \/ \E how \in Ends : End(r, how)
         \/ /\ \E to \in Places : Continue(r, to)
            /\ Placed(r) /\ UNCHANGED <<seen, ctx, inherited>>
  PROVE  LocalStep(r)
BY EndIsLocal, ContinueIsLocal

\* Every other step of a widget request.
LEMMA FetchStep == ASSUME ConnectionInv, NEW r \in Requests, Fetch(r) PROVE ConnectionInv'
<1>0. LocalTyped /\ r \in Actors /\ {"refused", "delivered"} = Ends
  BY DEF ConnectionInv, Actors, Ends
<1> USE DEF files
<1>1. CASE Begin(r)
  <2>1. LocalStep(r)
    BY <1>0, <1>1, ContinueIsLocal DEF Begin, Places
  <2> QED
    BY <1>0, <1>1, <2>1, QuietStep DEF Begin
<1>2. CASE ResolveSelected(r) \/ \E pin \in Pins : ResolvePinned(r, pin)
  BY <1>2, ResolveSelectedStep, ResolvePinnedStep
<1>3. CASE GiveUp(r) \/ CleanupFails(r)
  <2>1. LocalStep(r)
    BY <1>0, <1>3, MovedIsLocal DEF GiveUp, CleanupFails
  <2> QED
    BY <1>0, <1>3, <2>1, QuietStep DEF GiveUp, CleanupFails
<1>4. CASE VerifyFails(r)
  <2>1. LocalStep(r)
    BY <1>0, <1>4, MovedIsLocal DEF VerifyFails
  <2> QED
    BY <1>0, <1>4, <2>1, InvalidatingStep DEF VerifyFails
<1>5. CASE VerifySucceeds(r)
  <2>1. LocalStep(r)
    BY <1>0, <1>5, MovedIsLocal DEF VerifySucceeds, Places, Placed, Ends
  <2> QED
    BY <1>0, <1>5, <2>1, QuietStep DEF VerifySucceeds
<1>6. ASSUME NEW at, Invalid(r, at) PROVE ConnectionInv'
  <2>1. LocalStep(r)
    BY <1>0, <1>6, MovedIsLocal DEF Invalid
  <2> QED
    BY <1>6, <2>1, InvalidatedStep DEF Invalid
<1>7. CASE Verified(r)
  <2>1. CASE Invalid(r, "verified")
    BY <2>1, <1>6
  <2>2. CASE ~Invalid(r, "verified")
    <3>1. /\ Fresh(r, "verified") /\ Valid(r) /\ Continue(r, "permitted")
          /\ UNCHANGED <<seen, ctx, inherited, saved, revision, observed, selection, contexts>>
      BY <1>7, <2>2 DEF Verified
    <3>2. CASE Pinned(r)
      <4> DEFINE others == {id \in overrides : contexts[id].scope # contexts[ctx[r]].scope}
      <4>1. pending' \subseteq pending /\ overrides' \subseteq others \cup {ctx[r]}
        BY <1>7, <2>2, <3>2 DEF Verified
      <4> QED
        BY <3>1, <4>1, VerifiedStep
    <3>3. CASE ~Pinned(r)
      <4>1. LocalStep(r)
        BY <1>0, <3>1, MovedIsLocal DEF Fresh, Places, Placed, Ends
      <4>2. UNCHANGED <<saved, connection, contexts>>
        BY <1>7, <2>2, <3>3 DEF Verified, connection
      <4> QED
        BY <1>0, <4>1, <4>2, QuietStep
    <3> QED
      BY <3>2, <3>3
  <2> QED
    BY <2>1, <2>2
<1>8. CASE Permitted(r)
  <2>1. LocalStep(r)
    BY <1>0, <1>8, MovedIsLocal DEF Permitted, Places, Placed, Ends
  <2> QED
    BY <1>0, <1>8, <2>1, QuietStep DEF Permitted
<1>9. CASE Lookup(r)
  <2>1. LocalStep(r)
    BY <1>0, <1>9, MovedIsLocal DEF Lookup, Places, Placed, Ends
  <2> QED
    BY <1>0, <1>9, <2>1, QuietStep DEF Lookup
<1>10. CASE Hit(r)
  <2>1. CASE Invalid(r, "hit")
    BY <2>1, <1>6
  <2>2. CASE ~Invalid(r, "hit")
    <3>1. LocalStep(r)
      BY <1>0, <1>10, <2>2, MovedIsLocal DEF Hit
    <3> QED
      BY <1>0, <1>10, <2>2, <3>1, QuietStep DEF Hit
  <2> QED
    BY <2>1, <2>2
<1>11. CASE StartTick(r)
  <2>1. LocalStep(r)
    BY <1>0, <1>11, MovedIsLocal DEF StartTick, Places, Placed, Ends
  <2> QED
    BY <1>0, <1>11, <2>1, QuietStep DEF StartTick
<1>12. CASE Tick(r)
  <2>1. LocalStep(r)
    BY <1>0, <1>12, MovedIsLocal DEF Tick, Places, Placed, Ends
  <2>2. UNCHANGED <<saved, contexts>> /\ (Invalidated(r) \/ UNCHANGED connection)
    BY <1>12 DEF Tick
  <2> QED
    BY <1>0, <2>1, <2>2, QuietStep, InvalidatedStep
<1>13. CASE WorkEnds(r)
  <2>1. LocalStep(r)
    BY <1>0, <1>13, MovedIsLocal DEF WorkEnds, Places, Placed, Ends
  <2> QED
    BY <1>0, <1>13, <2>1, QuietStep DEF WorkEnds
<1>14. CASE Ended(r)
  <2>1. CASE Invalid(r, "ended")
    BY <2>1, <1>6
  <2>2. CASE ~Invalid(r, "ended")
    <3>1. LocalStep(r)
      BY <1>0, <1>14, <2>2, MovedIsLocal DEF Ended, Fresh, Places, Placed, Ends
    <3> QED
      BY <1>0, <1>14, <2>2, <3>1, QuietStep DEF Ended
  <2> QED
    BY <2>1, <2>2
<1>15. CASE Compare(r)
  <2>1. LocalStep(r)
    BY <1>0, <1>15, MovedIsLocal DEF Compare, Places, Placed, Ends
  <2> QED
    BY <1>0, <1>15, <2>1, QuietStep DEF Compare
<1>16. CASE Insert(r)
  <2>1. LocalStep(r)
    BY <1>0, <1>16, MovedIsLocal DEF Insert
  <2> QED
    BY <1>0, <1>16, <2>1, QuietStep DEF Insert
<1>17. CASE Cancel(r)
  <2>1. LocalStep(r)
    BY <1>0, <1>17 DEF Cancel, local, LocalStep, LocalTyped, Placed
  <2> QED
    BY <1>0, <1>17, <2>1, QuietStep DEF Cancel
<1> QED
  BY <1>1, <1>2, <1>3, <1>4, <1>5, <1>7, <1>8, <1>9, <1>10, <1>11, <1>12, <1>13, <1>14,
     <1>15, <1>16, <1>17
  DEF Fetch

-----------------------------------------------------------------------------
(* Account selection and the world *)

\* A new attempt forgets the selected account and makes its own context.
LEMMA BeginAttemptStep ==
  ASSUME ConnectionInv, NEW s \in Selections, BeginAttempt(s) PROVE ConnectionInv'
<1>0. /\ LocalTyped /\ StateTyped /\ Configured /\ SelectionRight /\ PinnedRight
      /\ s \in Actors /\ "refused" \in Ends
  BY DEF ConnectionInv, Actors, Ends
<1>1. CASE End(s, "refused") /\ UNCHANGED <<selection, contexts>>
  <2>1. LocalStep(s)
    BY <1>0, <1>1, EndIsLocal
  <2> QED
    BY <1>0, <1>1, <2>1, QuietStep DEF BeginAttempt, connection, files
<1>2. CASE ~(End(s, "refused") /\ UNCHANGED <<selection, contexts>>)
  <2>1. /\ attempt' = attempt + 1 /\ active' = 0 /\ status' = "verifying"
        /\ NewContext(Selected, seen[s], attempt') /\ Resolved(s)
        /\ ctx' = [ctx EXCEPT ![s] = Len(contexts')]
        /\ inherited' = [inherited EXCEPT ![s] = attempt']
        /\ UNCHANGED <<saved, revision, observed, overrides, pending>>
    BY <1>2 DEF BeginAttempt, files
  <2>2. observed # None /\ seen[s] \in Nat /\ attempt' \in Nat
    BY <1>0, <2>1 DEF BeginAttempt, Fresh, Configured, LocalTyped, StateTyped
  <2>3. /\ contexts' \in Seq(Context) /\ Len(contexts') \in DOMAIN contexts'
        /\ Len(contexts') \in Nat
        /\ DOMAIN contexts' = DOMAIN contexts \cup {Len(contexts')}
        /\ \A id \in DOMAIN contexts : contexts'[id] = contexts[id]
        /\ contexts'[Len(contexts')].attempt = attempt'
    <3>1. PICK n \in Nat : n = attempt'
      BY <2>2
    <3>2. Selected \in Pins \cup {Selected} /\ NewContext(Selected, seen[s], n)
      BY <2>1, <3>1
    <3>3. /\ contexts' \in Seq(Context) /\ Len(contexts') \in DOMAIN contexts'
          /\ Len(contexts') \in Nat
          /\ DOMAIN contexts' = DOMAIN contexts \cup {Len(contexts')}
          /\ \A id \in DOMAIN contexts : contexts'[id] = contexts[id]
      BY <1>0, <2>2, <3>2, NewContextAdded
    <3>4. contexts'[Len(contexts')] = [scope |-> Selected, revision |-> seen[s], attempt |-> n]
      BY <1>0, <2>2, <3>2, NewContextAdded
    <3>5. contexts'[Len(contexts')].attempt = n
      BY <3>4
    <3> QED
      BY <3>1, <3>3, <3>5
  <2>4. LocalTyped' /\ HasContext' /\ Configured'
    BY <1>0, <2>1, <2>2, <2>3, GivenContext
  <2>5. StateTyped' /\ SelectionRight'
    BY <1>0, <2>1, <2>2, <2>3 DEF StateTyped, SelectionRight
  <2>6. PinnedRight'
    <3>1. \A id \in overrides : id \in DOMAIN contexts /\ contexts'[id] = contexts[id]
      BY <1>0, <2>3 DEF PinnedRight
    <3>2. pending' \subseteq DOMAIN contexts' /\ overrides' \subseteq DOMAIN contexts'
      BY <1>0, <2>1, <2>3 DEF PinnedRight
    <3>3. \A id \in overrides' : contexts'[id].revision = revision'
      BY <1>0, <2>1, <3>1 DEF PinnedRight
    <3>4. \A id, other \in overrides' :
            contexts'[id].scope = contexts'[other].scope => id = other
      BY <1>0, <2>1, <3>1 DEF PinnedRight
    <3> QED
      BY <3>2, <3>3, <3>4 DEF PinnedRight
  <2> QED
    BY <2>4, <2>5, <2>6 DEF ConnectionInv
<1> QED
  BY <1>1, <1>2

\* An attempt's end is the state's only if no other began.
LEMMA AttemptEnds ==
  ASSUME ConnectionInv, NEW s \in Selections, Publish(s) \/ FailAttempt(s) PROVE ConnectionInv'
<1>0. /\ LocalTyped /\ StateTyped /\ HasContext /\ Configured /\ SelectionRight /\ PinnedRight
      /\ s \in Actors /\ {"refused", "delivered"} = Ends
  BY DEF ConnectionInv, Actors, Ends
<1> USE DEF files
<1>1. /\ LocalStep(s)
      /\ UNCHANGED <<saved, contexts, revision, observed, attempt, overrides, pending>>
  <2>1. CASE Publish(s)
    <3>1. \/ \E how \in Ends : End(s, how)
          \/ Continue(s, "fail") /\ UNCHANGED <<seen, ctx, inherited>>
      BY <1>0, <2>1 DEF Publish
    <3>2. Placed(s) /\ "fail" \in Places
      BY <2>1 DEF Publish, Fresh, Placed, Ends, Places
    <3> QED
      BY <1>0, <2>1, <3>1, <3>2, MovedIsLocal DEF Publish
  <2>2. CASE FailAttempt(s)
    BY <1>0, <2>2, EndIsLocal DEF FailAttempt
  <2> QED
    BY <2>1, <2>2
<1>2. LocalTyped' /\ HasContext' /\ Configured'
  BY <1>0, <1>1, LocalKeeps
<1>3. StateTyped' /\ PinnedRight'
  BY <1>0, <1>1 DEF StateTyped, PinnedRight
<1>4. SelectionRight'
  <2>1. CASE Publish(s)
    <3>1. ctx[s] \in DOMAIN contexts /\ contexts[ctx[s]].attempt = inherited[s] /\ ctx[s] # 0
      BY <1>0, <2>1 DEF Publish, Fresh, HasContext, Placed, Ends, StateTyped
    <3> QED
      BY <1>0, <1>1, <2>1, <3>1 DEF Publish, SelectionRight
  <2>2. CASE FailAttempt(s)
    BY <1>0, <1>1, <2>2 DEF FailAttempt, SelectionRight
  <2> QED
    BY <2>1, <2>2
<1> QED
  BY <1>2, <1>3, <1>4 DEF ConnectionInv

\* Every step of an account selection.
LEMMA SetAccountStep ==
  ASSUME ConnectionInv, NEW s \in Selections, SetAccount(s) PROVE ConnectionInv'
<1>0. LocalTyped /\ s \in Actors
  BY DEF ConnectionInv, Actors
<1>1. CASE Select(s)
  <2>1. LocalStep(s)
    BY <1>0, <1>1, ContinueIsLocal DEF Select, Places
  <2> QED
    BY <1>0, <1>1, <2>1, QuietStep DEF Select, files
<1>2. CASE Decide(s)
  <2>1. LocalStep(s)
    BY <1>0, <1>2, ContinueIsLocal DEF Decide, Places, Placed, Ends
  <2> QED
    BY <1>0, <1>2, <2>1, QuietStep DEF Decide, files
<1> QED
  BY <1>1, <1>2, BeginAttemptStep, AttemptEnds DEF SetAccount

\* Edits of files, and leases that go.
LEMMA WorldStep ==
  ASSUME ConnectionInv, World \/ \E id \in dropping : DropLease(id) PROVE ConnectionInv'
<1>0. LocalTyped /\ StateTyped /\ HasContext /\ Configured /\ SelectionRight /\ PinnedRight
  BY DEF ConnectionInv
<1>1. /\ UNCHANGED <<pc, reading, seen, ctx, inherited, contexts>>
      /\ UNCHANGED <<revision, observed, selection, overrides>>
      /\ pending' \subseteq pending /\ saved' \in Settings \cup {Broken}
  BY <1>0
  DEF World, EditSettings, EditPolicy, Reconfigure, DropLease, files, local, connection,
     StateTyped
<1>2. LocalTyped' /\ HasContext' /\ Configured'
  BY <1>0, <1>1 DEF LocalTyped, HasContext, Placed, Configured
<1>3. StateTyped' /\ SelectionRight' /\ PinnedRight'
  BY <1>0, <1>1 DEF StateTyped, SelectionRight, PinnedRight, selection
<1> QED
  BY <1>2, <1>3 DEF ConnectionInv

\* Every step keeps ConnectionInv.
LEMMA StepConnection == ConnectionInv /\ [Next]_vars => ConnectionInv'
<1> SUFFICES ASSUME ConnectionInv, [Next]_vars PROVE ConnectionInv'
  OBVIOUS
<1>1. ASSUME NEW a \in Actors, Refresh(a) PROVE ConnectionInv'
  BY <1>1, LoadStep, ObserveStep, UnreadableStep DEF Refresh
<1>2. CASE UNCHANGED vars
  BY <1>2
  DEF vars, files, connection, selection, local, ConnectionInv, LocalTyped, StateTyped,
      HasContext, Placed, Configured, SelectionRight, PinnedRight
<1> QED
  BY <1>1, <1>2, FetchStep, SetAccountStep, WorldStep DEF Next

\* Whatever order attempts end in and whoever sees new settings first, the selected
\* account was verified by the latest attempt under the latest settings, and no pinned
\* context of older settings, nor two of one scope, are kept.
THEOREM SelectionIsTheLatest == Spec => []SelectionIsLatest
<1>1. ConnectionInv => SelectionIsLatest
  BY DEF ConnectionInv, SelectionRight, PinnedRight, SelectionIsLatest
<1> QED
  BY <1>1, InitConnection, StepConnection, PTL DEF Spec

-----------------------------------------------------------------------------
(* What was overtaken is not delivered, what is being verified is found *)

\* Settings, attempts and policies are only counted up, and nobody is ahead of them.
Counted ==
  /\ policyRevision \in Nat /\ permit \in [Actors -> Nat] /\ lease \in [Actors -> BOOLEAN]
  /\ \A id \in DOMAIN contexts : contexts[id].revision <= revision
  /\ \A a \in Actors :
       seen[a] <= revision /\ inherited[a] <= attempt /\ permit[a] <= policyRevision

\* The context of an account selection is nobody else's until it is published.
SelectionsApart ==
  \A s \in Selections : Placed(s) =>
    /\ ctx[s] # active /\ ctx[s] \notin overrides \cup pending
    /\ \A b \in Actors \ {s} : Placed(b) => ctx[b] # ctx[s]

\* A result that came too late meets the check that refuses it.
Doomed(r) ==
  /\ pc[r] \in {"hit", "ended", "compare", "report", "refused"}
  /\ pc[r] = "hit" => Late(r)
  /\ pc[r] = "ended" => Late(r) \/ policyRevision # permit[r]
  /\ pc[r] \in {"compare", "report"} => policyRevision # permit[r]
LateDoomed == outdated \subseteq Requests /\ \A r \in outdated : Doomed(r)

\* The cache holds what was in time, under the context and the policy it was made under.
CacheSound == \A entry \in cache : entry.key = entry.origin /\ ~entry.late

\* While settings are unreadable nothing is of the latest ones.
FailedForgets ==
  settingsFailed =>
    /\ \A id \in DOMAIN contexts : contexts[id].revision < revision
    /\ \A a \in Actors : seen[a] < revision

\* A lease that is being dropped was the last of its context, and no other comes.
LeasesRight ==
  /\ \A a \in Actors : lease[a] => Placed(a)
  /\ dropping \subseteq DOMAIN contexts /\ \A id \in dropping : ~Live(id)

StandingInv == Counted /\ SelectionsApart /\ FailedForgets /\ LeasesRight /\ ReservationsFindable
AuthorityInv == StandingInv /\ LateDoomed /\ CacheSound


-----------------------------------------------------------------------------
(* What every step does: Progress *)

\* Nothing is counted down, no context changes, and only a context that was being
\* selected becomes the selected one.
Progress ==
  /\ revision' \in Nat /\ revision <= revision' /\ attempt' \in Nat /\ attempt <= attempt'
  /\ policyRevision' \in Nat /\ policyRevision <= policyRevision'
  /\ changed \subseteq changed'
  /\ \A id \in DOMAIN contexts : id \in DOMAIN contexts' /\ contexts'[id] = contexts[id]
  /\ active' \in {0, active} \/ \E s \in Selections : Placed(s) /\ active' = ctx[s]

Stays(a) ==
  /\ pc'[a] = pc[a] /\ seen'[a] = seen[a] /\ ctx'[a] = ctx[a]
  /\ inherited'[a] = inherited[a] /\ permit'[a] = permit[a] /\ lease'[a] = lease[a]

\* Steps that change neither the settings nor the selection make progress.
LEMMA QuietProgress ==
  ASSUME ConnectionInv, Counted, UNCHANGED <<revision, attempt, contexts>>,
         changed \subseteq changed', active' \in {0, active},
         policyRevision' \in {policyRevision, policyRevision + 1}
  PROVE  Progress
BY DEF ConnectionInv, StateTyped, Counted, Progress

\* So do the steps of a widget request ...
LEMMA FetchProgress ==
  ASSUME ConnectionInv, Counted, NEW r \in Requests, Fetch(r) PROVE Progress
<1>0. policyRevision \in Nat /\ StateTyped
  BY DEF Counted, ConnectionInv
<1>1. CASE \E pin \in Pins : ResolvePinned(r, pin)
  <2>1. PICK pin \in Pins : ResolvePinned(r, pin)
    BY <1>1
  <2>2. UNCHANGED <<revision, attempt, active, policyRevision, changed>>
    BY <2>1 DEF ResolvePinned, selection, policyView
  <2>3. contexts' = contexts \/ NewContext(pin, seen[r], 0)
    BY <2>1 DEF ResolvePinned
  <2>4. \A id \in DOMAIN contexts : id \in DOMAIN contexts' /\ contexts'[id] = contexts[id]
    <3>1. seen[r] \in Nat
      BY DEF ConnectionInv, LocalTyped, Actors
    <3> QED
      BY <1>0, <2>3, <3>1, NewContextAdded
  <2> QED
    BY <1>0, <2>2, <2>4 DEF Progress, StateTyped
<1>2. CASE ~\E pin \in Pins : ResolvePinned(r, pin)
  <2>1. UNCHANGED <<revision, attempt, contexts, changed>> /\ active' \in {0, active}
    BY <1>2
    DEF Fetch, Begin, ResolveSelected, GiveUp, VerifyFails, VerifySucceeds, Verified,
        Permitted, Lookup, Hit, StartTick, Tick, WorkEnds, CleanupFails, Ended, Compare,
        Insert, Cancel,
        Invalid, Invalidated, InvalidateContext, connection, selection
  <2>2. policyRevision' \in {policyRevision, policyRevision + 1}
    BY <1>0, <1>2
    DEF Fetch, Begin, ResolveSelected, GiveUp, VerifyFails, VerifySucceeds, Verified,
        Permitted, Lookup, Hit, StartTick, Tick, WorkEnds, CleanupFails, Ended, Compare,
        Insert, Cancel,
        Invalid, ObservePolicy, ObservePolicyCancelling, NextRevision, policyView
  <2> QED
    BY <2>1, <2>2, QuietProgress
<1> QED
  BY <1>1, <1>2

\* ... of an account selection ...
LEMMA SelectionProgress ==
  ASSUME ConnectionInv, Counted, NEW s \in Selections, SetAccount(s) PROVE Progress
<1>0. policyRevision \in Nat /\ StateTyped
  BY DEF Counted, ConnectionInv
<1>1. CASE Select(s) \/ Decide(s) \/ FailAttempt(s)
  <2>1. /\ UNCHANGED <<revision, attempt, contexts, changed, policyRevision>>
        /\ active' \in {0, active}
    BY <1>1 DEF Select, Decide, FailAttempt, connection, selection, policyView
  <2> QED
    BY <2>1, QuietProgress
<1>2. CASE Publish(s)
  <2>1. UNCHANGED <<revision, attempt, contexts, changed, policyRevision>>
    BY <1>2 DEF Publish, policyView
  <2>2. Placed(s) /\ active' \in {active, ctx[s]}
    BY <1>2 DEF Publish, Fresh, Placed, Ends
  <2> QED
    BY <1>0, <2>1, <2>2 DEF Progress, StateTyped
<1>3. CASE BeginAttempt(s)
  <2>1. /\ UNCHANGED <<revision, changed, policyRevision>> /\ active' \in {0, active}
        /\ attempt' \in {attempt, attempt + 1}
    BY <1>3 DEF BeginAttempt, policyView, selection
  <2>2. \A id \in DOMAIN contexts : id \in DOMAIN contexts' /\ contexts'[id] = contexts[id]
    BY <1>0, <1>3 DEF BeginAttempt, NewContext, StateTyped
  <2> QED
    BY <1>0, <2>1, <2>2 DEF Progress, StateTyped
<1> QED
  BY <1>1, <1>2, <1>3 DEF SetAccount

\* ... of reading the settings, and all others.
LEMMA StepProgress == ConnectionInv /\ Counted /\ [Next]_vars => Progress
<1> SUFFICES ASSUME ConnectionInv, Counted, [Next]_vars PROVE Progress
  OBVIOUS
<1>0. policyRevision \in Nat /\ StateTyped
  BY DEF Counted, ConnectionInv
<1>1. ASSUME NEW a \in Actors, Refresh(a) PROVE Progress
  <2>1. UNCHANGED <<contexts, changed, policyRevision>> /\ active' \in {0, active}
    BY <1>1
    DEF Refresh, Load, Observe, Sweep, InvalidateSettings, connection, selection, policyView
  <2>2. revision' \in {revision, revision + 1} /\ attempt' \in {attempt, attempt + 1}
    BY <1>0, <1>1
    DEF Refresh, Load, Observe, Sweep, InvalidateSettings, connection, selection, StateTyped
  <2> QED
    BY <1>0, <2>1, <2>2 DEF Progress, StateTyped
<1>2. CASE World \/ (\E id \in dropping : DropLease(id)) \/ UNCHANGED vars
  <2>1. /\ UNCHANGED <<revision, attempt, active, contexts, policyRevision>>
        /\ changed \subseteq changed'
    BY <1>2
    DEF World, EditSettings, EditPolicy, Reconfigure, DropLease, connection, selection,
        policyView, vars
  <2> QED
    BY <2>1, QuietProgress
<1> QED
  BY <1>1, <1>2, FetchProgress, SelectionProgress DEF Next


-----------------------------------------------------------------------------
(* Steps that get neither a context nor a lease: Keeps *)

Keeps(a) ==
  /\ contexts' = contexts /\ permit' \in [Actors -> Nat] /\ lease' \in [Actors -> BOOLEAN]
  /\ \A b \in Actors \ {a} : Stays(b)
  /\ Placed(a)' => Placed(a) /\ ctx'[a] = ctx[a]
  /\ pc'[a] = "verify" => pc[a] = "verify"
  /\ inherited'[a] \in {0, inherited[a]} /\ permit'[a] \in {0, permit[a], policyRevision'}
  /\ seen'[a] \in {0, seen[a], revision'}
  /\ lease'[a] => lease[a] /\ Placed(a)'
  /\ \A id \in dropping' \ dropping :
       /\ lease[a] /\ id = ctx[a] /\ ~lease'[a]
       /\ \A b \in Requests \ {a} : ~(lease[b] /\ ctx[b] = id)

\* What such a step leaves of the connection: others' pinned contexts of the latest
\* settings, unless they are settled.
Settles(a) ==
  /\ settled \subseteq settled'
  /\ \/ active' \in {0, active}
     \/ a \in Selections /\ Placed(a) /\ ~Placed(a)' /\ active' = ctx[a]
  /\ \A id \in overrides' \cup pending' :
       id \in overrides \cup pending \/ (a \in Requests /\ Placed(a) /\ id = ctx[a])
  /\ \A id \in pending : id \in pending' \cup settled' \/ contexts[id].revision < revision'
  /\ settingsFailed' => /\ seen'[a] \in {0, seen[a]}
                        /\ revision < revision' \/ (settingsFailed /\ revision' = revision)

\* A request that ends keeps nothing; whoever was the last gives up its lease.
LEMMA EndKeeps ==
  ASSUME ConnectionInv, StandingInv, NEW a \in Actors, NEW how \in Ends, End(a, how),
         contexts' = contexts
  PROVE  Keeps(a) /\ pc'[a] = how /\ ~Placed(a)' /\ seen'[a] = 0
<1>0. /\ LocalTyped /\ permit \in [Actors -> Nat] /\ lease \in [Actors -> BOOLEAN]
  BY DEF ConnectionInv, StandingInv, Counted
<1>1. /\ pc' = [pc EXCEPT ![a] = how] /\ seen' = [seen EXCEPT ![a] = 0]
      /\ ctx' = [ctx EXCEPT ![a] = 0] /\ inherited' = [inherited EXCEPT ![a] = 0]
      /\ permit' = [permit EXCEPT ![a] = 0] /\ lease' = [lease EXCEPT ![a] = FALSE]
  BY DEF End, Goto
<1>2. \A b \in Actors \ {a} : Stays(b)
  BY <1>0, <1>1 DEF Stays, LocalTyped
<1>3. /\ pc'[a] = how /\ seen'[a] = 0 /\ inherited'[a] = 0 /\ permit'[a] = 0 /\ ~lease'[a]
      /\ permit' \in [Actors -> Nat] /\ lease' \in [Actors -> BOOLEAN]
  BY <1>0, <1>1 DEF LocalTyped
<1>4. ~Placed(a)' /\ pc'[a] # "verify"
  BY <1>3 DEF Placed, Ends
<1>5. \A id \in dropping' \ dropping :
        lease[a] /\ id = ctx[a] /\ \A b \in Requests \ {a} : ~(lease[b] /\ ctx[b] = id)
  BY DEF End
<1> QED
  BY <1>2, <1>3, <1>4, <1>5 DEF Keeps

\* A request that goes on keeps its context and its lease.
LEMMA ContinueKeeps ==
  ASSUME ConnectionInv, StandingInv, NEW a \in Actors, NEW to \in Places \ {"verify"},
         Continue(a, to),
         Placed(a) => to \notin {"idle", "resolve", "select"} \cup Ends,
         ~Placed(a) => to \in {"resolve", "select"},
         UNCHANGED <<contexts, seen, ctx, inherited, lease, dropping>>,
         permit' = permit \/ permit' = [permit EXCEPT ![a] = policyRevision'],
         policyRevision' \in Nat
  PROVE  Keeps(a) /\ pc'[a] = to /\ seen'[a] = seen[a]
<1>0. /\ LocalTyped /\ permit \in [Actors -> Nat] /\ lease \in [Actors -> BOOLEAN]
      /\ lease[a] => Placed(a)
  BY DEF ConnectionInv, StandingInv, Counted, LeasesRight
<1>1. pc' = [pc EXCEPT ![a] = to] /\ pc'[a] = to
  BY <1>0 DEF Continue, Goto, LocalTyped
<1>2. permit' \in [Actors -> Nat] /\ permit'[a] \in {permit[a], policyRevision'}
  BY <1>0
<1>3. \A b \in Actors \ {a} : Stays(b)
  BY <1>0, <1>1 DEF Stays, LocalTyped
<1>4. (Placed(a)' <=> Placed(a)) /\ pc'[a] # "verify"
  BY <1>1 DEF Placed
<1> QED
  BY <1>0, <1>1, <1>2, <1>3, <1>4 DEF Keeps

\* So does one that only reads.
LEMMA ReadingKeeps ==
  ASSUME ConnectionInv, StandingInv, NEW a \in Actors,
         UNCHANGED <<contexts, pc, ctx, inherited, lease, permit, dropping>>,
         \/ seen' = seen
         \/ \E n \in {0, revision'} : seen' = [seen EXCEPT ![a] = n]
  PROVE  Keeps(a)
<1>0. /\ LocalTyped /\ permit \in [Actors -> Nat] /\ lease \in [Actors -> BOOLEAN]
      /\ lease[a] => Placed(a)
  BY DEF ConnectionInv, StandingInv, Counted, LeasesRight
<1>1. \A b \in Actors \ {a} : Stays(b)
  BY <1>0 DEF Stays, LocalTyped
<1>2. seen'[a] \in {0, seen[a], revision'} /\ (Placed(a)' <=> Placed(a))
  BY <1>0 DEF LocalTyped, Placed
<1> QED
  BY <1>0, <1>1, <1>2 DEF Keeps

\* Such a step keeps everything but the doom of what came too late, which depends on
\* the step.
LEMMA KeepsRight ==
  ASSUME ConnectionInv, StandingInv, Progress, NEW a \in Actors, Keeps(a), Settles(a)
  PROVE  StandingInv'
<1>0. /\ LocalTyped /\ StateTyped /\ HasContext /\ PinnedRight
      /\ Counted /\ SelectionsApart /\ FailedForgets /\ LeasesRight /\ ReservationsFindable
  BY DEF ConnectionInv, StandingInv
<1>1. contexts' = contexts /\ \A id \in DOMAIN contexts : id # 0 /\ contexts[id].revision \in Nat
  <2>1. \A id \in DOMAIN contexts : id # 0 /\ contexts[id] \in Context
    BY <1>0 DEF StateTyped
  <2> QED
    BY <2>1 DEF Keeps, Context
<1>2. /\ revision \in Nat /\ revision' \in Nat /\ revision <= revision'
      /\ attempt \in Nat /\ attempt' \in Nat /\ attempt <= attempt'
      /\ policyRevision \in Nat /\ policyRevision' \in Nat /\ policyRevision <= policyRevision'
  BY <1>0 DEF Progress, StateTyped, Counted
<1>3. \A b \in Actors : seen[b] \in Nat /\ inherited[b] \in Nat /\ permit[b] \in Nat
  BY <1>0 DEF LocalTyped, Counted
<1>4. Counted'
  <2>1. \A id \in DOMAIN contexts' : contexts'[id].revision <= revision'
    BY <1>0, <1>1, <1>2 DEF Counted
  <2>2. \A b \in Actors :
          seen'[b] <= revision' /\ inherited'[b] <= attempt' /\ permit'[b] <= policyRevision'
    <3>1. ASSUME NEW b \in Actors \ {a}
          PROVE  /\ seen'[b] <= revision' /\ inherited'[b] <= attempt'
                 /\ permit'[b] <= policyRevision'
      BY <1>0, <1>2, <1>3, <3>1 DEF Keeps, Stays, Counted
    <3>2. seen'[a] <= revision' /\ inherited'[a] <= attempt' /\ permit'[a] <= policyRevision'
      BY <1>0, <1>2, <1>3 DEF Keeps, Counted
    <3> QED
      BY <3>1, <3>2
  <2> QED
    BY <1>2, <2>1, <2>2 DEF Counted, Keeps
<1>5. SelectionsApart'
  <2> SUFFICES ASSUME NEW s \in Selections, Placed(s)'
               PROVE  /\ ctx'[s] # active' /\ ctx'[s] \notin overrides' \cup pending'
                      /\ \A b \in Actors \ {s} : Placed(b)' => ctx'[b] # ctx'[s]
    BY DEF SelectionsApart
  <2>1. \A b \in Actors : Placed(b)' => Placed(b) /\ ctx'[b] = ctx[b]
    BY DEF Keeps, Stays, Placed
  <2>2. s \in Actors /\ Placed(s) /\ ctx'[s] = ctx[s] /\ ctx[s] # 0 /\ s \notin Requests
    BY <1>0, <1>1, <2>1, ConnectionAssumption
    DEF HasContext, Actors, ConnectionAssumption
  <2>3. /\ ctx[s] # active /\ ctx[s] \notin overrides \cup pending
        /\ \A b \in Actors \ {s} : Placed(b) => ctx[b] # ctx[s]
    BY <1>0, <2>2 DEF SelectionsApart
  <2>4. ctx'[s] # active'
    BY <2>2, <2>3 DEF Settles
  <2>5. ctx'[s] \notin overrides' \cup pending'
    BY <2>2, <2>3 DEF Settles
  <2> QED
    BY <2>1, <2>2, <2>3, <2>4, <2>5
<1>6. FailedForgets'
  <2> SUFFICES ASSUME settingsFailed'
               PROVE  /\ \A id \in DOMAIN contexts' : contexts'[id].revision < revision'
                      /\ \A b \in Actors : seen'[b] < revision'
    BY DEF FailedForgets
  <2>1. /\ seen'[a] \in {0, seen[a]}
        /\ revision < revision' \/ (settingsFailed /\ revision' = revision)
    BY DEF Settles
  <2>2. \A id \in DOMAIN contexts : contexts[id].revision < revision'
    BY <1>0, <1>1, <1>2, <2>1 DEF Counted, FailedForgets
  <2>3. \A b \in Actors : seen[b] < revision'
    BY <1>0, <1>2, <1>3, <2>1 DEF Counted, FailedForgets
  <2>4. \A b \in Actors : seen'[b] \in {0, seen[b]}
    BY <2>1 DEF Keeps, Stays
  <2> QED
    BY <1>1, <1>2, <1>3, <2>2, <2>3, <2>4
<1>7. \A b \in Requests : lease'[b] => lease[b] /\ ctx'[b] = ctx[b] /\ Placed(b)'
  BY <1>0 DEF Keeps, Stays, LeasesRight, Placed, Actors
<1>8. LeasesRight'
  <2>1. \A b \in Actors : lease'[b] => Placed(b)'
    BY <1>0 DEF Keeps, Stays, LeasesRight, Placed
  <2>2. \A id \in dropping' : id \in DOMAIN contexts'
    BY <1>0, <1>1 DEF Keeps, LeasesRight, HasContext
  <2>3. ASSUME NEW id \in dropping' PROVE ~Live(id)'
    <3>1. CASE id \in dropping
      BY <1>0, <1>7, <3>1 DEF LeasesRight, Live
    <3>2. CASE id \notin dropping
      BY <1>7, <2>3, <3>2 DEF Keeps, Live
    <3> QED
      BY <3>1, <3>2
  <2> QED
    BY <2>1, <2>2, <2>3 DEF LeasesRight
<1>9. ReservationsFindable'
  <2> SUFFICES ASSUME NEW r \in Requests, pc'[r] = "verify", lease'[r],
                      contexts'[ctx'[r]].revision = revision', ctx'[r] \notin settled'
               PROVE  ctx'[r] \in pending'
    BY DEF ReservationsFindable
  <2>1. pc[r] = "verify" /\ lease[r] /\ ctx'[r] = ctx[r] /\ r \in Actors
    BY <1>7 DEF Keeps, Stays, Actors
  <2>2. ctx[r] \in DOMAIN contexts
    BY <1>0, <2>1 DEF HasContext, Placed, Ends
  <2>3. contexts[ctx[r]].revision = revision /\ ctx[r] \notin settled
    BY <1>0, <1>1, <1>2, <2>1, <2>2 DEF Counted, Settles
  <2>4. ctx[r] \in pending
    BY <1>0, <2>1, <2>3 DEF ReservationsFindable
  <2> QED
    BY <1>1, <1>2, <2>1, <2>4 DEF Settles
<1> QED
  BY <1>4, <1>5, <1>6, <1>8, <1>9 DEF StandingInv


\* A step that leaves the connection alone settles nothing.
LEMMA QuietSettles ==
  ASSUME NEW a \in Actors, UNCHANGED <<connection, settled>>, seen'[a] \in {0, seen[a]}
  PROVE  Settles(a)
BY DEF Settles, connection, selection

\* A step that gives up on a context settles that one.
LEMMA InvalidatingSettles ==
  ASSUME NEW a \in Actors, NEW id, InvalidateContext(id), seen'[a] \in {0, seen[a]}
  PROVE  Settles(a)
BY DEF Settles, InvalidateContext

\* Reading the settings: new ones, and unreadable ones, outdate every pinned context.
LEMMA RefreshStanding ==
  ASSUME ConnectionInv, StandingInv, Progress, NEW a \in Actors, Refresh(a) PROVE StandingInv'
<1>0. /\ StateTyped /\ PinnedRight
      /\ \A id \in DOMAIN contexts : contexts[id].revision <= revision
      /\ \A id \in DOMAIN contexts : contexts[id].revision \in Nat
  <2>1. StateTyped /\ PinnedRight /\ \A id \in DOMAIN contexts : contexts[id] \in Context
    BY DEF ConnectionInv, StateTyped
  <2> QED
    BY <2>1 DEF StandingInv, Counted, Context
<1>1. \A id \in pending : revision + 1 > contexts[id].revision
  BY <1>0 DEF PinnedRight, StateTyped
<1>2. CASE Load(a) \/ Sweep(a)
  <2>1. Keeps(a)
    BY <1>2, ReadingKeeps DEF Load, Sweep
  <2>2. Settles(a)
    BY <1>2, QuietSettles DEF Load, Sweep, history
  <2> QED
    BY <2>1, <2>2, KeepsRight
<1>3. CASE Observe(a)
  <2>1. Keeps(a)
    BY <1>3, ReadingKeeps DEF Observe
  <2>2. Settles(a)
    <3>1. settingsFailed' = FALSE /\ settled' = settled /\ active' \in {0, active}
      BY <1>3 DEF Observe, history, selection
    <3>2. overrides' \cup pending' \subseteq overrides \cup pending
      BY <1>3 DEF Observe
    <3>3. pending' = pending \/ revision' = revision + 1
      BY <1>3 DEF Observe
    <3> QED
      BY <1>0, <1>1, <3>1, <3>2, <3>3 DEF Settles
  <2> QED
    BY <2>1, <2>2, KeepsRight
<1>4. CASE InvalidateSettings(a)
  <2>1. Keeps(a) /\ seen'[a] \in {0, seen[a]}
    <3>1. CASE End(a, "refused")
      BY <1>4, <3>1, EndKeeps DEF InvalidateSettings, Ends
    <3>2. CASE UNCHANGED <<pc, seen, ctx, inherited, lease, permit, dropping>>
      BY <1>4, <3>2, ReadingKeeps DEF InvalidateSettings
    <3> QED
      BY <1>4, <3>1, <3>2 DEF InvalidateSettings, Unreadable
  <2>2. /\ settled' = settled /\ active' = 0 /\ overrides' = {} /\ pending' = {}
        /\ revision' = IF settingsFailed THEN revision ELSE revision + 1
    BY <1>0, <1>4 DEF InvalidateSettings, history, StateTyped
  <2>3. \A id \in pending : contexts[id].revision < revision'
    BY <1>0, <1>1, <2>2 DEF StandingInv, FailedForgets, PinnedRight
  <2>4. Settles(a)
    BY <1>0, <2>1, <2>2, <2>3 DEF Settles, StateTyped
  <2> QED
    BY <2>1, <2>4, KeepsRight
<1> QED
  BY <1>2, <1>3, <1>4 DEF Refresh

-----------------------------------------------------------------------------
(* Steps that get a context *)

\* A request is given a context that nobody selects, a reservation only one that is
\* pending and not being dropped; an account selection is given one of its own.
LEMMA TakesRight ==
  ASSUME ConnectionInv, StandingInv, Progress, NEW a \in Actors,
         ~Placed(a), Resolved(a), UNCHANGED <<permit, dropping, settled>>,
         UNCHANGED <<revision, settingsFailed, overrides>>, active' \in {0, active},
         NEW given \in DOMAIN contexts', ctx' = [ctx EXCEPT ![a] = given],
         NEW n \in Nat, n <= attempt', inherited' = [inherited EXCEPT ![a] = n],
         NEW reserve \in BOOLEAN, lease' = [lease EXCEPT ![a] = reserve],
         \A id \in DOMAIN contexts' \ DOMAIN contexts :
           /\ contexts'[id].revision <= revision
           /\ settingsFailed => contexts'[id].revision < revision,
         \A s \in Selections \ {a} :
           Placed(s) => given # ctx[s] /\ ctx[s] \notin pending',
         a \in Selections => given \notin {active'} \cup overrides \cup pending'
                             /\ \A b \in Actors \ {a} : Placed(b) => ctx[b] # given,
         reserve => given \in pending' \ dropping,
         \A id \in pending : id \in pending' \/ ~Live(id)
  PROVE  StandingInv'
<1>0. /\ LocalTyped /\ StateTyped /\ HasContext /\ PinnedRight
      /\ Counted /\ SelectionsApart /\ FailedForgets /\ LeasesRight /\ ReservationsFindable
  BY DEF ConnectionInv, StandingInv
<1>1. /\ revision \in Nat /\ revision' = revision
      /\ attempt \in Nat /\ attempt' \in Nat /\ attempt <= attempt'
      /\ policyRevision \in Nat /\ policyRevision' \in Nat /\ policyRevision <= policyRevision'
      /\ \A id \in DOMAIN contexts : id \in DOMAIN contexts' /\ contexts'[id] = contexts[id]
  BY <1>0 DEF Progress, StateTyped, Counted
<1>2. /\ pc' = [pc EXCEPT ![a] = "verify"] /\ seen' = [seen EXCEPT ![a] = 0]
      /\ pc'[a] = "verify" /\ seen'[a] = 0 /\ ctx'[a] = given /\ inherited'[a] = n
      /\ lease'[a] = reserve /\ ~lease[a]
  BY <1>0 DEF Resolved, Continue, Goto, LocalTyped, Counted, LeasesRight
<1>3. \A b \in Actors \ {a} : Stays(b)
  BY <1>0, <1>2 DEF Stays, LocalTyped
<1>4. \A b \in Actors : seen[b] \in Nat /\ inherited[b] \in Nat /\ permit[b] \in Nat
  BY <1>0 DEF LocalTyped, Counted
<1>5. Counted'
  <2>1. lease' \in [Actors -> BOOLEAN]
    BY <1>0 DEF Counted
  <2>2. \A id \in DOMAIN contexts' : contexts'[id].revision <= revision'
    BY <1>0, <1>1 DEF Counted
  <2>3. \A b \in Actors :
          seen'[b] <= revision' /\ inherited'[b] <= attempt' /\ permit'[b] <= policyRevision'
    BY <1>0, <1>1, <1>2, <1>3, <1>4 DEF Stays, Counted
  <2> QED
    BY <1>0, <1>1, <2>1, <2>2, <2>3 DEF Counted
<1>6. SelectionsApart'
  <2> SUFFICES ASSUME NEW s \in Selections, Placed(s)'
               PROVE  /\ ctx'[s] # active' /\ ctx'[s] \notin overrides' \cup pending'
                      /\ \A b \in Actors \ {s} : Placed(b)' => ctx'[b] # ctx'[s]
    BY DEF SelectionsApart
  <2>1. s \in Actors /\ \A b \in Actors \ {a} : Placed(b)' => Placed(b) /\ ctx'[b] = ctx[b]
    BY <1>3 DEF Stays, Placed, Actors
  <2>2. CASE s = a
    BY <1>2, <2>1, <2>2
  <2>3. CASE s # a
    <3>1. Placed(s) /\ ctx'[s] = ctx[s] /\ ctx[s] # 0
      BY <1>0, <2>1, <2>3 DEF HasContext, StateTyped
    <3> QED
      BY <1>0, <1>2, <2>1, <2>3, <3>1 DEF SelectionsApart
  <2> QED
    BY <2>2, <2>3
<1>7. FailedForgets'
  BY <1>0, <1>1, <1>2, <1>3, <1>4 DEF FailedForgets, Stays
<1>8. LeasesRight'
  <2>1. \A b \in Actors : lease'[b] => Placed(b)'
    BY <1>0, <1>2, <1>3 DEF LeasesRight, Stays, Placed, Ends
  <2>2. dropping' \subseteq DOMAIN contexts'
    BY <1>0, <1>1 DEF LeasesRight
  <2>3. \A id \in dropping' : ~Live(id)'
    BY <1>0, <1>2, <1>3 DEF LeasesRight, Live, Stays, Actors
  <2> QED
    BY <2>1, <2>2, <2>3 DEF LeasesRight
<1>9. ReservationsFindable'
  <2> SUFFICES ASSUME NEW r \in Requests, pc'[r] = "verify", lease'[r],
                      contexts'[ctx'[r]].revision = revision', ctx'[r] \notin settled'
               PROVE  ctx'[r] \in pending'
    BY DEF ReservationsFindable
  <2>1. CASE r = a
    BY <1>2, <2>1
  <2>2. CASE r # a
    <3>1. pc[r] = "verify" /\ lease[r] /\ ctx'[r] = ctx[r] /\ r \in Actors
      BY <1>3, <2>2 DEF Stays, Actors
    <3>2. ctx[r] \in DOMAIN contexts /\ Live(ctx[r])
      BY <1>0, <3>1 DEF HasContext, Placed, Ends, Live
    <3>3. ctx[r] \in pending
      BY <1>0, <1>1, <3>1, <3>2 DEF ReservationsFindable
    <3> QED
      BY <3>1, <3>2, <3>3
  <2> QED
    BY <2>1, <2>2
<1> QED
  BY <1>5, <1>6, <1>7, <1>8, <1>9 DEF StandingInv


\* An inheriting request takes the selected account's context.
LEMMA ResolveSelectedStanding ==
  ASSUME ConnectionInv, StandingInv, Progress, NEW r \in Requests, ResolveSelected(r)
  PROVE  StandingInv'
<1>0. /\ LocalTyped /\ StateTyped /\ SelectionRight /\ SelectionsApart
      /\ Counted /\ LeasesRight
      /\ r \in Actors /\ r \notin Selections /\ ~Placed(r)
      /\ UNCHANGED <<connection, contexts, settled>>
  BY ConnectionAssumption
  DEF ConnectionInv, StandingInv, ConnectionAssumption, Actors, ResolveSelected, Fresh, Placed,
      history
<1>1. CASE End(r, "refused")
  <2>1. Keeps(r) /\ Settles(r)
    BY <1>0, <1>1, EndKeeps, QuietSettles DEF Ends
  <2> QED
    BY <1>0, <2>1, KeepsRight
<1>2. CASE ~End(r, "refused")
  <2>1. /\ active # 0 /\ ctx' = [ctx EXCEPT ![r] = active] /\ Resolved(r)
        /\ inherited' = [inherited EXCEPT ![r] = attempt]
        /\ UNCHANGED <<lease, permit, dropping>>
    BY <1>2 DEF ResolveSelected
  <2>2. active \in DOMAIN contexts' /\ attempt \in Nat /\ attempt <= attempt'
    BY <1>0, <2>1 DEF SelectionRight, StateTyped, connection, selection
  <2>3. lease' = [lease EXCEPT ![r] = FALSE]
    BY <1>0, <2>1 DEF Counted, LeasesRight
  <2>4. \A s \in Selections \ {r} : Placed(s) => active # ctx[s] /\ ctx[s] \notin pending'
    BY <1>0 DEF SelectionsApart, connection
  <2> QED
    BY <1>0, <2>1, <2>2, <2>3, <2>4, TakesRight DEF connection, selection
<1> QED
  BY <1>1, <1>2

\* A pinned request takes one that somebody has verified or is having verified, or makes
\* one in place of those that nobody holds.
LEMMA ResolvePinnedStanding ==
  ASSUME ConnectionInv, StandingInv, Progress, NEW r \in Requests, NEW pin \in Pins,
         ResolvePinned(r, pin)
  PROVE  StandingInv'
<1>0. /\ LocalTyped /\ StateTyped /\ HasContext /\ PinnedRight /\ SelectionsApart
      /\ Counted /\ FailedForgets /\ LeasesRight
      /\ r \in Actors /\ r \notin Selections /\ ~Placed(r)
      /\ UNCHANGED <<revision, settingsFailed, selection, overrides, settled>>
  BY ConnectionAssumption
  DEF ConnectionInv, StandingInv, ConnectionAssumption, Actors, ResolvePinned, Fresh, Placed,
      history
<1>1. /\ seen[r] \in Nat /\ inherited[r] \in Nat /\ inherited[r] <= attempt'
      /\ inherited = [inherited EXCEPT ![r] = inherited[r]]
      /\ lease = [lease EXCEPT ![r] = FALSE]
  BY <1>0 DEF LocalTyped, Counted, LeasesRight, selection
<1> DEFINE shared == {id \in Matching(pending, pin, seen[r]) : Live(id)}
<1>2. CASE End(r, "refused") /\ UNCHANGED <<contexts, pending>>
  <2>1. Keeps(r) /\ Settles(r)
    BY <1>0, <1>2, EndKeeps, QuietSettles DEF Ends, ResolvePinned, connection
  <2> QED
    BY <1>0, <2>1, KeepsRight
<1>3. ASSUME NEW id \in overrides \cup pending, Resolved(r), ctx' = [ctx EXCEPT ![r] = id],
             NEW reserve \in BOOLEAN, lease' = [lease EXCEPT ![r] = reserve],
             reserve => id \in pending /\ Live(id),
             UNCHANGED <<inherited, permit, dropping, contexts, pending>>
      PROVE  StandingInv'
  <2>1. id \in DOMAIN contexts' /\ (reserve => id \in pending' \ dropping)
    BY <1>0, <1>3 DEF PinnedRight, LeasesRight
  <2>2. \A s \in Selections \ {r} : Placed(s) => id # ctx[s] /\ ctx[s] \notin pending'
    BY <1>0, <1>3 DEF SelectionsApart
  <2>3. active' \in {0, active}
    BY <1>0 DEF selection
  <2> QED
    BY <1>0, <1>1, <1>3, <2>1, <2>2, <2>3, TakesRight
<1>4. ASSUME shared = {}, NewContext(pin, seen[r], 0), Resolved(r),
             ctx' = [ctx EXCEPT ![r] = Len(contexts')],
             lease' = [lease EXCEPT ![r] = TRUE], UNCHANGED <<inherited, permit, dropping>>,
             pending' = (pending \ Matching(pending, pin, seen[r])) \cup {Len(contexts')}
      PROVE  StandingInv'
  <2>1. /\ Len(contexts') \in DOMAIN contexts' /\ Len(contexts') \notin DOMAIN contexts
        /\ DOMAIN contexts' = DOMAIN contexts \cup {Len(contexts')}
        /\ contexts'[Len(contexts')].revision = seen[r]
    <3>1. PICK m \in Nat : m = 0
      OBVIOUS
    <3>2. PICK n \in Nat : n = seen[r]
      BY <1>1
    <3>3. pin \in Pins \cup {Selected} /\ NewContext(pin, n, m)
      BY <1>4, <3>1, <3>2
    <3>4. /\ Len(contexts') \in DOMAIN contexts' /\ Len(contexts') \notin DOMAIN contexts
          /\ DOMAIN contexts' = DOMAIN contexts \cup {Len(contexts')}
          /\ contexts'[Len(contexts')] = [scope |-> pin, revision |-> n, attempt |-> m]
      BY <1>0, <3>3, NewContextAdded
    <3> QED
      BY <3>2, <3>4
  <2>2. \A id \in DOMAIN contexts' \ DOMAIN contexts :
          /\ contexts'[id].revision <= revision
          /\ settingsFailed => contexts'[id].revision < revision
    <3>1. seen[r] <= revision /\ (settingsFailed => seen[r] < revision)
      BY <1>0 DEF Counted, FailedForgets
    <3> QED
      BY <2>1, <3>1
  <2>3. \A s \in Selections \ {r} :
          Placed(s) => Len(contexts') # ctx[s] /\ ctx[s] \notin pending'
    BY <1>0, <1>4, <2>1 DEF SelectionsApart, HasContext, Actors
  <2>4. Len(contexts') \in pending' \ dropping
    BY <1>0, <1>4, <2>1 DEF LeasesRight
  <2>5. \A id \in pending : id \in pending' \/ ~Live(id)
    BY <1>4
  <2>6. active' \in {0, active}
    BY <1>0 DEF selection
  <2> QED
    BY <1>0, <1>1, <1>4, <2>1, <2>2, <2>3, <2>4, <2>5, <2>6, TakesRight
<1> QED
  <2>1. CASE \E id \in Matching(overrides, pin, seen[r]) :
               /\ Resolved(r) /\ ctx' = [ctx EXCEPT ![r] = id]
               /\ lease' = [lease EXCEPT ![r] = FALSE]
               /\ UNCHANGED <<inherited, permit, dropping, contexts, pending>>
    BY <1>3, <2>1 DEF Matching
  <2>2. CASE \E id \in shared :
               /\ Resolved(r) /\ ctx' = [ctx EXCEPT ![r] = id]
               /\ lease' = [lease EXCEPT ![r] = TRUE]
               /\ UNCHANGED <<inherited, permit, dropping, contexts, pending>>
    BY <1>3, <2>2 DEF Matching
  <2> QED
    BY <1>2, <1>4, <2>1, <2>2 DEF ResolvePinned

\* A new attempt's context is a new one.
LEMMA BeginAttemptStanding ==
  ASSUME ConnectionInv, StandingInv, Progress, NEW s \in Selections, BeginAttempt(s)
  PROVE  StandingInv'
<1>0. /\ LocalTyped /\ StateTyped /\ HasContext /\ PinnedRight /\ SelectionsApart
      /\ Counted /\ FailedForgets /\ LeasesRight /\ s \in Actors /\ ~Placed(s)
      /\ UNCHANGED <<revision, settingsFailed, overrides, pending, settled>>
  BY DEF ConnectionInv, StandingInv, Actors, BeginAttempt, Fresh, Placed, history
<1>1. CASE End(s, "refused") /\ UNCHANGED <<selection, contexts>>
  <2>1. Keeps(s) /\ Settles(s)
    BY <1>0, <1>1, EndKeeps, QuietSettles DEF Ends, BeginAttempt, connection
  <2> QED
    BY <1>0, <2>1, KeepsRight
<1>2. CASE ~(End(s, "refused") /\ UNCHANGED <<selection, contexts>>)
  <2>1. /\ revision = seen[s] /\ attempt' = attempt + 1 /\ active' = 0
        /\ NewContext(Selected, seen[s], attempt') /\ Resolved(s)
        /\ ctx' = [ctx EXCEPT ![s] = Len(contexts')]
        /\ inherited' = [inherited EXCEPT ![s] = attempt']
        /\ UNCHANGED <<lease, permit, dropping>>
    BY <1>2 DEF BeginAttempt
  <2>2. attempt' \in Nat /\ attempt' <= attempt' /\ seen[s] \in Nat
    BY <1>0, <2>1 DEF StateTyped, LocalTyped
  <2>3. /\ Len(contexts') \in DOMAIN contexts' /\ Len(contexts') \notin DOMAIN contexts
        /\ DOMAIN contexts' = DOMAIN contexts \cup {Len(contexts')} /\ Len(contexts') # 0
        /\ contexts'[Len(contexts')].revision = seen[s]
    <3>1. PICK m \in Nat : m = attempt'
      BY <2>2
    <3>2. Selected \in Pins \cup {Selected} /\ NewContext(Selected, seen[s], m)
      BY <2>1, <3>1
    <3>3. /\ Len(contexts') \in DOMAIN contexts' /\ Len(contexts') \notin DOMAIN contexts
          /\ DOMAIN contexts' = DOMAIN contexts \cup {Len(contexts')}
          /\ Len(contexts') \in Nat \ {0}
          /\ contexts'[Len(contexts')] = [scope |-> Selected, revision |-> seen[s], attempt |-> m]
      BY <1>0, <2>2, <3>2, NewContextAdded
    <3> QED
      BY <3>3
  <2>4. ~settingsFailed
    BY <1>0, <2>1, <2>2 DEF FailedForgets
  <2>5. lease' = [lease EXCEPT ![s] = FALSE]
    BY <1>0, <2>1 DEF Counted, LeasesRight
  <2>6. \A t \in Selections \ {s} :
          Placed(t) => Len(contexts') # ctx[t] /\ ctx[t] \notin pending'
    BY <1>0, <2>3 DEF SelectionsApart, HasContext, Actors
  <2>7. /\ Len(contexts') \notin {active'} \cup overrides \cup pending'
        /\ \A b \in Actors \ {s} : Placed(b) => ctx[b] # Len(contexts')
    BY <1>0, <2>1, <2>3 DEF PinnedRight, HasContext
  <2>8. \A id \in DOMAIN contexts' \ DOMAIN contexts :
          /\ contexts'[id].revision <= revision
          /\ settingsFailed => contexts'[id].revision < revision
    <3>1. seen[s] <= revision
      BY <1>0 DEF Counted
    <3> QED
      BY <2>3, <2>4, <3>1
  <2> QED
    BY <1>0, <2>1, <2>2, <2>3, <2>5, <2>6, <2>7, <2>8, TakesRight
<1> QED
  BY <1>1, <1>2

-----------------------------------------------------------------------------
(* All other steps *)

\* A request that ends, or goes on with what it has.
LEMMA MovedKeeps ==
  ASSUME ConnectionInv, StandingInv, Progress, NEW r \in Actors, contexts' = contexts,
         \/ \E how \in Ends : End(r, how)
         \/ /\ \E to \in Places \ ({"idle", "resolve", "verify", "select"} \cup Ends) :
                 Continue(r, to)
            /\ Placed(r) /\ UNCHANGED <<seen, ctx, inherited, lease, permit, dropping>>
  PROVE  Keeps(r) /\ seen'[r] \in {0, seen[r]}
<1>1. CASE \E how \in Ends : End(r, how)
  BY <1>1, EndKeeps
<1>2. ASSUME NEW to \in Places \ ({"idle", "resolve", "verify", "select"} \cup Ends),
             Continue(r, to), Placed(r),
             UNCHANGED <<seen, ctx, inherited, lease, permit, dropping>>
      PROVE  Keeps(r) /\ seen'[r] \in {0, seen[r]}
  <2>1. policyRevision' \in Nat /\ to \in Places \ {"verify"}
    BY DEF Progress
  <2>2. /\ Placed(r) /\ to \notin {"idle", "resolve", "select"} \cup Ends
        /\ UNCHANGED <<contexts, seen, ctx, inherited, lease, dropping>> /\ permit' = permit
    BY <1>2
  <2>3. Keeps(r) /\ seen'[r] = seen[r]
    BY <1>2, <2>1, <2>2, ContinueKeeps
  <2> QED
    BY <2>3
<1> QED
  BY <1>1, <1>2

\* What a widget request does that resolves nothing.
LEMMA FetchStanding ==
  ASSUME ConnectionInv, StandingInv, Progress, NEW r \in Requests, Fetch(r) PROVE StandingInv'
<1>0. LocalTyped /\ r \in Actors /\ {"refused", "delivered"} = Ends /\ policyRevision' \in Nat
  BY DEF ConnectionInv, Actors, Ends, Progress
<1>1. ASSUME UNCHANGED <<connection, settled>>, Keeps(r), seen'[r] \in {0, seen[r]}
      PROVE  StandingInv'
  BY <1>0, <1>1, QuietSettles, KeepsRight
<1>2. ASSUME Invalidated(r), Keeps(r), seen'[r] \in {0, seen[r]} PROVE StandingInv'
  BY <1>0, <1>2, QuietSettles, InvalidatingSettles, KeepsRight DEF Invalidated
<1>3. ASSUME NEW at, Invalid(r, at) PROVE StandingInv'
  BY <1>0, <1>2, <1>3, MovedKeeps DEF Invalid
<1>4. CASE Begin(r)
  <2>1. ~Placed(r) /\ "resolve" \in Places \ {"verify"}
    BY <1>4 DEF Begin, Placed, Places
  <2>2. Keeps(r) /\ seen'[r] \in {0, seen[r]}
    BY <1>0, <1>4, <2>1, ContinueKeeps DEF Begin
  <2> QED
    BY <1>1, <1>4, <2>2 DEF Begin, history
<1>5. CASE ResolveSelected(r) \/ \E pin \in Pins : ResolvePinned(r, pin)
  BY <1>5, ResolveSelectedStanding, ResolvePinnedStanding
<1>6. CASE GiveUp(r) \/ CleanupFails(r)
  BY <1>0, <1>1, <1>6, MovedKeeps DEF GiveUp, CleanupFails, history
<1>7. CASE VerifyFails(r)
  <2>1. Keeps(r) /\ seen'[r] \in {0, seen[r]}
    BY <1>0, <1>7, MovedKeeps DEF VerifyFails
  <2> QED
    BY <1>0, <1>7, <2>1, InvalidatingSettles, KeepsRight DEF VerifyFails
<1>8. CASE VerifySucceeds(r)
  <2>1. Keeps(r) /\ seen'[r] \in {0, seen[r]}
    BY <1>0, <1>8, MovedKeeps DEF VerifySucceeds, Places, Placed, Ends
  <2> QED
    BY <1>1, <1>8, <2>1 DEF VerifySucceeds, history
<1>9. CASE Verified(r)
  <2>1. CASE Invalid(r, "verified")
    BY <2>1, <1>3
  <2>2. CASE ~Invalid(r, "verified")
    <3>1. /\ pc[r] = "verified" /\ Continue(r, "permitted")
          /\ UNCHANGED <<seen, ctx, inherited, lease, permit, dropping, contexts>>
          /\ UNCHANGED <<revision, settingsFailed, selection>>
      BY <1>9, <2>2 DEF Verified, Fresh
    <3>2. Placed(r) /\ Keeps(r) /\ seen'[r] \in {0, seen[r]}
      BY <1>0, <3>1, MovedKeeps DEF Places, Placed, Ends
    <3>3. /\ settled \subseteq settled' /\ pending' \subseteq pending
          /\ overrides' \subseteq overrides \cup {ctx[r]}
          /\ \A id \in pending : id \in pending' \cup settled'
      BY <1>9, <2>2 DEF Verified
    <3>4. Settles(r)
      BY <3>1, <3>2, <3>3 DEF Settles, selection
    <3> QED
      BY <1>0, <3>2, <3>4, KeepsRight
  <2> QED
    BY <2>1, <2>2
<1>10. CASE Permitted(r)
  <2>1. Keeps(r) /\ seen'[r] \in {0, seen[r]}
    BY <1>0, <1>10, MovedKeeps DEF Permitted, Places, Placed, Ends
  <2> QED
    BY <1>1, <1>10, <2>1 DEF Permitted, history
<1>11. CASE Lookup(r)
  <2>1. Keeps(r) /\ seen'[r] \in {0, seen[r]}
    BY <1>0, <1>11, MovedKeeps DEF Lookup, Places, Placed, Ends
  <2> QED
    BY <1>1, <1>11, <2>1 DEF Lookup
<1>12. CASE Hit(r)
  BY <1>0, <1>1, <1>3, <1>12, MovedKeeps DEF Hit, history
<1>13. CASE StartTick(r)
  <2>1. Keeps(r) /\ seen'[r] \in {0, seen[r]}
    BY <1>0, <1>13, MovedKeeps DEF StartTick, Places, Placed, Ends
  <2> QED
    BY <1>1, <1>13, <2>1 DEF StartTick, history
<1>14. CASE Tick(r)
  <2>1. Keeps(r) /\ seen'[r] \in {0, seen[r]}
    BY <1>0, <1>14, MovedKeeps DEF Tick, Places, Placed, Ends
  <2>2. Invalidated(r) \/ UNCHANGED <<connection, settled>>
    BY <1>14 DEF Tick
  <2> QED
    BY <1>1, <1>2, <2>1, <2>2
<1>15. CASE WorkEnds(r)
  <2>1. Keeps(r) /\ seen'[r] \in {0, seen[r]}
    BY <1>0, <1>15, MovedKeeps DEF WorkEnds, Places, Placed, Ends
  <2> QED
    BY <1>1, <1>15, <2>1 DEF WorkEnds
<1>16. CASE Ended(r)
  <2>1. CASE Invalid(r, "ended")
    BY <2>1, <1>3
  <2>2. CASE ~Invalid(r, "ended")
    <3>1. Keeps(r) /\ seen'[r] \in {0, seen[r]}
      BY <1>0, <1>16, <2>2, MovedKeeps DEF Ended, Fresh, Places, Placed, Ends
    <3> QED
      BY <1>1, <1>16, <2>2, <3>1 DEF Ended, history
  <2> QED
    BY <2>1, <2>2
<1>17. CASE Compare(r)
  <2>1. Keeps(r) /\ seen'[r] \in {0, seen[r]}
    BY <1>0, <1>17, MovedKeeps DEF Compare, Places, Placed, Ends
  <2> QED
    BY <1>1, <1>17, <2>1 DEF Compare, history
<1>18. CASE Insert(r)
  BY <1>0, <1>1, <1>18, MovedKeeps DEF Insert, history
<1>19. CASE Cancel(r)
  <2>1. Keeps(r) /\ seen'[r] \in {0, seen[r]}
    BY <1>0, <1>19, ReadingKeeps DEF Cancel, local
  <2> QED
    BY <1>1, <1>19, <2>1 DEF Cancel, history
<1> QED
  BY <1>4, <1>5, <1>6, <1>7, <1>8, <1>9, <1>10, <1>11, <1>12, <1>13, <1>14, <1>15, <1>16,
     <1>17, <1>18, <1>19
  DEF Fetch

\* What an account selection does.
LEMMA SetAccountStanding ==
  ASSUME ConnectionInv, StandingInv, Progress, NEW s \in Selections, SetAccount(s)
  PROVE  StandingInv'
<1>0. LocalTyped /\ s \in Actors /\ {"refused", "delivered"} = Ends /\ policyRevision' \in Nat
  BY DEF ConnectionInv, Actors, Ends, Progress
<1>1. CASE Select(s)
  <2>1. ~Placed(s) /\ "select" \in Places \ {"verify"}
    BY <1>1 DEF Select, Placed, Places
  <2>2. Keeps(s) /\ seen'[s] \in {0, seen[s]}
    BY <1>0, <1>1, <2>1, ContinueKeeps DEF Select
  <2> QED
    BY <1>0, <1>1, <2>2, QuietSettles, KeepsRight DEF Select, history
<1>2. CASE Decide(s)
  <2>1. Keeps(s) /\ seen'[s] \in {0, seen[s]}
    BY <1>0, <1>2, MovedKeeps DEF Decide, Places, Placed, Ends
  <2> QED
    BY <1>0, <1>2, <2>1, QuietSettles, KeepsRight DEF Decide, history
<1>3. CASE Publish(s)
  <2>1. /\ Placed(s) /\ contexts' = contexts
        /\ UNCHANGED <<revision, settingsFailed, overrides, pending, settled>>
    BY <1>3 DEF Publish, Fresh, Placed, Ends, history
  <2>2. Keeps(s) /\ seen'[s] \in {0, seen[s]}
    BY <1>0, <1>3, <2>1, MovedKeeps DEF Publish, Places, Ends
  <2>3. active' = active \/ (active' = ctx[s] /\ End(s, "delivered"))
    BY <1>3 DEF Publish
  <2>4. End(s, "delivered") => ~Placed(s)'
    BY <1>0, <2>1, EndKeeps
  <2>5. Settles(s)
    BY <2>1, <2>2, <2>3, <2>4 DEF Settles
  <2> QED
    BY <1>0, <2>2, <2>5, KeepsRight
<1>4. CASE FailAttempt(s)
  <2>1. Keeps(s) /\ seen'[s] \in {0, seen[s]}
    BY <1>0, <1>4, MovedKeeps DEF FailAttempt
  <2>2. Settles(s)
    BY <1>4, <2>1 DEF Settles, FailAttempt, history
  <2> QED
    BY <1>0, <2>1, <2>2, KeepsRight
<1> QED
  BY <1>1, <1>2, <1>3, <1>4, BeginAttemptStanding DEF SetAccount

\* Nothing is reserved by a lease that is dropped.
LEMMA DropLeaseStanding ==
  ASSUME ConnectionInv, StandingInv, NEW id \in dropping, DropLease(id) PROVE StandingInv'
<1>0. /\ UNCHANGED <<revision, settingsFailed, selection, overrides, contexts, policyView>>
      /\ UNCHANGED <<pc, seen, ctx, inherited, lease, permit, settled>>
      /\ dropping' \subseteq dropping /\ pending' = pending \ {id}
  BY DEF DropLease, local, history
<1>1. Counted' /\ SelectionsApart' /\ FailedForgets' /\ LeasesRight'
  BY <1>0
  DEF StandingInv, Counted, SelectionsApart, Placed, FailedForgets, LeasesRight, Live,
      selection, policyView
<1>2. ReservationsFindable'
  BY <1>0 DEF StandingInv, ReservationsFindable, LeasesRight, Live
<1> QED
  BY <1>1, <1>2 DEF StandingInv

\* Every step keeps StandingInv.
LEMMA StepStanding == ConnectionInv /\ StandingInv /\ [Next]_vars => StandingInv'
<1> SUFFICES ASSUME ConnectionInv, StandingInv, [Next]_vars PROVE StandingInv'
  OBVIOUS
<1>1. Progress
  BY StepProgress DEF StandingInv
<1>2. CASE World \/ UNCHANGED vars
  BY <1>2
  DEF World, EditSettings, EditPolicy, Reconfigure, vars, connection, selection, policyView,
      local, history, StandingInv, Counted, SelectionsApart, Placed, FailedForgets, LeasesRight,
      Live, ReservationsFindable
<1> QED
  BY <1>1, <1>2, RefreshStanding, FetchStanding, SetAccountStanding, DropLeaseStanding DEF Next


\* A widget request moves nobody else ...
LEMMA FetchLocal ==
  ASSUME ConnectionInv, Counted, NEW r \in Requests, Fetch(r)
  PROVE  \A b \in Actors \ {r} : Stays(b)
<1>0. LocalTyped /\ permit \in [Actors -> Nat] /\ lease \in [Actors -> BOOLEAN]
  BY DEF ConnectionInv, Counted
<1>1. ASSUME NEW how, End(r, how) PROVE \A b \in Actors \ {r} : Stays(b)
  BY <1>0, <1>1 DEF End, Goto, Stays, LocalTyped
<1>2. ASSUME NEW to, Continue(r, to), seen' = seen \/ seen' = [seen EXCEPT ![r] = 0],
             ctx' = ctx \/ (\E id : ctx' = [ctx EXCEPT ![r] = id]),
             inherited' = inherited \/ (\E n : inherited' = [inherited EXCEPT ![r] = n]),
             permit' = permit \/ (\E n : permit' = [permit EXCEPT ![r] = n]),
             lease' = lease \/ (\E n : lease' = [lease EXCEPT ![r] = n])
      PROVE  \A b \in Actors \ {r} : Stays(b)
  BY <1>0, <1>2 DEF Continue, Goto, Stays, LocalTyped
<1>3. CASE ResolveSelected(r) \/ \E pin \in Pins : ResolvePinned(r, pin)
  BY <1>1, <1>2, <1>3 DEF ResolveSelected, ResolvePinned, Resolved
<1>4. CASE Begin(r) \/ Cancel(r)
  BY <1>2, <1>4 DEF Begin, Cancel, local, Stays
<1> QED
  BY <1>1, <1>2, <1>3, <1>4
  DEF Fetch, GiveUp, VerifyFails, VerifySucceeds, Verified, Permitted, Lookup, Hit, StartTick,
      Tick, WorkEnds, CleanupFails, Ended, Compare, Insert, Invalid

\* ... nor does an account selection.
LEMMA SetAccountLocal ==
  ASSUME ConnectionInv, Counted, NEW s \in Selections, SetAccount(s)
  PROVE  \A b \in Actors \ {s} : Stays(b)
<1>0. LocalTyped /\ permit \in [Actors -> Nat] /\ lease \in [Actors -> BOOLEAN]
  BY DEF ConnectionInv, Counted
<1>1. ASSUME NEW how, End(s, how) PROVE \A b \in Actors \ {s} : Stays(b)
  BY <1>0, <1>1 DEF End, Goto, Stays, LocalTyped
<1>2. ASSUME NEW to, Continue(s, to), seen' = seen \/ seen' = [seen EXCEPT ![s] = 0],
             ctx' = ctx \/ (\E id : ctx' = [ctx EXCEPT ![s] = id]),
             inherited' = inherited \/ (\E n : inherited' = [inherited EXCEPT ![s] = n]),
             UNCHANGED <<permit, lease>>
      PROVE  \A b \in Actors \ {s} : Stays(b)
  BY <1>0, <1>2 DEF Continue, Goto, Stays, LocalTyped
<1> QED
  BY <1>1, <1>2
  DEF SetAccount, Select, BeginAttempt, Decide, Publish, FailAttempt, Resolved


-----------------------------------------------------------------------------
(* What came too late: LateDoomed *)

\* What outdated a result stays, whatever other requests do.
LEMMA DoomStays ==
  ASSUME ConnectionInv, StandingInv, Progress, NEW r \in Requests, Doomed(r),
         pc'[r] = pc[r], ctx'[r] = ctx[r], inherited'[r] = inherited[r],
         permit'[r] = permit[r]
  PROVE  Doomed(r)'
<1>0. /\ StateTyped /\ HasContext /\ Counted /\ SelectionsApart /\ r \in Actors
      /\ r \notin Selections
  BY ConnectionAssumption
  DEF ConnectionInv, StandingInv, Actors, ConnectionAssumption
<1>1. CASE pc[r] = "refused"
  BY <1>1 DEF Doomed
<1>2. CASE pc[r] # "refused"
  <2>1. /\ pc[r] \in {"hit", "ended", "compare", "report"} /\ Placed(r)
        /\ ctx[r] \in DOMAIN contexts /\ contexts'[ctx[r]] = contexts[ctx[r]] /\ ctx[r] # 0
    BY <1>0, <1>2 DEF Doomed, Placed, Ends, HasContext, Progress, StateTyped
  <2>2. policyRevision # permit[r] => policyRevision' # permit'[r]
    BY <1>0 DEF Counted, Progress
  <2>3. ctx[r] \in changed => ctx'[r] \in changed'
    BY DEF Progress
  <2>4. ~Authorized(r) => ~Authorized(r)'
    <3>1. CASE revision # contexts[ctx[r]].revision
      <4>1. contexts[ctx[r]].revision <= revision /\ contexts[ctx[r]].revision \in Nat
        <5>1. contexts[ctx[r]] \in Context
          BY <1>0, <2>1 DEF StateTyped
        <5> QED
          BY <1>0, <2>1, <5>1 DEF Counted, Context
      <4> QED
        BY <1>0, <2>1, <3>1, <4>1 DEF Authorized, Progress, StateTyped
    <3>2. CASE ~Pinned(r) /\ attempt # inherited[r]
      BY <1>0, <3>2 DEF Authorized, Pinned, Progress, StateTyped, Counted, ConnectionInv,
                        LocalTyped
    <3>3. CASE ~Pinned(r) /\ active # ctx[r]
      <4>1. active' # ctx[r]
        BY <1>0, <2>1, <3>3 DEF Progress, SelectionsApart
      <4> QED
        BY <3>3, <4>1 DEF Authorized, Pinned
    <3> QED
      BY <3>1, <3>2, <3>3 DEF Authorized
  <2> QED
    BY <2>1, <2>2, <2>3, <2>4 DEF Doomed, Late
<1> QED
  BY <1>1, <1>2

\* A result that is noted as late is late at the check that follows, and what was noted
\* before is refused there.
LEMMA FetchDooms ==
  ASSUME ConnectionInv, AuthorityInv, Progress, NEW r \in Requests, Fetch(r)
  PROVE  outdated' \subseteq outdated \cup {r} /\ (r \in outdated' => Doomed(r)')
<1>0. /\ LocalTyped /\ StandingInv /\ Counted /\ LateDoomed /\ CacheSound
      /\ r \in Actors /\ (r \in outdated => Doomed(r))
  BY DEF ConnectionInv, AuthorityInv, StandingInv, LateDoomed, Actors
<1>1. ASSUME NEW how \in Ends, End(r, how) PROVE pc'[r] = how
  BY <1>0, <1>1 DEF End, Goto, LocalTyped
<1>2. ASSUME NEW to, Continue(r, to) PROVE pc'[r] = to
  BY <1>0, <1>2 DEF Continue, Goto, LocalTyped
<1>3. pc'[r] = "refused" => Doomed(r)'
  BY DEF Doomed
<1>4. ASSUME NEW at, Invalid(r, at) PROVE outdated' = outdated /\ Doomed(r)'
  BY <1>1, <1>3, <1>4 DEF Invalid, Ends
<1>5. CASE /\ outdated' = outdated
           /\ pc[r] \in {"idle", "resolve", "verify", "verified", "permitted", "running",
                         "tick", "insert"}
  BY <1>0, <1>5 DEF Doomed
<1>6. CASE Lookup(r)
  <2>1. outdated' \subseteq outdated \cup {r} /\ r \notin outdated
    BY <1>0, <1>6 DEF Lookup, Note, Doomed
  <2>2. ASSUME NEW entry \in cache, entry.key = Key(r), Continue(r, "hit"),
               Note(r, Late(r) \/ entry.late \/ entry.origin # <<ctx[r], permit[r]>>)
        PROVE  outdated' \subseteq outdated \cup {r} /\ (r \in outdated' => Doomed(r)')
    <3>1. entry.origin = <<ctx[r], permit[r]>> /\ ~entry.late
      BY <1>0, <2>2 DEF CacheSound, Key
    <3>2. r \in outdated' => Late(r)
      BY <2>1, <2>2, <3>1 DEF Note
    <3>3. Late(r)' <=> Late(r)
      BY <1>6 DEF Lookup, Late, Authorized, Pinned, connection, selection
    <3> QED
      BY <1>2, <2>1, <2>2, <3>2, <3>3 DEF Doomed
  <2>3. CASE UNCHANGED outdated
    BY <2>1, <2>3
  <2> QED
    BY <1>6, <2>2, <2>3 DEF Lookup
<1>7. CASE Hit(r)
  <2>1. CASE Invalid(r, "hit")
    BY <1>4, <2>1
  <2>2. CASE ~Invalid(r, "hit")
    BY <1>0, <1>7, <2>2 DEF Hit, Fresh, Valid, Late, Doomed, history
  <2> QED
    BY <2>1, <2>2
<1>8. CASE WorkEnds(r)
  <2>1. outdated' \subseteq outdated \cup {r} /\ r \notin outdated /\ pc'[r] = "ended"
    BY <1>0, <1>2, <1>8 DEF WorkEnds, Note, Doomed
  <2>2. r \in outdated' => Late(r) \/ policyRevision # permit[r]
    BY <1>8, <2>1 DEF WorkEnds, Note
  <2>3. /\ Late(r)' <=> Late(r)
        /\ UNCHANGED <<policyRevision, permit>>
    BY <1>8 DEF WorkEnds, Late, Authorized, Pinned, connection, selection, policyView
  <2> QED
    BY <2>1, <2>2, <2>3 DEF Doomed
<1>9. CASE Ended(r)
  <2>1. CASE Invalid(r, "ended")
    BY <1>4, <2>1
  <2>2. CASE ~Invalid(r, "ended")
    <3>1. /\ pc[r] = "ended" /\ Valid(r) /\ outdated' = outdated
          /\ UNCHANGED <<policyRevision>>
      BY <1>9, <2>2 DEF Ended, Fresh, history, policyView
    <3>2. CASE End(r, "refused")
      BY <1>1, <1>3, <3>1, <3>2 DEF Ends
    <3>3. CASE (Continue(r, "compare") \/ Continue(r, "report")) /\ UNCHANGED permit
      BY <1>0, <1>2, <3>1, <3>3 DEF Doomed, Valid, Late
    <3> QED
      BY <1>9, <2>2, <3>2, <3>3 DEF Ended
  <2> QED
    BY <2>1, <2>2
<1>10. CASE Compare(r)
  <2>1. pc[r] \in {"compare", "report"} /\ outdated' = outdated
    BY <1>10 DEF Compare, history
  <2>2. CASE End(r, "refused")
    BY <1>1, <1>3, <2>1, <2>2 DEF Ends
  <2>3. CASE policyRevision' = permit[r]
    <3>1. r \notin outdated
      BY <1>0, <2>1, <2>3 DEF Doomed, Progress, Counted
    <3> QED
      BY <2>1, <3>1
  <2> QED
    BY <1>10, <2>2, <2>3 DEF Compare
<1>11. CASE Cancel(r)
  <2>1. outdated' = outdated /\ UNCHANGED <<pc, ctx, inherited, permit>>
    BY <1>11 DEF Cancel, local, history
  <2> QED
    BY <1>0, <2>1, DoomStays
<1>12. CASE Verified(r)
  <2>1. outdated' = outdated /\ pc[r] = "verified"
    BY <1>12 DEF Verified, Invalid, Fresh
  <2> QED
    BY <1>5, <2>1
<1> QED
  BY <1>5, <1>6, <1>7, <1>8, <1>9, <1>10, <1>11, <1>12
  DEF Fetch, Begin, ResolveSelected, ResolvePinned, GiveUp, VerifyFails, VerifySucceeds,
      Permitted, StartTick, Tick, CleanupFails, Insert, Fresh, history

\* No step delivers what came too late.
LEMMA StepDooms ==
  ConnectionInv /\ AuthorityInv /\ [Next]_vars => LateDoomed'
<1> SUFFICES ASSUME ConnectionInv, AuthorityInv, [Next]_vars PROVE LateDoomed'
  OBVIOUS
<1>0. /\ LocalTyped /\ StandingInv /\ Counted /\ LateDoomed /\ Progress
      /\ outdated \subseteq Requests /\ \A r \in outdated : Doomed(r)
  BY StepProgress DEF ConnectionInv, AuthorityInv, StandingInv, LateDoomed
<1>1. ASSUME NEW r \in Requests, r \in outdated,
             pc'[r] = pc[r], ctx'[r] = ctx[r], inherited'[r] = inherited[r],
             permit'[r] = permit[r]
      PROVE  Doomed(r)'
  BY <1>0, <1>1, DoomStays
<1>2. ASSUME NEW a \in Actors, Refresh(a) PROVE LateDoomed'
  <2>1. outdated' = outdated
    BY <1>2 DEF Refresh, Load, Observe, Sweep, InvalidateSettings, history
  <2>2. ASSUME NEW r \in outdated PROVE Doomed(r)'
    <3>1. CASE End(a, "refused") /\ a = r
      <4>1. pc'[r] = "refused"
        BY <1>0, <3>1 DEF End, Goto, LocalTyped
      <4> QED
        BY <4>1 DEF Doomed
    <3>2. CASE End(a, "refused") /\ a # r
      BY <1>0, <1>1, <3>2 DEF End, Goto, LocalTyped, Actors
    <3>3. CASE UNCHANGED <<pc, ctx, inherited, permit>>
      BY <1>0, <1>1, <3>3
    <3> QED
      BY <1>2, <3>1, <3>2, <3>3
      DEF Refresh, Load, Observe, Sweep, InvalidateSettings, Unreadable
  <2> QED
    BY <1>0, <2>1, <2>2 DEF LateDoomed
<1>3. ASSUME NEW a \in Requests, Fetch(a) PROVE LateDoomed'
  <2>1. outdated' \subseteq outdated \cup {a} /\ (a \in outdated' => Doomed(a)')
    BY <1>0, <1>3, FetchDooms
  <2>2. ASSUME NEW b \in Requests \ {a}
        PROVE  /\ pc'[b] = pc[b] /\ ctx'[b] = ctx[b] /\ inherited'[b] = inherited[b]
               /\ permit'[b] = permit[b]
    BY <1>0, <1>3, FetchLocal DEF Stays, Actors
  <2> QED
    BY <1>0, <1>1, <2>1, <2>2 DEF LateDoomed
<1>4. ASSUME NEW s \in Selections, SetAccount(s) PROVE LateDoomed'
  <2>1. outdated' = outdated
    BY <1>4 DEF SetAccount, Select, BeginAttempt, Decide, Publish, FailAttempt, history
  <2>2. \A b \in Requests :
          /\ pc'[b] = pc[b] /\ ctx'[b] = ctx[b] /\ inherited'[b] = inherited[b]
          /\ permit'[b] = permit[b]
    BY <1>0, <1>4, SetAccountLocal, ConnectionAssumption
    DEF Stays, Actors, ConnectionAssumption
  <2> QED
    BY <1>0, <1>1, <2>1, <2>2 DEF LateDoomed
<1>5. CASE World \/ (\E id \in dropping : DropLease(id)) \/ UNCHANGED vars
  <2>1. UNCHANGED <<outdated, pc, ctx, inherited, permit>>
    BY <1>5
    DEF World, EditSettings, EditPolicy, Reconfigure, DropLease, vars, local, history
  <2> QED
    BY <1>0, <1>1, <2>1 DEF LateDoomed
<1> QED
  BY <1>2, <1>3, <1>4, <1>5 DEF Next

\* What comes into the cache is not late, since nothing that is late gets that far.
LEMMA StepCaches ==
  ConnectionInv /\ AuthorityInv /\ [Next]_vars => CacheSound'
<1> SUFFICES ASSUME ConnectionInv, AuthorityInv, [Next]_vars PROVE CacheSound'
  OBVIOUS
<1>0. CacheSound /\ LateDoomed
  BY DEF AuthorityInv
<1>1. ASSUME cache' \subseteq cache PROVE CacheSound'
  BY <1>0, <1>1 DEF CacheSound
<1>2. ASSUME NEW r \in Requests, Insert(r) PROVE CacheSound'
  <2>1. r \notin outdated
    BY <1>0, <1>2 DEF Insert, LateDoomed, Doomed
  <2>2. ASSUME NEW entry \in cache' PROVE entry.key = entry.origin /\ ~entry.late
    <3>1. CASE entry \in cache
      BY <1>0, <3>1 DEF CacheSound
    <3>2. CASE entry \notin cache
      <4>1. entry = [key |-> Key(r), origin |-> <<ctx[r], permit[r]>>, late |-> r \in outdated]
        BY <1>2, <2>2, <3>2 DEF Insert
      <4> QED
        BY <2>1, <4>1 DEF Key
    <3> QED
      BY <3>1, <3>2
  <2> QED
    BY <2>2 DEF CacheSound
<1>3. ASSUME NEW r \in Requests, Fetch(r), ~Insert(r) PROVE cache' \subseteq cache
  BY <1>3
  DEF Fetch, Begin, ResolveSelected, ResolvePinned, GiveUp, VerifyFails, VerifySucceeds,
      Verified, Permitted, Lookup, Hit, StartTick, Tick, WorkEnds, CleanupFails, Ended,
      Compare, Cancel, Invalid, Invalidated, InvalidateContext, ClearResults,
      ObservePolicy, ObservePolicyCancelling
<1>4. ASSUME NEW a \in Actors, Refresh(a) PROVE cache' \subseteq cache
  BY <1>4 DEF Refresh, Load, Observe, Sweep, InvalidateSettings, ClearResults
<1>5. ASSUME NEW s \in Selections, SetAccount(s) PROVE cache' \subseteq cache
  BY <1>5 DEF SetAccount, Select, BeginAttempt, Decide, Publish, FailAttempt
<1>6. CASE World \/ (\E id \in dropping : DropLease(id)) \/ UNCHANGED vars
  BY <1>1, <1>6 DEF World, EditSettings, EditPolicy, Reconfigure, DropLease, vars
<1> QED
  BY <1>1, <1>2, <1>3, <1>4, <1>5, <1>6 DEF Next

\* In the beginning nothing is late and nothing reserved.
LEMMA InitAuthority == Init => AuthorityInv
<1> SUFFICES ASSUME Init PROVE AuthorityInv
  OBVIOUS
<1>1. Counted /\ FailedForgets
  BY DEF Init, Counted, FailedForgets
<1>2. SelectionsApart
  BY DEF Init, SelectionsApart, Placed, Actors
<1>3. LeasesRight /\ LateDoomed /\ CacheSound /\ ReservationsFindable
  BY DEF Init, LeasesRight, LateDoomed, CacheSound, ReservationsFindable, Actors
<1> QED
  BY <1>1, <1>2, <1>3 DEF AuthorityInv, StandingInv

\* ConnectionInv and AuthorityInv hold in every state.
LEMMA AuthorityKept == Spec => [](ConnectionInv /\ AuthorityInv)
<1>1. Init => ConnectionInv /\ AuthorityInv
  BY InitConnection, InitAuthority
<1>2. ConnectionInv /\ AuthorityInv /\ [Next]_vars => (ConnectionInv /\ AuthorityInv)'
  BY StepConnection, StepStanding, StepDooms, StepCaches DEF AuthorityInv
<1> QED
  BY <1>1, <1>2, PTL DEF Spec

\* Whatever changes, and however often, between a result and its delivery: a request
\* delivers nothing of its own work that came after its settings, its account, its provider
\* configuration or its policy were seen to change, and from the cache only what was in
\* time when it was obtained, under the same context and policy revision, and is read
\* before the reader's settings, account or configuration were seen to change.  Nothing is
\* said of a policy that changes between the reader's comparison and its hit.
THEOREM NothingOutdatedDelivered == Spec => []OutdatedNeverDelivered
<1>1. AuthorityInv => OutdatedNeverDelivered
  BY DEF AuthorityInv, LateDoomed, Doomed, OutdatedNeverDelivered
<1> QED
  BY <1>1, AuthorityKept, PTL

\* A pinned context that is being verified is found by every other request for the same
\* scope and settings, however late the leases of older contexts are dropped.
THEOREM ReservationsAreFound == Spec => []ReservationsFindable
<1>1. AuthorityInv => ReservationsFindable
  BY DEF AuthorityInv, StandingInv
<1> QED
  BY <1>1, AuthorityKept, PTL
=============================================================================
