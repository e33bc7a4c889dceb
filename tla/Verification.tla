---------------------------- MODULE Verification ----------------------------
(***************************************************************************)
(* Identity verification of one AWS context, src-tauri/src/aws/context.rs. *)
(*                                                                         *)
(* Callers share one verification flight: the first one starts an owned    *)
(* worker, others subscribe to its watch channel, and a caller that goes   *)
(* away stops nothing.  The worker reads the selected configuration, gets  *)
(* SSO credentials, asks STS who they belong to, reads the configuration   *)
(* again and installs a session.  Between any two of these steps the       *)
(* configuration file, the policy and the clock may change, and another    *)
(* caller's ensure_current() may invalidate the context for good.          *)
(*                                                                         *)
(* A flight that has published is over: the next caller starts another,    *)
(* so flights of one context never overlap and the context's verification  *)
(* mutex is free when a worker asks for it.                                *)
(***************************************************************************)
EXTENDS ContextSessions, Integers, FiniteSets

CONSTANTS
  Snapshots,   \* what the selected profile may parse to
  Principals,  \* who the credentials may belong to, in the selected account
  Flights,     \* how many flights, so provider revisions, there may be
  None

\* What the constants may be.
VerificationAssumption ==
  /\ Foreign \notin Principals
  /\ None \notin Snapshots \cup Principals \cup {Foreign}
  /\ Flights \in Nat

Revisions == 1 .. Flights

\* How long credentials are still good for: more than REFRESH_MARGIN_SECONDS,
\* less than that, not at all.
Lives == {"fresh", "closing", "expired"}
Unexpired(l) == l # "expired"
BeyondMargin(l) == l = "fresh"

vars == verification

WorkerStates == {"over", "reading", "examining", "credentials", "resolving",
                 "caller", "asking", "rereading", "installing"}
PCs == {"out", "waiting", "checking", "fencing", "using"}

Sessions == [revision : Revisions, principal : Principals \cup {Foreign},
             snapshot : Snapshots]

-----------------------------------------------------------------------------
(* The worker: verified_session_once() *)

Running(at) == worker = at

Proceed(to) ==
  /\ worker' = to
  /\ UNCHANGED <<flight, outcome, minted>>

\* sender.send_replace(): the flight is over, whoever still listens.
Publish(n) ==
  /\ worker' = "over"
  /\ outcome' = [outcome EXCEPT ![flight] = n]
  /\ UNCHANGED <<flight, taken, owner>>

\* An error that leaves the context as it is.
Fail == Publish(NoSession) /\ UNCHANGED <<shared, minted>>

\* invalidate(): the context is never used again.
Invalidate ==
  /\ invalidated' = TRUE /\ session' = NoSession
  /\ UNCHANGED <<snapshot, principal>>

FailForGood == Publish(NoSession) /\ Invalidate /\ UNCHANGED minted

\* fresh_snapshot(): a configuration that does not parse ends the context.
ReadConfig ==
  /\ Running("reading")
  /\ \/ config = None /\ FailForGood
     \/ /\ config # None
        /\ Proceed("examining") /\ taken' = config
        /\ UNCHANGED <<shared, owner>>
  /\ UNCHANGED <<world, callerVars>>

\* Mutant: the snapshot of the first flight is not compared with.
ExamineUnpinned ==
  /\ Running("examining")
  /\ \/ invalidated /\ Fail
     \/ /\ ~invalidated /\ session # NoSession /\ BeyondMargin(life[session])
        /\ Publish(session) /\ UNCHANGED <<shared, minted>>
     \/ /\ ~invalidated
        /\ session # NoSession => ~BeyondMargin(life[session])
        /\ Proceed("credentials")
        /\ snapshot' = taken /\ session' = NoSession
        /\ UNCHANGED <<principal, invalidated, taken, owner>>
  /\ UNCHANGED <<world, callerVars>>

\* The first look at the shared state: a changed configuration ends the context,
\* a session with enough life left is returned as it is, anything else is dropped.
Examine ==
  /\ Running("examining")
  /\ \/ invalidated /\ Fail
     \/ ~invalidated /\ snapshot \notin {None, taken} /\ FailForGood
     \/ /\ ~invalidated /\ snapshot \in {None, taken}
        /\ session # NoSession /\ BeyondMargin(life[session])
        /\ Publish(session) /\ UNCHANGED <<shared, minted>>
     \/ /\ ~invalidated /\ snapshot \in {None, taken}
        /\ session # NoSession => ~BeyondMargin(life[session])
        /\ Proceed("credentials")
        /\ snapshot' = taken /\ session' = NoSession
        /\ UNCHANGED <<principal, invalidated, taken, owner>>
  /\ UNCHANGED <<world, callerVars>>

\* Inside the scheduler's permit, right before a call goes out.  No permit in time
\* and a policy that is unreadable or denies the call (verification_policy()) fail
\* the flight at any time; verification_active() looks at the context last.
Gate(at, to) ==
  /\ Running(at)
  /\ \/ Fail
     \/ /\ ~invalidated
        /\ Proceed(to)
        /\ UNCHANGED <<shared, taken, owner>>
  /\ UNCHANGED <<world, callerVars>>

GateCredentials == Gate("credentials", "resolving")
GateIdentity == Gate("caller", "asking")

\* resolve_sso() answers, with credentials of whoever is signed in by now;
\* credentials without an expiry or too close to it are refused.
Resolve ==
  /\ Running("resolving")
  /\ \/ Fail /\ UNCHANGED life
     \/ /\ Proceed("caller")
        /\ owner' \in Principals \cup {Foreign}
        /\ life' = [life EXCEPT ![flight] = "fresh"]
        /\ UNCHANGED <<shared, taken>>
  /\ UNCHANGED <<config, callerVars>>

\* caller_identity() answers: not in time or incompletely, for another account, or
\* with the principal the credentials belong to.
Identify ==
  /\ Running("asking")
  /\ \/ Fail
     \/ owner = Foreign /\ FailForGood
     \/ /\ owner # Foreign
        /\ Proceed("rereading")
        /\ UNCHANGED <<shared, taken, owner>>
  /\ UNCHANGED <<world, callerVars>>

\* The configuration is read again, then the clock.
Reread ==
  /\ Running("rereading")
  /\ \/ config # taken /\ FailForGood
     \/ config = taken /\ ~Unexpired(life[flight]) /\ Fail
     \/ /\ config = taken /\ Unexpired(life[flight])
        /\ Proceed("installing")
        /\ UNCHANGED <<shared, taken, owner>>
  /\ UNCHANGED <<world, callerVars>>

Installed ==
  /\ principal' = owner /\ session' = flight
  /\ minted' = minted \cup
       {[revision |-> flight, principal |-> owner, snapshot |-> taken]}
  /\ Publish(flight)
  /\ UNCHANGED <<snapshot, invalidated>>

\* The last critical section: the session becomes the context's, unless the
\* context was invalidated meanwhile or belongs to another principal.
Install ==
  /\ Running("installing")
  /\ \/ invalidated /\ Fail
     \/ ~invalidated /\ principal \notin {None, owner} /\ FailForGood
     \/ ~invalidated /\ principal \in {None, owner} /\ Installed
  /\ UNCHANGED <<world, callerVars>>

\* catch_unwind(): a panic anywhere is published like any other result.
Panic ==
  /\ worker # "over"
  /\ Fail
  /\ UNCHANGED <<world, callerVars>>

Work ==
  \/ ReadConfig \/ Examine \/ GateCredentials \/ Resolve
  \/ GateIdentity \/ Identify \/ Reread \/ Install

-----------------------------------------------------------------------------
(* Callers: verified_session() and ensure_current() *)

Goto(c, to) == caller' = [caller EXCEPT ![c] = to]

Over(n) == n < flight \/ worker = "over"

\* Under the flight's mutex: subscribe to the flight that has not published yet,
\* or start the next one.
Join(c) ==
  /\ caller[c] = "out"
  /\ Goto(c, "waiting")
  /\ \/ /\ ~Over(flight)
        /\ channel' = [channel EXCEPT ![c] = flight]
        /\ UNCHANGED flightVars
     \/ /\ Over(flight) /\ flight < Flights
        /\ flight' = flight + 1 /\ worker' = "reading"
        /\ taken' = None /\ owner' = None
        /\ channel' = [channel EXCEPT ![c] = flight + 1]
        /\ UNCHANGED <<outcome, minted>>
  /\ UNCHANGED <<world, shared, held>>

\* The caller has its error, or has gone: it holds no session.
Out(c) ==
  /\ Goto(c, "out")
  /\ held' = [held EXCEPT ![c] = NoSession]
  /\ channel' = [channel EXCEPT ![c] = 0]

\* The channel has a value, perhaps since before c first looked.
Receive(c) ==
  /\ caller[c] = "waiting" /\ Over(channel[c])
  /\ LET n == outcome[channel[c]] IN
       \/ n = NoSession /\ Out(c)
       \/ /\ n # NoSession
          /\ Goto(c, "checking")
          /\ held' = [held EXCEPT ![c] = n]
          /\ channel' = [channel EXCEPT ![c] = 0]
  /\ UNCHANGED <<world, shared, flightVars>>

Minted(n) == CHOOSE s \in minted : s.revision = n

\* ensure_current(), outside the lock: the file must still say what the session
\* was verified against.
Compare(c) ==
  /\ caller[c] = "checking"
  /\ \/ /\ config # Minted(held[c]).snapshot
        /\ Invalidate /\ Out(c)
     \/ /\ config = Minted(held[c]).snapshot
        /\ Goto(c, "fencing")
        /\ UNCHANGED <<shared, channel, held>>
  /\ UNCHANGED <<world, flightVars>>

\* Mutant: the fence looks at the expiry only.
FenceExpiry(c) ==
  /\ caller[c] = "fencing"
  /\ \/ ~Unexpired(life[held[c]]) /\ Out(c)
     \/ Unexpired(life[held[c]]) /\ Goto(c, "using") /\ UNCHANGED <<channel, held>>
  /\ UNCHANGED <<world, shared, flightVars>>

\* ensure_current(), under the lock: neither the context is over nor did a newer
\* session replace this one, and the credentials are still good.
Fence(c) ==
  /\ caller[c] = "fencing"
  /\ LET current == ~invalidated /\ session = held[c] /\ Unexpired(life[held[c]]) IN
       \/ ~current /\ Out(c)
       \/ current /\ Goto(c, "using") /\ UNCHANGED <<channel, held>>
  /\ UNCHANGED <<world, shared, flightVars>>

\* A request fences its session again before it starts work, every 100 ms and
\* before it delivers a result.
Revalidate(c) ==
  /\ caller[c] = "using"
  /\ Goto(c, "checking")
  /\ UNCHANGED <<world, shared, flightVars, channel, held>>

\* The caller's future is dropped: cancellation or deadline of its request, or it
\* is done with the session.
Leave(c) ==
  /\ caller[c] \in {"waiting", "using"}
  /\ Out(c)
  /\ UNCHANGED <<world, shared, flightVars>>

-----------------------------------------------------------------------------
(* The world *)

Reconfigure ==
  /\ config' \in (Snapshots \cup {None}) \ {config}
  /\ UNCHANGED <<life, shared, flightVars, callerVars>>

Age(n) ==
  /\ life[n] # "expired"
  /\ life' = [life EXCEPT ![n] = IF @ = "fresh" THEN "closing" ELSE "expired"]
  /\ UNCHANGED <<config, shared, flightVars, callerVars>>

World == Reconfigure \/ \E n \in Revisions : Age(n)

Init ==
  /\ config \in Snapshots /\ life = [n \in Revisions |-> "expired"]
  /\ snapshot = None /\ principal = None /\ session = NoSession /\ invalidated = FALSE
  /\ flight = 0 /\ worker = "over" /\ taken = None /\ owner = None
  /\ outcome = [n \in Revisions |-> NoSession] /\ minted = {}
  /\ caller = [c \in Callers |-> "out"] /\ channel = [c \in Callers |-> 0]
  /\ held = [c \in Callers |-> NoSession]

Next ==
  \/ Work \/ Panic \/ World
  \/ \E c \in Callers :
       Join(c) \/ Receive(c) \/ Compare(c) \/ Fence(c) \/ Revalidate(c) \/ Leave(c)

Spec == Init /\ [][Next]_vars

-----------------------------------------------------------------------------
(* Types; what is promised beyond them is in ContextSessions *)

\* Every variable keeps its type.
TypeOK ==
  /\ config \in Snapshots \cup {None} /\ life \in [Revisions -> Lives]
  /\ snapshot \in Snapshots \cup {None} /\ principal \in Principals \cup {None}
  /\ session \in 0 .. Flights /\ invalidated \in BOOLEAN
  /\ flight \in 0 .. Flights /\ worker \in WorkerStates
  /\ taken \in Snapshots \cup {None} /\ owner \in Principals \cup {Foreign, None}
  /\ outcome \in [Revisions -> 0 .. Flights] /\ minted \subseteq Sessions
  /\ caller \in [Callers -> PCs] /\ channel \in [Callers -> 0 .. Flights]
  /\ held \in [Callers -> 0 .. Flights]
=============================================================================
