-------------------------- MODULE ContextSessions --------------------------
(***************************************************************************)
(* One AWS context (aws/context.rs) as those who use its sessions see it:  *)
(* its state, the callers that share its verification, and what they may   *)
(* rely on.  Verification says how it comes to hold.                       *)
(***************************************************************************)
CONSTANTS
  Callers,     \* callers of verified_session()
  Foreign      \* a principal of another account

\* No session is installed, or was published.
NoSession == 0

VARIABLES
  config,      \* the configuration file: a snapshot, or None when it is unsupported
  life,        \* life[n]: what is left of the credentials obtained in flight n
  snapshot,    \* SessionState.snapshot
  principal,   \* SessionState.principal
  session,     \* SessionState.session: the revision of the installed session
  invalidated, \* SessionState.invalidated
  flight,      \* verification_flight: the latest flight, 0 before the first
  worker,      \* where the latest flight's worker is
  taken,       \* the snapshot that worker works with
  owner,       \* who the credentials it obtained belong to
  outcome,     \* outcome[n]: the session flight n published, NoSession for an error
  minted,      \* the sessions ever installed; callers keep theirs by reference
  caller,      \* where each caller is
  channel,     \* channel[c]: the flight c has subscribed to
  held         \* held[c]: the revision of the session c was handed

shared == <<snapshot, principal, session, invalidated>>
world == <<config, life>>
flightVars == <<flight, worker, taken, owner, outcome, minted>>
callerVars == <<caller, channel, held>>
verification == <<world, shared, flightVars, callerVars>>

-----------------------------------------------------------------------------
(* Properties *)

\* However often credentials are refreshed, and whoever signed in or edited the
\* configuration meanwhile, all sessions a context ever had are for one principal
\* of the selected account and one configuration.
SessionsAgree ==
  /\ \A s, t \in minted : s.principal = t.principal /\ s.snapshot = t.snapshot
  /\ \A s \in minted : s.principal # Foreign

\* A context found changed by anyone (its worker or a caller's fence) is over: no
\* session is installed afterwards, not by a verification in flight either, and no
\* caller starts to use one.
InvalidatedForGood ==
  [][invalidated =>
       /\ invalidated' /\ session' = NoSession
       /\ \A c \in Callers : caller'[c] = "using" => caller[c] = "using"]_verification
=============================================================================
