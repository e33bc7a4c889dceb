----------------------------- MODULE MCContexts -----------------------------
(***************************************************************************)
(* Contexts, explored in five parts that share no state; a behaviour is    *)
(* in one of them.                                                         *)
(*   verification  two callers verify one context, at most twice;          *)
(*   requests      two widget requests, pinned or not, and one account     *)
(*                 selection; one file changes, but not while all three    *)
(*                 are on their way;                                       *)
(*   policies      two requests for one pinned scope while the policy      *)
(*                 changes twice;                                          *)
(*   selections    two account selections and a request that inherits,     *)
(*                 while files change twice;                               *)
(*   limits        three requests that are verified, up to their policy    *)
(*                 check, for two pinned scopes while no file changes.     *)
(***************************************************************************)
EXTENDS Connection, ContextSessions, TLC

CONSTANTS Third, FirstPin, Snapshots, Principals, Flights

VARIABLE part

Verification == INSTANCE Verification

ASSUME Verification!VerificationAssumption

Parts == {"verification", "requests", "policies", "selections", "limits"}

MCInit ==
  /\ part \in Parts
  /\ Init
  /\ Verification!Init /\ config = CHOOSE s \in Snapshots : TRUE

Started(actors) == {a \in actors : pc'[a] # "idle"}
Over(actors) == {a \in actors : pc'[a] \in Ends}
Scopes == {contexts[id].scope : id \in DOMAIN contexts}

Requesting ==
  /\ Started({Third}) = {} /\ Cardinality(Started(Selections)) <= 1
  /\ Scopes' \subseteq {Selected, FirstPin}
  /\ edits' <= 1
  /\ edits' = 0 \/ Cardinality(Started(Requests)) <= 1
                \/ Started(Selections) = Over(Selections)

Repolicing ==
  /\ Started({Third} \cup Selections) = {} /\ Scopes' \subseteq {FirstPin}
  /\ changed' = {} /\ saved' = FirstSettings

Selecting == Started(Requests \ {Third}) = {} /\ Scopes' \subseteq {Selected}

Limiting ==
  /\ edits' = 0 /\ Started(Selections) = {}
  /\ \A r \in Requests : pc[r] # "permitted" \/ pc'[r] = pc[r]

Connected ==
  /\ Next
  /\ CASE part = "requests" -> Requesting
       [] part = "policies" -> Repolicing
       [] part = "selections" -> Selecting
       [] part = "limits" -> Limiting
  /\ UNCHANGED verification

MCNext ==
  /\ UNCHANGED part
  /\ \/ part # "verification" /\ Connected
     \/ part = "verification" /\ Verification!Next /\ UNCHANGED vars

MCSpec == MCInit /\ [][MCNext]_<<part, vars, verification>>

Symmetry == Permutations(Requests \ {Third}) \cup Permutations(Selections)
=============================================================================
