--------------------------- MODULE ResourceBudget ---------------------------
(***************************************************************************)
(* What the scheduler promises its callers, with no queue, no ticket and   *)
(* no wake-up: a call holds at most one slot, a slot is taken only while   *)
(* its pool has room, and it is given back.  A pool is a set of calls with *)
(* a ceiling; the Ordinary pool of the code is covered twice, once by the  *)
(* app-wide ceiling and once per verified account/region/service.          *)
(***************************************************************************)
EXTENDS Integers, FiniteSets

CONSTANTS
  Calls,      \* the calls that may ask for a slot
  Pools,      \* the ceilings' names
  Members,    \* Members[p]: the calls that pool p counts
  Ceiling     \* Ceiling[p]: how many of them may hold a slot at once

VARIABLE holding    \* the calls that hold a slot

\* The calls of pool p among those that hold a slot.
InPool(p) == holding \cap Members[p]

Init == holding = {}

Take(c) ==
  /\ c \notin holding
  /\ \A p \in Pools : c \in Members[p] => Cardinality(InPool(p)) < Ceiling[p]
  /\ holding' = holding \cup {c}

Give(c) ==
  /\ c \in holding
  /\ holding' = holding \ {c}

Next == \E c \in Calls : Take(c) \/ Give(c)

Spec == Init /\ [][Next]_holding

=============================================================================
