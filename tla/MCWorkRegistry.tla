--------------------------- MODULE MCWorkRegistry ---------------------------
(***************************************************************************)
(* Two requests share a key; the third asks for other work and carries the *)
(* id of the first, as a frontend that reuses an id would.                 *)
(***************************************************************************)
EXTENDS WorkRegistry

CONSTANTS r1, r2, r3    \* requests
CONSTANTS a, b              \* ids
CONSTANTS shared, other     \* keys

MCIdOf == [r \in Requests |-> IF r = r2 THEN b ELSE a]
MCKeyOf == [r \in Requests |-> IF r = r3 THEN other ELSE shared]
=============================================================================
