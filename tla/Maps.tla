-------------------------------- MODULE Maps --------------------------------
(***************************************************************************)
(* Functions put together from functions: the operators of TLC, defined    *)
(* here because the provers do not look into that module.                  *)
(***************************************************************************)

\* The function that takes d to e.
d := e == [x \in {d} |-> e]

\* Both functions in one; the first prevails.
f ++ g ==
  [x \in DOMAIN f \cup DOMAIN g |-> IF x \in DOMAIN f THEN f[x] ELSE g[x]]

\* The function that takes every name to one value.
All(names, value) == [name \in names |-> value]
=============================================================================
