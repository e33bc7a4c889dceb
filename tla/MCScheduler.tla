---------------------------- MODULE MCScheduler ----------------------------
(***************************************************************************)
(* Two small mixes of calls for the scheduler.                             *)
(*   mixed    two interactive calls on one service, a background call and  *)
(*            a bare acquire on services of their own, with room for two   *)
(*            ordinary permits: both ceilings bind, and so does the queue; *)
(*   cleanup  two cleanup calls competing for one slot while interactive   *)
(*            and background calls compete for theirs.                     *)
(***************************************************************************)
EXTENDS Scheduler

CONSTANTS i1, i2, b1, x1, c1, c2    \* calls
CONSTANTS ui, bg, cl                \* scopes
CONSTANTS logs, cfn, sts                \* services

MCScopeOf ==
  [c \in Calls |-> CASE c \in {b1} -> bg [] c \in {c1, c2} -> cl [] OTHER -> ui]
MCServiceOf == [c \in Calls |-> CASE c = b1 -> cfn [] c = x1 -> sts [] OTHER -> logs]
MCOneService == [c \in Calls |-> logs]
MCKindOf == [c \in Calls |-> IF c \in {c1, c2} THEN "cleanup" ELSE "ordinary"]
MCLimit == [k \in Kinds |-> IF k = "ordinary" THEN 2 ELSE 1]
=============================================================================
