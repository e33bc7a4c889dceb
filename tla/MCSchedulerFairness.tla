---------------------------- MODULE MCSchedulerFairness ----------------------------
(***************************************************************************)
(* Interactive calls i1 and i2 and the background call b1 compete for the  *)
(* one permit of a service; x1 asks for a permit of another one.           *)
(***************************************************************************)
EXTENDS SchedulerFairness

CONSTANTS i1, i2, b1, x1    \* calls
CONSTANTS ui, bg               \* scopes
CONSTANTS logs, cfn                \* services

MCScopeOf == [c \in Calls |-> IF c = b1 THEN bg ELSE ui]
MCServiceOf == [c \in Calls |-> IF c = x1 THEN cfn ELSE logs]
MCKindOf == [c \in Calls |-> "ordinary"]
MCLimit == [k \in Kinds |-> IF k = "ordinary" THEN 2 ELSE 1]
=============================================================================
