------------------------------- MODULE MCFiles -------------------------------
(***************************************************************************)
(* The files the application keeps, explored in four parts that share no   *)
(* state; a behaviour is in one of them.                                   *)
(*   saves    three saves of one JSON file, and a restart;                 *)
(*   policy   two threads read and save the policy, and a restart;         *)
(*   history  five activity records in three files of one record each, a   *)
(*            flush, changes of retention, preservation and a restart;     *)
(*   pages    an activity file of up to six bytes is read in pages of two  *)
(*            records, and rotated once.                                   *)
(***************************************************************************)
EXTENDS Storage, AuditLog, AuditReader

VARIABLE part

MCInit ==
  /\ part \in {"saves", "policy", "history", "pages"}
  /\ Init /\ (part # "policy" => policy = "missing")
  /\ LogInit /\ ReaderInit

MCNext ==
  /\ UNCHANGED part
  /\ \/ /\ part \in {"saves", "policy"} /\ Next
        /\ IF part = "saves" THEN UNCHANGED policyVars ELSE UNCHANGED store
        /\ UNCHANGED <<logVars, readerVars>>
     \/ part = "history" /\ LogNext /\ UNCHANGED <<vars, readerVars>>
     \/ part = "pages" /\ ReaderNext /\ UNCHANGED <<vars, logVars>>

MCSpec == MCInit /\ [][MCNext]_<<part, vars, logVars, readerVars>>
=============================================================================
