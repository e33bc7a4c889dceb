------------------------------ MODULE MCWidgets ------------------------------
(***************************************************************************)
(* A widget request from its shape to its answer, in parts that share      *)
(* nothing but the variables they use; a behaviour is in one of them.      *)
(*   requests  requests and settings up to two changes from a good one;    *)
(*   profiles  configurations up to two edits from a good one;             *)
(*   commands  commands of up to three arguments of four operations;       *)
(*   globs     patterns and texts of up to four letters;                   *)
(*   dispatch  one call under a policy that changes twice;                 *)
(*   listings  up to three pages of three entries, for two rows;           *)
(*   reads     one response of up to three entries, for two rows, or up to *)
(*             three requests, two of them at a time.                      *)
(***************************************************************************)
EXTENDS Requests, SsoProfile, CliCommand, Glob, Dispatch, Listings, Reads

VARIABLE area

allVars ==
  <<area, requestVars, profileVars, commandVars, scanVars, vars, listVars, stage, readVars,
    answerVars>>

Effect(effect, actions) == [effect |-> effect, actions |-> actions]
Granted == {"GetRoleCredentials", "GetLogEvents", "StartQuery", "StopQuery"}

\* Everything, everything but one operation, an explicit denial, an invalid file.
MCPolicies ==
  {<<Effect("Allow", Granted)>>, <<Effect("Invalid", {})>>,
   <<Effect("Deny", {"GetLogEvents"}), Effect("Allow", Granted)>>}
    \cup {<<Effect("Allow", Granted \ {op})>> : op \in Granted}

\* A part that is not taken has no request, an empty file and nothing to do.
NoRequest ==
  /\ draft = [command |-> "none", fields |-> <<>>, inputs |-> <<>>, scopes |-> <<>>]
  /\ changes = 0 /\ saved = [settings |-> <<>>, tiles |-> <<>>]
NoProfile == sections = <<>> /\ edited = 0
NoCommand == verb = "none" /\ seen = <<>> /\ argv = <<>> /\ outcome = "unused"
NoScan == pattern = 0 /\ text = 0 /\ pi = 0 /\ ti = 0 /\ star = 0 /\ mark = 0 /\
  matched = "unused"
NoDispatch == file = 0 /\ edits = 0 /\ operation = 0 /\ cli = 0 /\ snapshot = 0 /\
  progress = "unused" /\ current = 0 /\ cancelled = 0 /\ allowedSince = 0
NoListing == kind = 0 /\ budget = 0 /\ rows = 0 /\ token = 0 /\ error = 0 /\ limited = 0
NoRead == widget = 0 /\ jobs = 0 /\ running = 0 /\ settled = 0 /\ part = 0 /\ order = <<>>

MCInit ==
  /\ area \in {"requests", "profiles", "commands", "globs", "dispatch", "listings", "reads"}
  /\ IF area = "requests" THEN RequestInit ELSE NoRequest
  /\ IF area = "profiles" THEN ProfileInit ELSE NoProfile
  /\ IF area = "commands" THEN CommandInit ELSE NoCommand
  /\ IF area = "globs" THEN ScanInit ELSE NoScan
  /\ IF area = "dispatch" THEN Init ELSE NoDispatch
  /\ IF area = "listings" THEN ListInit ELSE NoListing
  /\ IF area = "reads" THEN ReadsInit ELSE NoRead
  /\ IF area \notin {"listings", "reads"} THEN stage = "unused" /\ AnswerInit ELSE TRUE

MCNext ==
  /\ UNCHANGED area
  /\ \/ /\ area = "requests" /\ RequestNext
        /\ UNCHANGED <<profileVars, commandVars, scanVars, vars, listVars, stage,
                       readVars, answerVars>>
     \/ /\ area = "profiles" /\ ProfileNext
        /\ UNCHANGED <<requestVars, commandVars, scanVars, vars, listVars, stage,
                       readVars, answerVars>>
     \/ /\ area = "commands" /\ CommandNext
        /\ UNCHANGED <<requestVars, profileVars, scanVars, vars, listVars, stage,
                       readVars, answerVars>>
     \/ /\ area = "globs" /\ ScanNext
        /\ UNCHANGED <<requestVars, profileVars, commandVars, vars, listVars, stage,
                       readVars, answerVars>>
     \/ /\ area = "dispatch" /\ Next
        /\ UNCHANGED <<requestVars, profileVars, commandVars, scanVars, listVars, stage,
                       readVars, answerVars>>
     \/ /\ area = "listings" /\ ListNext
        /\ UNCHANGED <<requestVars, profileVars, commandVars, scanVars, vars, readVars>>
     \/ /\ area = "reads" /\ ReadsNext
        /\ UNCHANGED <<requestVars, profileVars, commandVars, scanVars, vars, listVars>>

MCSpec == MCInit /\ [][MCNext]_allVars
=============================================================================
