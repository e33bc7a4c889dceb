------------------------------ MODULE Storage ------------------------------
(***************************************************************************)
(* The application's saved files.  A JSON file (settings or dashboard) is  *)
(* replaced by storage.rs: a save takes a ticket when it is accepted, may  *)
(* be serialized in any order, and writes a temporary file that is renamed *)
(* over the live one if no later save has been accepted.  The policy file  *)
(* is read, created, upgraded and saved by aws/policy.rs under one lock.   *)
(*                                                                         *)
(* Any file operation may fail, and the process may die at any step and be *)
(* started again: tickets and locks are gone then, files are not.          *)
(***************************************************************************)
EXTENDS Integers, FiniteSets

CONSTANTS
  Saves,      \* write_json() calls on one file, each made once
  Users,      \* threads that read or save the policy
  Texts,      \* valid policy texts somebody may save
  Restarts,   \* how often the process dies
  Nobody

ASSUME StorageAssumption ==
  /\ Nobody \notin Saves \cup Users
  /\ {"missing", "legacy", "default", "unreadable"} \cap Texts = {}
  /\ Restarts \in Nat

VARIABLES
  live,       \* whose document the live file holds, Nobody's before the first
  temporary,  \* temporary[s]: s's temporary file
  accepted,   \* history: the saves in the order they were accepted
  nextTicket, \* FileOrder.next_ticket
  ticket,     \* ticket[s]
  pc,         \* where each save is
  told,       \* told[s]: what its caller was answered
  replacement,\* FileOrder.replacement: who holds it
  restarts,
  policy,     \* the policy file
  edited,     \* history: whether an editor outside changed it since a user read it
  policyLock, \* POLICY_IO
  doing,      \* doing[u]: where each policy user is
  candidate   \* candidate[u]: the text u is going to write

store == <<live, temporary, accepted, nextTicket, ticket, pc, told, replacement>>
policyVars == <<policy, edited, policyLock, doing, candidate>>
vars == <<store, policyVars, restarts>>

-----------------------------------------------------------------------------
(* Store::write_json() and replace_bytes() *)

Goto(s, to) == pc' = [pc EXCEPT ![s] = to]
Answer(s, result) == told' = [told EXCEPT ![s] = result] /\ Goto(s, "done")

Accept(s) ==
  /\ pc[s] = "idle"
  /\ nextTicket' = nextTicket + 1
  /\ ticket' = [ticket EXCEPT ![s] = nextTicket + 1]
  /\ accepted' = accepted \cup {<<Cardinality(accepted), s>>}
  /\ Goto(s, "serializing")
  /\ UNCHANGED <<live, temporary, told, replacement, policyVars, restarts>>

\* Outside any lock; a document over MAX_FILE_BYTES fails here.
Serialize(s) ==
  /\ pc[s] = "serializing"
  /\ \/ Answer(s, "failed")
     \/ Goto(s, "locking") /\ UNCHANGED told
  /\ UNCHANGED <<live, temporary, accepted, nextTicket, ticket, replacement, policyVars,
                 restarts>>

Latest(s) == ticket[s] = nextTicket

Lock(s) ==
  /\ pc[s] = "locking" /\ replacement = Nobody
  /\ \/ ~Latest(s) /\ Answer(s, "superseded") /\ UNCHANGED replacement
     \/ Latest(s) /\ Goto(s, "creating") /\ replacement' = s /\ UNCHANGED told
  /\ UNCHANGED <<live, temporary, accepted, nextTicket, ticket, policyVars, restarts>>

\* A save that fails lets its lock go; its temporary file is removed, or is left
\* where it is when that fails too.
Abandon(s, result) ==
  /\ Answer(s, result)
  /\ replacement' = Nobody
  /\ \/ temporary' = [temporary EXCEPT ![s] = "none"]
     \/ UNCHANGED temporary

\* The directory cannot be made private, or a file of that name is there already:
\* nothing of this save's exists yet.
Create(s) ==
  /\ pc[s] = "creating"
  /\ \/ Answer(s, "failed") /\ replacement' = Nobody /\ UNCHANGED temporary
     \/ /\ Goto(s, "writing")
        /\ temporary' = [temporary EXCEPT ![s] = "partial"]
        /\ UNCHANGED <<told, replacement>>
  /\ UNCHANGED <<live, accepted, nextTicket, ticket, policyVars, restarts>>

WriteAndSync(s) ==
  /\ pc[s] = "writing"
  /\ \/ Abandon(s, "failed")
     \/ /\ Goto(s, "fencing")
        /\ temporary' = [temporary EXCEPT ![s] = "whole"]
        /\ UNCHANGED <<told, replacement>>
  /\ UNCHANGED <<live, accepted, nextTicket, ticket, policyVars, restarts>>

\* can_replace(): a save accepted meanwhile will do better.
Fence(s) ==
  /\ pc[s] = "fencing"
  /\ \/ ~Latest(s) /\ Abandon(s, "superseded")
     \/ Latest(s) /\ Goto(s, "renaming") /\ UNCHANGED <<temporary, told, replacement>>
  /\ UNCHANGED <<live, accepted, nextTicket, ticket, policyVars, restarts>>

\* Mutant: what could not be renamed is reported as saved.
RenameHopefully(s) ==
  /\ pc[s] = "renaming"
  /\ replacement' = Nobody /\ Answer(s, "saved")
  /\ temporary' = [temporary EXCEPT ![s] = "none"]
  /\ live' \in {live, s}
  /\ UNCHANGED <<accepted, nextTicket, ticket, policyVars, restarts>>

Rename(s) ==
  /\ pc[s] = "renaming"
  /\ \/ Abandon(s, "failed") /\ UNCHANGED live
     \/ /\ live' = s
        /\ temporary' = [temporary EXCEPT ![s] = "none"]
        /\ replacement' = Nobody /\ Answer(s, "saved")
  /\ UNCHANGED <<accepted, nextTicket, ticket, policyVars, restarts>>

Save(s) ==
  \/ Accept(s) \/ Serialize(s) \/ Lock(s) \/ Create(s)
  \/ WriteAndSync(s) \/ Fence(s) \/ Rename(s)

-----------------------------------------------------------------------------
(* The policy file: raw_text() and write_text() *)

Do(u, step) == doing' = [doing EXCEPT ![u] = step]

\* raw_text(), up to what it is going to write: nothing, a default for a missing
\* file, or today's default for one of the old ones, unedited.
ReadPolicy(u) ==
  /\ doing[u] = "idle" /\ policyLock = Nobody
  /\ \/ policy \notin {"missing", "legacy"} /\ UNCHANGED <<edited, policyLock, doing, candidate>>
     \/ /\ policy \in {"missing", "legacy"}
        /\ policyLock' = u /\ Do(u, "replacing")
        /\ candidate' = [candidate EXCEPT ![u] = "default"]
        /\ edited' = FALSE
  /\ UNCHANGED <<policy, store, restarts>>

\* Mutant: saving does not wait for a read that is creating or upgrading the file.
SaveUnlocked(u) ==
  /\ doing[u] = "idle"
  /\ \E text \in Texts : policy' = text
  /\ UNCHANGED <<edited, policyLock, doing, candidate, store, restarts>>

\* write_text(): a text that does not parse is refused before.
SavePolicy(u) ==
  /\ doing[u] = "idle" /\ policyLock = Nobody
  /\ policyLock' = u /\ Do(u, "replacing")
  /\ \E text \in Texts : candidate' = [candidate EXCEPT ![u] = text]
  /\ edited' = FALSE
  /\ UNCHANGED <<policy, store, restarts>>

\* replace_bytes(), which either replaces the whole file or nothing.
ReplacePolicy(u) ==
  /\ doing[u] = "replacing"
  /\ policy' \in {policy, candidate[u]}
  /\ policyLock' = Nobody /\ Do(u, "idle")
  /\ candidate' = [candidate EXCEPT ![u] = "missing"]
  /\ UNCHANGED <<edited, store, restarts>>

\* Somebody edits the file outside the application, under no lock.
EditOutside ==
  /\ policy' \in (Texts \cup {"missing", "legacy", "unreadable"}) \ {policy}
  /\ edited' = TRUE
  /\ UNCHANGED <<policyLock, doing, candidate, store, restarts>>

UsePolicy(u) == ReadPolicy(u) \/ SavePolicy(u) \/ ReplacePolicy(u)

-----------------------------------------------------------------------------

\* The process dies, and another one is started: callers get no answer.
Restart ==
  /\ restarts < Restarts /\ restarts' = restarts + 1
  /\ pc' = [s \in Saves |-> IF pc[s] = "idle" THEN "idle" ELSE "done"]
  /\ nextTicket' = 0 /\ ticket' = [s \in Saves |-> 0]
  /\ replacement' = Nobody /\ policyLock' = Nobody
  /\ doing' = [u \in Users |-> "idle"] /\ candidate' = [u \in Users |-> "missing"]
  /\ UNCHANGED <<live, temporary, accepted, told, policy, edited>>

Init ==
  /\ live = Nobody /\ temporary = [s \in Saves |-> "none"] /\ accepted = {}
  /\ nextTicket = 0 /\ ticket = [s \in Saves |-> 0]
  /\ pc = [s \in Saves |-> "idle"] /\ told = [s \in Saves |-> "nothing"]
  /\ replacement = Nobody /\ restarts = 0
  /\ policy \in {"missing", "legacy"} \cup Texts /\ edited = FALSE
  /\ policyLock = Nobody /\ doing = [u \in Users |-> "idle"]
  /\ candidate = [u \in Users |-> "missing"]

Next ==
  \/ \E s \in Saves : Save(s)
  \/ \E u \in Users : UsePolicy(u)
  \/ EditOutside \/ Restart

Spec == Init /\ [][Next]_vars

-----------------------------------------------------------------------------
(* Properties *)

AcceptedBefore(s, t) ==
  \E i, j \in 0 .. Cardinality(accepted) :
    i < j /\ <<i, s>> \in accepted /\ <<j, t>> \in accepted

\* However slowly saves are serialized and wherever they fail or the process dies:
\* the live file is a whole document of a save that was not told that it failed, and
\* of none that was accepted before one reported as saved.
LiveIsLatestSaved ==
  /\ live # Nobody => told[live] \notin {"failed", "superseded"}
  /\ \A s \in Saves : told[s] = "saved" => live = s \/ AcceptedBefore(s, live)

\* A policy that somebody saved is never replaced by the default that a reader
\* found it should write before.
SavedPolicyKept ==
  [][policy' = "default" /\ policy \notin {"missing", "legacy", "default"} => edited]_vars
=============================================================================
