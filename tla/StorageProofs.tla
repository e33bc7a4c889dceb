---------------------------- MODULE StorageProofs ----------------------------
(***************************************************************************)
(* Proofs about the files the application keeps: about Storage, for any    *)
(* saves, users and texts; about AuditLog, for any number of records,      *)
(* flushes and files and any capacity, and any number of restarts; and     *)
(* about AuditReader, for files, records and pages of any length.          *)
(*                                                                         *)
(* A save may rename its file only while it holds the replacement lock,    *)
(* and it took the lock as the latest save accepted: whatever is reported  *)
(* as saved by then was accepted before it (HolderIsNewest).  A save that  *)
(* is still under way and latest by its ticket is the last one of          *)
(* accepted, for tickets do not outlive the process (LatestIsLast).        *)
(*                                                                         *)
(* A flush that waits comes after every record that had returned before    *)
(* it, unless that is written or its loss noted already (FlushInv).        *)
(* Records leave the queue in the order of their numbers, so that each is  *)
(* the newest of the history when it is appended (HistoryInv).             *)
(*                                                                         *)
(* A page is read byte by byte, so its proof is by induction on the bytes: *)
(* at each, what would be answered is exact up to the offset that would be *)
(* returned, and no line ends between that offset and the byte (Reading,   *)
(* and Gathering for the tail).  Hence each page keeps ReaderInv: what is  *)
(* shown is exact up to the cursor, and the cursor is between two lines or *)
(* in one that is too long already.                                        *)
(***************************************************************************)
EXTENDS Storage, AuditLog, AuditReader, FiniteSetTheorems, WellFoundedInduction, TLAPS

\* Where a save is past its acceptance, and where it holds the lock.
Replacing == {"creating", "writing", "fencing", "renaming"}
UnderWay == Replacing \cup {"serializing", "locking"}

\* Every save that was accepted has a number of its own, below how many there are.
Numbered ==
  /\ IsFiniteSet(accepted)
  /\ \A i, s : <<i, s>> \in accepted => i \in 0 .. Cardinality(accepted) - 1 /\ s \in Saves
  /\ \A i, s, t : <<i, s>> \in accepted /\ <<i, t>> \in accepted => s = t
  /\ \A s \in Saves : pc[s] # "idle" => \E i \in Nat : <<i, s>> \in accepted

\* Tickets are numbers, and callers are told one of three things.
Typed ==
  /\ nextTicket \in Nat /\ ticket \in [Saves -> Nat]
  /\ pc \in [Saves -> UnderWay \cup {"idle", "done"}]
  /\ told \in [Saves -> {"nothing", "failed", "superseded", "saved"}]

\* No save has a ticket that was not drawn.
Tickets == \A s \in Saves : pc[s] \in UnderWay => ticket[s] <= nextTicket

\* The latest save by its ticket is the last that was accepted.
LatestIsLast ==
  \A s \in Saves :
    pc[s] \in UnderWay /\ Latest(s) => <<Cardinality(accepted) - 1, s>> \in accepted

\* Only a save that is done was told anything.
Told == \A s \in Saves : told[s] # "nothing" => pc[s] = "done"

\* The lock is held by the save that is replacing the file, and every save that is
\* reported as saved was accepted before it.
HolderIsNewest ==
  \A s \in Saves : pc[s] \in Replacing =>
    /\ replacement = s
    /\ \A t \in Saves : told[t] = "saved" => AcceptedBefore(t, s)

\* What the live file holds was reported as saved.
LiveSaved ==
  /\ live # Nobody => live \in Saves /\ told[live] = "saved"
  /\ \A s \in Saves : told[s] = "saved" => live = s \/ AcceptedBefore(s, live)

StoreInv == Typed /\ Numbered /\ Tickets /\ LatestIsLast /\ Told /\ HolderIsNewest /\ LiveSaved

\* Whoever replaces the policy holds its lock; and a default it is going to write was
\* chosen for a file that nobody has given anything better since.
PolicyInv ==
  /\ doing \in [Users -> {"idle", "replacing"}]
  /\ candidate \in [Users -> Texts \cup {"missing", "default"}]
  /\ \A u \in Users : doing[u] = "replacing" =>
       /\ policyLock = u
       /\ candidate[u] = "default" /\ ~edited => policy \in {"missing", "legacy"}

-----------------------------------------------------------------------------
(* The policy file *)

\* At first nobody is using the policy.
LEMMA InitPolicy == Init => PolicyInv
BY DEF Init, PolicyInv

\* Every step keeps what is known of the policy's users.
LEMMA StepPolicy == PolicyInv /\ [Next]_vars => PolicyInv'
<1> SUFFICES ASSUME PolicyInv, [Next]_vars PROVE PolicyInv'
  OBVIOUS
<1> USE StorageAssumption DEF PolicyInv
<1>1. ASSUME NEW s \in Saves, Save(s) PROVE PolicyInv'
  <2>1. UNCHANGED policyVars
    BY <1>1 DEF Save, Accept, Serialize, Lock, Create, WriteAndSync, Fence, Rename, policyVars
  <2> QED
    BY <2>1 DEF policyVars
<1>2. ASSUME NEW u \in Users, ReadPolicy(u) PROVE PolicyInv'
  BY <1>2 DEF ReadPolicy, Do, StorageAssumption
<1>3. ASSUME NEW u \in Users, SavePolicy(u) PROVE PolicyInv'
  BY <1>3 DEF SavePolicy, Do, StorageAssumption
<1>4. ASSUME NEW u \in Users, ReplacePolicy(u) PROVE PolicyInv'
  BY <1>4 DEF ReplacePolicy, Do
<1>5. CASE EditOutside
  BY <1>5 DEF EditOutside
<1>6. CASE Restart
  BY <1>6 DEF Restart
<1>7. CASE UNCHANGED vars
  BY <1>7 DEF vars, policyVars
<1> QED
  BY <1>1, <1>2, <1>3, <1>4, <1>5, <1>6, <1>7 DEF Next, UsePolicy

\* A policy that somebody saved is not lost to the default of a reader, unless an
\* editor outside the application changed the file under its hands.
THEOREM SavedPolicyIsKept == Spec => SavedPolicyKept
<1> DEFINE Kept == policy' = "default" /\ policy \notin {"missing", "legacy", "default"} => edited
<1>1. PolicyInv /\ [Next]_vars => [Kept]_vars
  <2> SUFFICES ASSUME PolicyInv, Next, policy' = "default",
                      policy \notin {"missing", "legacy", "default"}
               PROVE edited
    OBVIOUS
  <2>1. PICK u \in Users : ReplacePolicy(u)
    <3>1. policy' # policy
      OBVIOUS
    <3>2. ~EditOutside
      BY StorageAssumption DEF EditOutside, StorageAssumption
    <3> QED
      BY <3>1, <3>2
      DEF Next, Save, Accept, Serialize, Lock, Create, WriteAndSync, Fence, Rename,
          UsePolicy, ReadPolicy, SavePolicy, Restart, policyVars
  <2> QED
    BY <2>1 DEF ReplacePolicy, PolicyInv
<1>2. Spec => []PolicyInv
  BY InitPolicy, StepPolicy, PTL DEF Spec
<1> QED
  BY <1>1, <1>2, PTL DEF Spec, SavedPolicyKept

-----------------------------------------------------------------------------
(* The saves of a JSON file *)

\* How many were accepted is a number, and what is accepted next comes after all of them.
LEMMA AcceptNumbers ==
  ASSUME Numbered
  PROVE  /\ Cardinality(accepted) \in Nat
         /\ \A s : LET more == accepted \cup {<<Cardinality(accepted), s>>} IN
              IsFiniteSet(more) /\ Cardinality(more) = Cardinality(accepted) + 1
<1>1. Cardinality(accepted) \in Nat
  BY FS_CardinalityType DEF Numbered
<1>2. \A s : <<Cardinality(accepted), s>> \notin accepted
  BY <1>1 DEF Numbered
<1> QED
  BY <1>1, <1>2, FS_AddElement DEF Numbered

\* Nothing was accepted.
LEMMA InitStore == Init => StoreInv
<1> SUFFICES ASSUME Init PROVE StoreInv
  OBVIOUS
<1>1. Numbered
  BY FS_EmptySet DEF Init, Numbered
<1>2. Typed
  BY DEF Init, Typed, UnderWay, Replacing
<1> QED
  BY <1>1, <1>2
  DEF Init, StoreInv, Tickets, LatestIsLast, Told, HolderIsNewest, LiveSaved, UnderWay, Replacing

\* A save that goes on, or ends without having replaced the file, keeps StoreInv: it
\* keeps its ticket, and takes the lock, if it does, as the latest save.
LEMMA GoOn ==
  ASSUME StoreInv, NEW s \in Saves, pc[s] \in UnderWay,
         NEW to \in UnderWay \cup {"done"}, pc' = [pc EXCEPT ![s] = to],
         \/ told' = told
         \/ /\ to = "done"
            /\ told' \in {[told EXCEPT ![s] = "failed"], [told EXCEPT ![s] = "superseded"]},
         UNCHANGED <<live, accepted, nextTicket, ticket>>,
         to \in Replacing =>
           /\ replacement' = s
           /\ pc[s] \in Replacing \/ (replacement = Nobody /\ Latest(s)),
         pc[s] \in Replacing \/ to \in Replacing \/ replacement' = replacement
  PROVE  StoreInv'
<1>0. Typed /\ Numbered /\ Tickets /\ LatestIsLast /\ Told /\ HolderIsNewest /\ LiveSaved
  BY DEF StoreInv
<1>1. /\ Typed' /\ Numbered' /\ Tickets'
      /\ Cardinality(accepted)' = Cardinality(accepted)
  BY <1>0 DEF Typed, Numbered, Tickets, UnderWay, Replacing
<1>2. \A t \in Saves : told'[t] = "saved" => told[t] = "saved"
  BY <1>0 DEF Typed
<1>3. \A t \in Saves : told[t] = "saved" => told'[t] = "saved"
  BY <1>0 DEF Told, Typed, UnderWay, Replacing
<1>4. \A t, u : AcceptedBefore(t, u)' <=> AcceptedBefore(t, u)
  BY DEF AcceptedBefore
<1>5. LatestIsLast'
  BY <1>0, <1>1 DEF LatestIsLast, Latest, Typed, UnderWay, Replacing
<1>6. Told'
  BY <1>0 DEF Told, Typed, UnderWay, Replacing
<1>7. LiveSaved'
  BY <1>0, <1>2, <1>3, <1>4 DEF LiveSaved
<1>8. HolderIsNewest'
  <2> SUFFICES ASSUME NEW h \in Saves, pc'[h] \in Replacing
               PROVE  /\ replacement' = h
                      /\ \A t \in Saves : told'[t] = "saved" => AcceptedBefore(t, h)'
    BY DEF HolderIsNewest
  <2>1. CASE h # s
    <3>1. pc[h] \in Replacing /\ replacement = h
      BY <2>1, <1>0 DEF Typed, HolderIsNewest
    <3>2. replacement' = replacement
      BY <3>1, <2>1, <1>0, StorageAssumption DEF HolderIsNewest, StorageAssumption
    <3> QED
      BY <3>1, <3>2, <1>0, <1>2, <1>4 DEF HolderIsNewest
  <2>2. CASE h = s
    <3>1. to \in Replacing /\ replacement' = s
      BY <2>2, <1>0 DEF Typed
    <3>2. CASE pc[s] \in Replacing
      BY <3>1, <3>2, <2>2, <1>0, <1>2, <1>4 DEF HolderIsNewest
    <3>3. CASE Latest(s)
      <4> SUFFICES ASSUME NEW t \in Saves, told[t] = "saved" PROVE AcceptedBefore(t, s)
        BY <3>1, <2>2, <1>2, <1>4
      <4>1. pc[t] = "done" /\ t # s
        BY <1>0 DEF Told, UnderWay, Replacing
      <4>2. PICK i \in Nat : <<i, t>> \in accepted
        BY <4>1, <1>0 DEF Numbered
      <4>3. <<Cardinality(accepted) - 1, s>> \in accepted
        BY <3>3, <1>0 DEF LatestIsLast
      <4>4. Cardinality(accepted) \in Nat
        BY <1>0, AcceptNumbers
      <4>5. i < Cardinality(accepted) - 1
        BY <4>1, <4>2, <4>3, <4>4, <1>0 DEF Numbered
      <4> QED
        BY <4>2, <4>3, <4>4, <4>5 DEF AcceptedBefore
    <3> QED
      BY <3>1, <3>2, <3>3
  <2> QED
    BY <2>1, <2>2
<1> QED
  BY <1>1, <1>5, <1>6, <1>7, <1>8 DEF StoreInv

\* A save that is accepted becomes the latest one, and all others stop being that.
LEMMA AcceptStep == ASSUME StoreInv, NEW s \in Saves, Accept(s) PROVE StoreInv'
<1>0. Typed /\ Numbered /\ Tickets /\ LatestIsLast /\ Told /\ HolderIsNewest /\ LiveSaved
  BY DEF StoreInv
<1>1. /\ Cardinality(accepted) \in Nat
      /\ IsFiniteSet(accepted)' /\ Cardinality(accepted)' = Cardinality(accepted) + 1
  BY <1>0, AcceptNumbers DEF Accept
<1>2. accepted' = accepted \cup {<<Cardinality(accepted), s>>}
  BY DEF Accept
<1>3. Numbered'
  <2>1. \A i, t : <<i, t>> \in accepted' =>
          <<i, t>> \in accepted \/ (i = Cardinality(accepted) /\ t = s)
    BY <1>2
  <2>2. \A i, t : <<i, t>> \in accepted' => i \in 0 .. Cardinality(accepted)' - 1 /\ t \in Saves
    BY <2>1, <1>0, <1>1 DEF Numbered
  <2>3. \A i, t, u : <<i, t>> \in accepted' /\ <<i, u>> \in accepted' => t = u
    BY <2>1, <1>0, <1>1 DEF Numbered
  <2>4. \A t \in Saves : pc'[t] # "idle" => \E i \in Nat : <<i, t>> \in accepted'
    BY <1>0, <1>1, <1>2 DEF Accept, Goto, Numbered, Typed
  <2> QED
    BY <1>1, <2>2, <2>3, <2>4 DEF Numbered
<1>4. Typed' /\ Tickets'
  BY <1>0 DEF Accept, Goto, Typed, Tickets, UnderWay, Replacing
<1>5. LatestIsLast'
  BY <1>0, <1>1 DEF Accept, Goto, Typed, Tickets, LatestIsLast, Latest, UnderWay, Replacing
<1>6. Told'
  BY <1>0 DEF Accept, Goto, Typed, Told
<1>7. \A t, u : AcceptedBefore(t, u) => AcceptedBefore(t, u)'
  <2> SUFFICES ASSUME NEW t, NEW u, AcceptedBefore(t, u) PROVE AcceptedBefore(t, u)'
    OBVIOUS
  <2>1. PICK i, j \in 0 .. Cardinality(accepted) :
          i < j /\ <<i, t>> \in accepted /\ <<j, u>> \in accepted
    BY DEF AcceptedBefore
  <2>2. i \in 0 .. Cardinality(accepted)' /\ j \in 0 .. Cardinality(accepted)'
    BY <2>1, <1>1
  <2>3. <<i, t>> \in accepted' /\ <<j, u>> \in accepted'
    BY <2>1, <1>2
  <2> QED
    BY <2>1, <2>2, <2>3 DEF AcceptedBefore
<1>8. HolderIsNewest'
  BY <1>0, <1>7 DEF Accept, Goto, Typed, HolderIsNewest, Replacing
<1>9. LiveSaved'
  BY <1>0, <1>7 DEF Accept, LiveSaved
<1> QED
  BY <1>3, <1>4, <1>5, <1>6, <1>8, <1>9 DEF StoreInv

\* A save that renames its file holds the lock: all that is reported as saved was
\* accepted before it.
LEMMA RenamedStep ==
  ASSUME StoreInv, NEW s \in Saves, pc[s] = "renaming", live' = s,
         told' = [told EXCEPT ![s] = "saved"], pc' = [pc EXCEPT ![s] = "done"],
         UNCHANGED <<accepted, nextTicket, ticket>>
  PROVE  StoreInv'
<1>0. Typed /\ Numbered /\ Tickets /\ LatestIsLast /\ Told /\ HolderIsNewest /\ LiveSaved
  BY DEF StoreInv
<1>1. /\ Typed' /\ Numbered' /\ Tickets' /\ Told'
      /\ Cardinality(accepted)' = Cardinality(accepted)
  BY <1>0 DEF Typed, Numbered, Tickets, Told, UnderWay, Replacing
<1>2. LatestIsLast'
  BY <1>0, <1>1 DEF LatestIsLast, Latest, Typed, UnderWay, Replacing
<1>3. HolderIsNewest'
  BY <1>0 DEF HolderIsNewest, Typed, Replacing
<1>4. \A t, u : AcceptedBefore(t, u)' <=> AcceptedBefore(t, u)
  BY DEF AcceptedBefore
<1>5. LiveSaved'
  BY <1>0, <1>4 DEF LiveSaved, HolderIsNewest, Typed, Replacing
<1> QED
  BY <1>1, <1>2, <1>3, <1>5 DEF StoreInv

\* After a restart no save is under way.
LEMMA RestartStep == ASSUME StoreInv, Restart PROVE StoreInv'
<1>0. Typed /\ Numbered /\ Told /\ LiveSaved
  BY DEF StoreInv
<1>1. Typed' /\ Numbered'
  BY <1>0 DEF Restart, Typed, Numbered
<1>2. Tickets' /\ LatestIsLast' /\ HolderIsNewest'
  BY DEF Restart, Tickets, LatestIsLast, HolderIsNewest, UnderWay, Replacing
<1>3. Told'
  BY <1>0 DEF Restart, Told
<1>4. LiveSaved'
  <2>1. \A t, u : AcceptedBefore(t, u)' <=> AcceptedBefore(t, u)
    BY DEF Restart, AcceptedBefore
  <2> QED
    BY <2>1, <1>0 DEF Restart, LiveSaved
<1> QED
  BY <1>1, <1>2, <1>3, <1>4 DEF StoreInv

\* Every step keeps StoreInv.
LEMMA StepStore == StoreInv /\ [Next]_vars => StoreInv'
<1> SUFFICES ASSUME StoreInv, [Next]_vars PROVE StoreInv'
  OBVIOUS
<1>1. ASSUME NEW s \in Saves, Save(s) PROVE StoreInv'
  <2> USE DEF Answer, Goto
  <2>1. Typed /\ HolderIsNewest
    BY DEF StoreInv
  <2>2. CASE Accept(s)
    BY <2>2, AcceptStep
  <2>3. CASE Serialize(s)
    BY <2>3, GoOn DEF Serialize, UnderWay, Replacing
  <2>4. CASE Lock(s)
    BY <2>4, GoOn DEF Lock, UnderWay, Replacing
  <2>5. CASE Create(s)
    BY <2>5, GoOn, <2>1 DEF Create, HolderIsNewest, UnderWay, Replacing
  <2>6. CASE WriteAndSync(s)
    BY <2>6, GoOn, <2>1 DEF WriteAndSync, Abandon, HolderIsNewest, UnderWay, Replacing
  <2>7. CASE Fence(s)
    BY <2>7, GoOn, <2>1 DEF Fence, Abandon, HolderIsNewest, UnderWay, Replacing
  <2>8. CASE Rename(s)
    BY <2>8, GoOn, RenamedStep DEF Rename, Abandon, UnderWay, Replacing
  <2> QED
    BY <1>1, <2>2, <2>3, <2>4, <2>5, <2>6, <2>7, <2>8 DEF Save
<1>2. CASE Restart
  BY <1>2, RestartStep
<1>3. CASE UNCHANGED store
  BY <1>3
  DEF store, StoreInv, Typed, Numbered, Tickets, LatestIsLast, Latest, Told, HolderIsNewest,
      LiveSaved, AcceptedBefore
<1>4. ASSUME NEW u \in Users, UsePolicy(u) PROVE UNCHANGED store
  BY <1>4 DEF UsePolicy, ReadPolicy, SavePolicy, ReplacePolicy
<1>5. CASE EditOutside
  BY <1>5, <1>3 DEF EditOutside
<1> QED
  BY <1>1, <1>2, <1>3, <1>4, <1>5 DEF Next, vars

\* Whatever fails and whenever the process dies, the live file is a whole document that
\* was reported as saved, and of no save accepted before another one reported as saved.
THEOREM LatestSavedIsLive == Spec => []LiveIsLatestSaved
<1>1. StoreInv => LiveIsLatestSaved
  BY DEF StoreInv, LiveSaved, LiveIsLatestSaved
<1> QED
  BY <1>1, InitStore, StepStore, PTL DEF Spec
-----------------------------------------------------------------------------
(* The activity history *)

Record(r) == [kind |-> "record", of |-> r]
Entries == [kind : {"record"}, of : Nat] \cup [kind : {"flush"}, of : Flushes]
Flush ==
  [at : {"idle", "waiting", "synced", "unsynced", "confirmed", "unconfirmed"},
   before : SUBSET Nat]

LogTyped ==
  /\ enqueued \in Nat /\ queue \in Seq(Entries) /\ failed \in BOOLEAN
  /\ files \in [Index -> Seq(Nat)] /\ flush \in [Flushes -> Flush]
  /\ written \subseteq Nat /\ returned \subseteq Nat /\ refused \subseteq Nat

\* Record r is written, or its loss is noted, or it comes before place n of the queue.
Accounted(r, n) ==
  failed \/ r \in written \/ \E m \in DOMAIN queue : m < n /\ queue[m] = Record(r)

\* Flush f is at place n of the queue.
FlushAt(n, f) == queue[n] = [kind |-> "flush", of |-> f]

\* Whatever has returned is accounted for, and what a flush covers comes before it.
FlushInv ==
  /\ \A r \in returned : Accounted(r, Len(queue) + 1)
  /\ \A n \in DOMAIN queue, f \in Flushes : FlushAt(n, f) =>
       /\ flush[f].at # "idle"
       /\ flush[f].at = "waiting" => \A r \in flush[f].before : Accounted(r, n)
  /\ \A f \in Flushes :
       /\ flush[f].at = "synced" => failed \/ flush[f].before \subseteq written
       /\ flush[f].at = "confirmed" => flush[f].before \subseteq written

\* Records are queued in order, and after all that were written.
QueueInOrder ==
  /\ \A r \in written : r <= enqueued
  /\ \A n \in DOMAIN queue : queue[n].kind = "record" =>
       /\ queue[n].of <= enqueued
       /\ \A r \in written : r < queue[n].of
  /\ \A m, n \in DOMAIN queue :
       m < n /\ queue[m].kind = "record" /\ queue[n].kind = "record" =>
         queue[m].of < queue[n].of

HistoryInv == QueueInOrder /\ HistoryKept

\* Rotation is on only by the saved choice.
RetentionInv == bounded => saved = "bounded"

USE DEF Record

-----------------------------------------------------------------------------
(* Types *)

\* A file is told by its place.
LEMMA Places ==
  /\ Index = 0 .. RetentionFiles - 1 /\ Oldest \in Index /\ 0 \in Index /\ Oldest # 0
  /\ RetentionFiles \in Nat /\ Oldest = RetentionFiles - 1 /\ Index \subseteq Nat
BY AuditAssumption DEF Index, Oldest

\* However far rotation gets, every place holds a file of an older place or its own.
LEMMA RotatedPlaces ==
  ASSUME NEW done \in 1 .. RetentionFiles
  PROVE  /\ \A i \in Index : i > RetentionFiles - done => i - 1 \in Index
         /\ DOMAIN Rotated(done) = Index
         /\ \A i \in Index :
              Rotated(done)[i] = IF i > RetentionFiles - done THEN files[i - 1]
                                 ELSE IF i = RetentionFiles - done THEN <<>> ELSE files[i]
<1>1. \A i \in Index : i > RetentionFiles - done => i - 1 \in Index
  BY Places
<1> QED
  BY <1>1, Places DEF Rotated

\* A record that is written leaves the queue, and is in a file or noted as lost; the
\* files it is added to are rotated, perhaps half-way, or as they were.
LEMMA WriteRecordDoes ==
  ASSUME LogTyped, WriteRecord
  PROVE  \E r \in Nat, h \in [Index -> Seq(Nat)] :
           /\ queue # <<>> /\ Head(queue) = Record(r) /\ queue' = Tail(queue)
           /\ \/ /\ files' = [h EXCEPT ![0] = Append(@, r)]
                 /\ written' = written \cup {r} /\ failed' = failed
              \/ files' = h /\ written' = written /\ failed' = TRUE
           /\ \/ h = files /\ expired' = expired
              \/ /\ bounded /\ expired' = expired \cup In(files[Oldest])
                 /\ \E done \in 1 .. RetentionFiles : h = Rotated(done)
<1> DEFINE r == Head(queue).of
<1>1. queue # <<>> /\ Head(queue).kind = "record" /\ queue' = Tail(queue)
  BY DEF WriteRecord
<1>2. Head(queue) \in Entries
  BY <1>1 DEF LogTyped
<1>3. r \in Nat /\ Head(queue) = Record(r)
  BY <1>1, <1>2 DEF Entries
<1>4. files \in [Index -> Seq(Nat)]
  BY DEF LogTyped
<1>5. \A done \in 1 .. RetentionFiles : Rotated(done) \in [Index -> Seq(Nat)]
  <2> SUFFICES ASSUME NEW done \in 1 .. RetentionFiles
               PROVE  Rotated(done) \in [Index -> Seq(Nat)]
    OBVIOUS
  <2>1. \A i \in Index : Rotated(done)[i] \in Seq(Nat)
    <3> SUFFICES ASSUME NEW i \in Index PROVE Rotated(done)[i] \in Seq(Nat)
      OBVIOUS
    <3>1. CASE i > RetentionFiles - done
      BY <1>4, <3>1, RotatedPlaces
    <3>2. CASE i = RetentionFiles - done
      <4>1. Rotated(done)[i] = <<>>
        BY <3>2, RotatedPlaces, Places
      <4> QED
        BY <4>1
    <3>3. CASE ~(i > RetentionFiles - done) /\ i # RetentionFiles - done
      <4>1. Rotated(done)[i] = files[i]
        BY <3>3, RotatedPlaces
      <4> QED
        BY <1>4, <4>1
    <3> QED
      BY <3>1, <3>2, <3>3
  <2>2. Rotated(done) = [i \in Index |-> Rotated(done)[i]]
    BY DEF Rotated
  <2> QED
    BY <2>1, <2>2
<1>6. RetentionFiles \in 1 .. RetentionFiles
  BY AuditAssumption
<1> HIDE DEF r
<1>7. CASE files' = [files EXCEPT ![0] = Append(@, r)] /\ written' = written \cup {r}
           /\ failed' = failed /\ expired' = expired
  BY <1>1, <1>3, <1>4, <1>7
<1>8. CASE files' = files /\ failed' = TRUE /\ written' = written /\ expired' = expired
  BY <1>1, <1>3, <1>4, <1>8
<1>9. CASE /\ bounded /\ expired' = expired \cup In(files[Oldest])
           /\ files' = [Rotated(RetentionFiles) EXCEPT ![0] = Append(@, r)]
           /\ written' = written \cup {r} /\ failed' = failed
  BY <1>1, <1>3, <1>5, <1>6, <1>9
<1>10. CASE /\ bounded /\ expired' = expired \cup In(files[Oldest])
            /\ failed' = TRUE /\ written' = written
            /\ \E done \in 1 .. RetentionFiles : files' = Rotated(done)
  BY <1>1, <1>3, <1>5, <1>10
<1> QED
  BY <1>7, <1>8, <1>9, <1>10 DEF WriteRecord, Appended, AppendFails, r

\* At first there is no history.
LEMMA InitLog == LogInit => LogTyped /\ FlushInv /\ HistoryInv /\ RetentionInv
<1> SUFFICES ASSUME LogInit PROVE LogTyped /\ FlushInv /\ HistoryInv /\ RetentionInv
  OBVIOUS
<1>1. LogTyped
  <2>1. queue \in Seq(Entries)
    BY DEF LogInit
  <2>2. files \in [Index -> Seq(Nat)]
    <3>1. <<>> \in Seq(Nat)
      OBVIOUS
    <3> QED
      BY <3>1 DEF LogInit
  <2>3. flush \in [Flushes -> Flush]
    <3>1. [at |-> "idle", before |-> {}] \in Flush
      BY DEF Flush
    <3> QED
      BY <3>1 DEF LogInit
  <2> QED
    BY <2>1, <2>2, <2>3 DEF LogInit, LogTyped
<1>2. FlushInv
  BY DEF LogInit, FlushInv
<1>3. Filed = {}
  BY DEF LogInit, Filed, In
<1>4. InOrder
  BY DEF LogInit, InOrder, In
<1>5. HistoryKept /\ QueueInOrder
  BY <1>3, <1>4 DEF LogInit, HistoryKept, QueueInOrder
<1> QED
  BY <1>1, <1>2, <1>5 DEF HistoryInv, RetentionInv, LogInit

\* Every step keeps the types of the history.
LEMMA TypedStep == LogTyped /\ [LogNext]_logVars => LogTyped'
<1> SUFFICES ASSUME LogTyped, [LogNext]_logVars PROVE LogTyped'
  OBVIOUS
<1> USE DEF LogTyped
<1>1. \A f \in Flushes : flush[f].at \in {"idle", "waiting", "synced", "unsynced",
                                          "confirmed", "unconfirmed"}
  BY DEF Flush
<1>2. CASE Enqueue
  <2>1. enqueued' \in Nat /\ Record(enqueued') \in Entries
    BY <1>2 DEF Enqueue, Entries
  <2>2. queue' \in Seq(Entries)
    BY <1>2, <2>1 DEF Enqueue
  <2>3. returned' \subseteq Nat /\ refused' \subseteq Nat
    BY <1>2, <2>1 DEF Enqueue
  <2>4. UNCHANGED <<failed, files, written, flush>>
    BY <1>2 DEF Enqueue
  <2> QED
    BY <2>1, <2>2, <2>3, <2>4
<1>3. ASSUME NEW r \in refused, Overflow(r) PROVE LogTyped'
  BY <1>3 DEF Overflow
<1>4. ASSUME NEW f \in Flushes, FlushNow(f) PROVE LogTyped'
  <2>1. [kind |-> "flush", of |-> f] \in Entries
    BY DEF Entries
  <2>2. [at |-> "waiting", before |-> returned] \in Flush
    BY DEF Flush
  <2>3. [flush[f] EXCEPT !.at = "unconfirmed"] \in Flush
    BY DEF Flush
  <2>4. queue' \in Seq(Entries)
    <3>1. queue' = queue \/ queue' = Append(queue, [kind |-> "flush", of |-> f])
      BY <1>4 DEF FlushNow
    <3>2. \A e \in Entries : Append(queue, e) \in Seq(Entries)
      OBVIOUS
    <3> QED
      BY <2>1, <3>1, <3>2
  <2>5. flush' \in [Flushes -> Flush]
    <3>1. \/ flush' = [flush EXCEPT ![f] = [at |-> "waiting", before |-> returned]]
          \/ flush' = [flush EXCEPT ![f] = [flush[f] EXCEPT !.at = "unconfirmed"]]
      BY <1>4 DEF FlushNow
    <3> QED
      BY <2>2, <2>3, <3>1
  <2>6. failed' \in BOOLEAN /\ UNCHANGED <<files, written, enqueued, refused, returned>>
    BY <1>4 DEF FlushNow
  <2> QED
    BY <2>4, <2>5, <2>6
<1>5. ASSUME NEW f \in Flushes, FlushTimesOut(f) \/ FlushReturns(f) PROVE LogTyped'
  <2>1. \A to \in {"confirmed", "unconfirmed"} : [flush[f] EXCEPT !.at = to] \in Flush
    BY DEF Flush
  <2>2. /\ UNCHANGED <<queue, files, written, enqueued, refused, returned>>
        /\ \E to \in {"confirmed", "unconfirmed"} : flush' = [flush EXCEPT ![f].at = to]
        /\ failed' \in BOOLEAN
    BY <1>5 DEF FlushTimesOut, FlushReturns
  <2> QED
    BY <2>1, <2>2
<1>6. CASE WriteRecord
  <2>1. PICK r \in Nat, h \in [Index -> Seq(Nat)] :
          /\ queue # <<>> /\ Head(queue) = Record(r) /\ queue' = Tail(queue)
          /\ \/ /\ files' = [h EXCEPT ![0] = Append(@, r)]
                /\ written' = written \cup {r} /\ failed' = failed
             \/ files' = h /\ written' = written /\ failed' = TRUE
    BY <1>6, WriteRecordDoes
  <2>2. queue' \in Seq(Entries)
    BY <2>1
  <2>3. files' \in [Index -> Seq(Nat)]
    <3>1. Append(h[0], r) \in Seq(Nat)
      BY Places
    <3> QED
      BY <2>1, <3>1, Places
  <2> QED
    BY <1>6, <2>1, <2>2, <2>3 DEF WriteRecord
<1>7. CASE WriterSyncs
  <2>1. PICK synced \in BOOLEAN :
          /\ failed' = (failed \/ ~synced)
          /\ flush' = [f \in Flushes |->
               IF f = Head(queue).of /\ flush[f].at = "waiting"
                 THEN [flush[f] EXCEPT !.at = IF synced THEN "synced" ELSE "unsynced"]
                 ELSE flush[f]]
    BY <1>7 DEF WriterSyncs
  <2>2. \A f \in Flushes, to \in {"synced", "unsynced"} :
          [flush[f] EXCEPT !.at = to] \in Flush
    BY DEF Flush
  <2>3. /\ queue # <<>> /\ queue' = Tail(queue)
        /\ UNCHANGED <<files, written, enqueued, refused, returned>>
    BY <1>7 DEF WriterSyncs
  <2>4. queue' \in Seq(Entries)
    BY <2>3
  <2> QED
    BY <2>1, <2>2, <2>3, <2>4
<1>8. CASE Choose \/ ApplySaved
  BY <1>8 DEF Choose, ApplySaved
<1>9. CASE Preserve
  <2>1. files' \in [Index -> Seq(Nat)]
    BY <1>9 DEF Preserve
  <2> QED
    BY <1>9, <2>1 DEF Preserve
<1>10. CASE RestartLog
  <2>1. [at |-> "unconfirmed", before |-> {}] \in Flush
    BY DEF Flush
  <2>2. queue' \in Seq(Entries)
    BY <1>10 DEF RestartLog
  <2>3. flush' \in [Flushes -> Flush]
    BY <1>10, <2>1 DEF RestartLog
  <2> QED
    BY <1>10, <2>2, <2>3 DEF RestartLog
<1>11. CASE UNCHANGED logVars
  BY <1>11 DEF logVars
<1> QED
  BY <1>2, <1>3, <1>4, <1>5, <1>6, <1>7, <1>8, <1>9, <1>10, <1>11 DEF LogNext

-----------------------------------------------------------------------------
(* What flush() confirms *)

\* Nothing is accounted for any less when records are written or failures noted.
LEMMA AccountedStays ==
  ASSUME queue' = queue, written \subseteq written', failed => failed', NEW r, NEW n,
         Accounted(r, n)
  PROVE  Accounted(r, n)'
BY DEF Accounted

\* A new entry in the queue takes nothing from what came before another.
LEMMA AccountedAppend ==
  ASSUME LogTyped, NEW e \in Entries, queue' = Append(queue, e),
         written' = written, failed' = failed, NEW r, NEW n \in Nat, NEW m \in Nat, n <= m,
         Accounted(r, n)
  PROVE  Accounted(r, m)'
<1>1. /\ DOMAIN queue = 1 .. Len(queue) /\ DOMAIN queue' = 1 .. Len(queue) + 1
      /\ Len(queue) \in Nat /\ \A k \in 1 .. Len(queue) : queue'[k] = queue[k]
  BY DEF LogTyped
<1> QED
  BY <1>1 DEF Accounted

\* When the first entry leaves the queue all others move up, and what was accounted for
\* because of it has been written or failed.
LEMMA AccountedTail ==
  ASSUME LogTyped, queue # <<>>, queue' = Tail(queue),
         written \subseteq written', failed => failed', NEW r,
         Head(queue) = Record(r) => r \in written' \/ failed',
         NEW n \in Nat, Accounted(r, n + 1)
  PROVE  Accounted(r, n)'
<1>1. /\ DOMAIN queue = 1 .. Len(queue) /\ DOMAIN queue' = 1 .. Len(queue) - 1
      /\ Len(queue) \in Nat /\ Head(queue) = queue[1]
      /\ \A k \in 1 .. Len(queue) - 1 : queue'[k] = queue[k + 1]
  BY DEF LogTyped
<1>2. CASE failed \/ r \in written
  BY <1>2 DEF Accounted
<1>3. ASSUME NEW m \in DOMAIN queue, m < n + 1, queue[m] = Record(r) PROVE Accounted(r, n)'
  <2>1. CASE m = 1
    BY <1>1, <1>3, <2>1 DEF Accounted
  <2>2. CASE m # 1
    <3>1. PICK k \in 1 .. Len(queue) - 1 : m = k + 1 /\ k < n
      <4>1. m - 1 \in 1 .. Len(queue) - 1 /\ m = (m - 1) + 1 /\ m - 1 < n
        BY <1>1, <1>3, <2>2
      <4> QED
        BY <4>1
    <3> QED
      BY <1>1, <1>3, <3>1 DEF Accounted
  <2> QED
    BY <2>1, <2>2
<1> QED
  BY <1>2, <1>3 DEF Accounted

\* A step that leaves the queue and the flushes alone keeps FlushInv, if only failures
\* are noted and only refused records return after theirs was.
LEMMA FlushAside ==
  ASSUME FlushInv, UNCHANGED <<queue, flush, written>>, failed => failed',
         returned' = returned \/ failed'
  PROVE  FlushInv'
<1>1. \A r, n : Accounted(r, n) => Accounted(r, n)'
  BY AccountedStays
<1>2. \A r \in returned' : Accounted(r, Len(queue) + 1)'
  BY <1>1 DEF FlushInv, Accounted
<1> QED
  BY <1>1, <1>2 DEF FlushInv, FlushAt

\* A flush that goes on without touching the queue is confirmed only as it was synced,
\* before any failure.
LEMMA FlushGoesOn ==
  ASSUME FlushInv, LogTyped, NEW f \in Flushes, FlushTimesOut(f) \/ FlushReturns(f)
  PROVE  FlushInv'
<1>1. /\ UNCHANGED <<queue, written, returned>> /\ (failed => failed')
      /\ flush[f].at \in {"waiting", "synced", "unsynced"}
  BY DEF FlushTimesOut, FlushReturns
<1>2. PICK to \in {"confirmed", "unconfirmed"} :
        /\ flush' = [flush EXCEPT ![f].at = to]
        /\ to = "confirmed" => flush[f].at = "synced" /\ ~failed
  BY DEF FlushTimesOut, FlushReturns
<1>3. \A r, n : Accounted(r, n) => Accounted(r, n)'
  BY <1>1, AccountedStays
<1>4. /\ flush'[f].at = to /\ flush'[f].before = flush[f].before
      /\ \A g \in Flushes : g # f => flush'[g] = flush[g]
  BY <1>2 DEF LogTyped, Flush
<1>5. \A r \in returned' : Accounted(r, Len(queue) + 1)'
  BY <1>1, <1>3 DEF FlushInv
<1>6. \A g \in Flushes : flush'[g].at = "waiting" => flush'[g] = flush[g]
  BY <1>2, <1>4
<1>7. \A g \in Flushes : flush'[g].at = "idle" => flush[g].at = "idle"
  BY <1>2, <1>4
<1>8. \A n \in DOMAIN queue : \A g \in Flushes : FlushAt(n, g)' =>
        /\ flush'[g].at # "idle"
        /\ flush'[g].at = "waiting" => \A r \in flush'[g].before : Accounted(r, n)'
  BY <1>1, <1>3, <1>6, <1>7 DEF FlushInv, FlushAt
<1>9. \A g \in Flushes :
        /\ flush'[g].at = "synced" => failed' \/ flush'[g].before \subseteq written'
        /\ flush'[g].at = "confirmed" => flush'[g].before \subseteq written'
  BY <1>1, <1>2, <1>4 DEF FlushInv
<1> QED
  BY <1>1, <1>5, <1>8, <1>9 DEF FlushInv

\* A new entry comes after everything that has returned.
LEMMA FlushAppend ==
  ASSUME FlushInv, LogTyped, NEW e \in Entries, queue' = Append(queue, e),
         UNCHANGED <<written, failed>>,
         \A r \in returned' : r \in returned \/ e = Record(r),
         \A f \in Flushes :
           \/ flush'[f] = flush[f] /\ e # [kind |-> "flush", of |-> f]
           \/ /\ flush[f].at = "idle" /\ flush'[f] = [at |-> "waiting", before |-> returned]
              /\ e = [kind |-> "flush", of |-> f]
  PROVE  FlushInv'
<1>1. PICK k \in Nat : k = Len(queue)
  BY DEF LogTyped
<1>2. /\ DOMAIN queue = 1 .. k /\ DOMAIN queue' = 1 .. k + 1 /\ Len(queue') = k + 1
      /\ \A n \in 1 .. k : queue'[n] = queue[n]
      /\ queue'[k + 1] = e
  BY <1>1 DEF LogTyped
<1>3. \A r : \A n, m \in Nat : n <= m /\ Accounted(r, n) => Accounted(r, m)'
  BY AccountedAppend
<1>4. ASSUME NEW r \in returned PROVE Accounted(r, k + 1)' /\ Accounted(r, k + 2)'
  <2>1. Accounted(r, k + 1)
    BY <1>1 DEF FlushInv
  <2>2. k + 1 \in Nat /\ k + 2 \in Nat /\ k + 1 <= k + 1 /\ k + 1 <= k + 2
    OBVIOUS
  <2> QED
    BY <1>3, <2>1, <2>2
<1>5. ASSUME NEW r, e = Record(r) PROVE Accounted(r, k + 2)'
  <2>1. k + 1 \in 1 .. k + 1 /\ k + 1 < k + 2
    OBVIOUS
  <2> QED
    BY <1>2, <1>5, <2>1 DEF Accounted
<1>6. \A r \in returned' : Accounted(r, Len(queue) + 1)'
  <2>1. Len(queue') + 1 = k + 2
    BY <1>2
  <2> QED
    BY <1>4, <1>5, <2>1 DEF Accounted
<1>7. ASSUME NEW n \in 1 .. k + 1, NEW f \in Flushes, FlushAt(n, f)'
      PROVE  /\ flush'[f].at # "idle"
             /\ flush'[f].at = "waiting" => \A r \in flush'[f].before : Accounted(r, n)'
  <2>1. CASE n = k + 1
    <3>1. e = [kind |-> "flush", of |-> f]
      BY <1>2, <1>7, <2>1 DEF FlushAt
    <3>2. flush'[f] = [at |-> "waiting", before |-> returned]
      BY <3>1
    <3> QED
      BY <1>4, <2>1, <3>2
  <2>2. CASE n # k + 1
    <3>1. n \in 1 .. k /\ n \in Nat
      BY <2>2
    <3>2. FlushAt(n, f) /\ flush[f].at # "idle"
      BY <1>2, <1>7, <3>1 DEF FlushAt, FlushInv
    <3>3. flush'[f] = flush[f]
      BY <3>2
    <3>4. flush[f].at = "waiting" => \A r \in flush[f].before : Accounted(r, n)
      BY <1>2, <3>1, <3>2 DEF FlushInv
    <3>5. \A r : Accounted(r, n) => Accounted(r, n)'
      BY <1>3, <3>1
    <3> QED
      BY <3>2, <3>3, <3>4, <3>5
  <2> QED
    BY <2>1, <2>2
<1>8. ASSUME NEW f \in Flushes
      PROVE  /\ flush'[f].at = "synced" => failed' \/ flush'[f].before \subseteq written'
             /\ flush'[f].at = "confirmed" => flush'[f].before \subseteq written'
  BY DEF FlushInv
<1> QED
  BY <1>2, <1>6, <1>7, <1>8 DEF FlushInv

\* The writer gives flush f, which is first in the queue, its answer.
Served(f) ==
  /\ Head(queue) = [kind |-> "flush", of |-> f] /\ flush[f].at = "waiting"
  /\ \E to \in {"synced", "unsynced"} :
       flush'[f] = [at |-> to, before |-> flush[f].before]

\* Such a flush waits no longer, and its caller has not heard of it yet.
LEMMA ServedWaits ==
  ASSUME NEW f \in Flushes, Served(f)
  PROVE  /\ flush'[f].at \notin {"idle", "waiting", "confirmed"}
         /\ flush'[f].before = flush[f].before
BY DEF Served

\* When the writer takes the first entry, what came before another still does, or is
\* written or lost; a flush it finds has nothing before it.
LEMMA FlushTail ==
  ASSUME FlushInv, LogTyped, queue # <<>>, queue' = Tail(queue),
         written \subseteq written', failed => failed', returned' = returned,
         \A r : Head(queue) = Record(r) => r \in written' \/ failed',
         \A f \in Flushes :
           \/ flush'[f] = flush[f]
           \/ Served(f)
  PROVE  FlushInv'
<1>1. PICK k \in Nat : Len(queue) = k + 1
  <2>1. queue \in Seq(Entries)
    BY DEF LogTyped
  <2>2. Len(queue) - 1 \in Nat /\ Len(queue) = (Len(queue) - 1) + 1
    BY <2>1
  <2> QED
    BY <2>2
<1>2. /\ DOMAIN queue = 1 .. k + 1 /\ DOMAIN queue' = 1 .. k /\ Len(queue') = k
      /\ Len(queue) = k + 1 /\ \A n \in 1 .. k : queue'[n] = queue[n + 1]
  <2>1. queue \in Seq(Entries)
    BY DEF LogTyped
  <2>2. DOMAIN queue = 1 .. Len(queue) /\ Len(queue') = Len(queue) - 1
    BY <2>1
  <2>3. queue' \in Seq(Entries) /\ DOMAIN queue' = 1 .. Len(queue')
    BY <2>1
  <2>4. \A n \in 1 .. Len(queue) - 1 : queue'[n] = queue[n + 1]
    BY <2>1
  <2> QED
    BY <1>1, <2>2, <2>3, <2>4
<1>3. \A r : \A n \in Nat : Accounted(r, n + 1) => Accounted(r, n)'
  BY AccountedTail
<1>4. \A r \in returned' : Accounted(r, Len(queue) + 1)'
  <2> SUFFICES ASSUME NEW r \in returned PROVE Accounted(r, k + 1)'
    BY <1>2 DEF Accounted
  <2>1. Accounted(r, (k + 1) + 1)
    BY <1>2 DEF FlushInv
  <2>2. k + 1 \in Nat
    OBVIOUS
  <2> QED
    BY <1>3, <2>1, <2>2
<1>5. ASSUME NEW n \in 1 .. k, NEW f \in Flushes, FlushAt(n, f)'
      PROVE  /\ flush'[f].at # "idle"
             /\ flush'[f].at = "waiting" => \A r \in flush'[f].before : Accounted(r, n)'
  <2>1. FlushAt(n + 1, f) /\ n + 1 \in DOMAIN queue /\ n \in Nat
    BY <1>2, <1>5 DEF FlushAt
  <2>2. /\ flush[f].at # "idle"
        /\ flush[f].at = "waiting" => \A r \in flush[f].before : Accounted(r, n + 1)
    BY <2>1 DEF FlushInv
  <2>3. \A r : Accounted(r, n + 1) => Accounted(r, n)'
    BY <1>3, <2>1
  <2>4. CASE flush'[f] = flush[f]
    BY <2>2, <2>3, <2>4
  <2>5. CASE Served(f)
    BY <2>5, ServedWaits
  <2> QED
    BY <2>4, <2>5
<1>6. ASSUME NEW f \in Flushes
      PROVE  /\ flush'[f].at = "synced" => failed' \/ flush'[f].before \subseteq written'
             /\ flush'[f].at = "confirmed" => flush'[f].before \subseteq written'
  <2>1. CASE flush'[f] = flush[f]
    BY <2>1 DEF FlushInv
  <2>2. CASE Served(f)
    <3>1. 1 \in DOMAIN queue /\ FlushAt(1, f)
      <4>1. 1 \in DOMAIN queue
        BY <1>2
      <4>2. queue[1] = Head(queue)
        BY DEF LogTyped
      <4> QED
        BY <2>2, <4>1, <4>2 DEF FlushAt, Served
    <3>2. \A r \in flush[f].before : Accounted(r, 1)
      BY <2>2, <3>1 DEF FlushInv, Served
    <3>3. \A r : Accounted(r, 1) => failed \/ r \in written
      <4>1. ~ \E m \in DOMAIN queue : m < 1
        BY <1>2
      <4> QED
        BY <4>1 DEF Accounted
    <3>4. failed \/ flush[f].before \subseteq written
      BY <3>2, <3>3
    <3> QED
      BY <2>2, <3>4, ServedWaits
  <2> QED
    BY <2>1, <2>2
<1> QED
  BY <1>2, <1>4, <1>5, <1>6 DEF FlushInv

\* Every step keeps FlushInv.
LEMMA FlushStep == LogTyped /\ FlushInv /\ [LogNext]_logVars => FlushInv'
<1> SUFFICES ASSUME LogTyped, FlushInv, [LogNext]_logVars PROVE FlushInv'
  OBVIOUS
<1>1. CASE Enqueue
  <2>1. Record(enqueued') \in Entries
    BY <1>1 DEF Enqueue, Entries, LogTyped
  <2>2. CASE ~HasRoom
    BY <1>1, <2>2, FlushAside DEF Enqueue
  <2>3. CASE HasRoom
    <3>1. /\ queue' = Append(queue, Record(enqueued'))
          /\ returned' = returned \cup {enqueued'} /\ UNCHANGED <<flush, written, failed>>
      BY <1>1, <2>3 DEF Enqueue
    <3>2. \A f \in Flushes :
            flush'[f] = flush[f] /\ Record(enqueued') # [kind |-> "flush", of |-> f]
      BY <3>1
    <3>3. \A r \in returned' : r \in returned \/ Record(enqueued') = Record(r)
      BY <3>1
    <3> HIDE DEF Record
    <3> QED
      BY <2>1, <3>1, <3>2, <3>3, FlushAppend
  <2> QED
    BY <2>2, <2>3
<1>2. ASSUME NEW r \in refused, Overflow(r) PROVE FlushInv'
  BY <1>2, FlushAside DEF Overflow
<1>3. ASSUME NEW f \in Flushes, FlushNow(f) PROVE FlushInv'
  <2> DEFINE e == [kind |-> "flush", of |-> f]
  <2>1. e \in Entries
    BY DEF Entries
  <2>2. CASE /\ queue' = Append(queue, e) /\ failed' = failed
             /\ flush' = [flush EXCEPT ![f] = [at |-> "waiting", before |-> returned]]
    <3>1. flush[f].at = "idle" /\ UNCHANGED <<written, returned>>
      BY <1>3 DEF FlushNow
    <3>2. \A g \in Flushes :
            \/ flush'[g] = flush[g] /\ e # [kind |-> "flush", of |-> g]
            \/ /\ flush[g].at = "idle"
               /\ flush'[g] = [at |-> "waiting", before |-> returned]
               /\ e = [kind |-> "flush", of |-> g]
      BY <2>2, <3>1 DEF LogTyped
    <3> HIDE DEF e
    <3> QED
      BY <2>1, <2>2, <3>1, <3>2, FlushAppend
  <2>3. CASE queue' = queue /\ failed' = TRUE /\ flush' = [flush EXCEPT ![f].at = "unconfirmed"]
    <3>1. UNCHANGED <<written, returned>>
      BY <1>3 DEF FlushNow
    <3>2. \A r, n : Accounted(r, n)'
      BY <2>3 DEF Accounted
    <3>3. \A g \in Flushes :
            flush'[g] = flush[g] \/ (g = f /\ flush'[g].at = "unconfirmed")
      BY <2>3 DEF LogTyped, Flush
    <3>4. \A n \in DOMAIN queue, g \in Flushes : FlushAt(n, g)' => flush'[g].at # "idle"
      BY <2>3, <3>3 DEF FlushInv, FlushAt
    <3> QED
      BY <2>3, <3>1, <3>2, <3>3, <3>4 DEF FlushInv
  <2> QED
    BY <1>3, <2>2, <2>3 DEF FlushNow
<1>4. ASSUME NEW f \in Flushes, FlushTimesOut(f) \/ FlushReturns(f) PROVE FlushInv'
  BY <1>4, FlushGoesOn
<1>5. CASE WriteRecord
  <2>1. PICK r \in Nat :
          /\ queue # <<>> /\ Head(queue) = Record(r) /\ queue' = Tail(queue)
          /\ \/ written' = written \cup {r} /\ failed' = failed
             \/ written' = written /\ failed' = TRUE
    BY <1>5, WriteRecordDoes
  <2>2. \A s : Head(queue) = Record(s) => s \in written' \/ failed'
    BY <2>1
  <2>3. returned' = returned /\ flush' = flush
    BY <1>5 DEF WriteRecord
  <2> QED
    BY <2>1, <2>2, <2>3, FlushTail
<1>6. CASE WriterSyncs
  <2>1. /\ queue # <<>> /\ Head(queue).kind = "flush" /\ queue' = Tail(queue)
        /\ UNCHANGED <<written, returned>> /\ (failed => failed')
    BY <1>6 DEF WriterSyncs
  <2>2. Head(queue) = queue[1] /\ Head(queue) \in Entries
    BY <2>1 DEF LogTyped
  <2>3. Head(queue) = [kind |-> "flush", of |-> Head(queue).of]
    BY <2>1, <2>2 DEF Entries
  <2>4. \A r : Head(queue) # Record(r)
    BY <2>1
  <2>5. PICK synced \in BOOLEAN : flush' = [f \in Flushes |->
          IF f = Head(queue).of /\ flush[f].at = "waiting"
            THEN [flush[f] EXCEPT !.at = IF synced THEN "synced" ELSE "unsynced"]
            ELSE flush[f]]
    BY <1>6 DEF WriterSyncs
  <2>6. \A f \in Flushes :
          \/ flush'[f] = flush[f]
          \/ Served(f)
    <3> SUFFICES ASSUME NEW f \in Flushes, f = Head(queue).of, flush[f].at = "waiting"
                 PROVE  Served(f)
      BY <2>5
    <3>1. Head(queue) = [kind |-> "flush", of |-> f]
      BY <2>3
    <3>2. flush[f] \in Flush
      BY DEF LogTyped
    <3>3. flush'[f] = [flush[f] EXCEPT !.at = IF synced THEN "synced" ELSE "unsynced"]
      BY <2>5
    <3> QED
      BY <3>1, <3>2, <3>3 DEF Flush, Served
  <2> QED
    BY <2>1, <2>4, <2>6, FlushTail
<1>7. CASE Choose \/ ApplySaved
  <2>1. UNCHANGED <<queue, flush, written, failed, returned>>
    BY <1>7 DEF Choose, ApplySaved
  <2> QED
    BY <2>1, FlushAside
<1>8. CASE Preserve
  BY <1>8, FlushAside DEF Preserve
<1>9. CASE RestartLog
  BY <1>9 DEF RestartLog, FlushInv
<1>10. CASE UNCHANGED logVars
  BY <1>10, FlushAside DEF logVars
<1> QED
  BY <1>1, <1>2, <1>3, <1>4, <1>5, <1>6, <1>7, <1>8, <1>9, <1>10 DEF LogNext

\* A flush is confirmed only when every record whose enqueue() had returned before it
\* is written, whatever overflows, fails or times out between the two.
THEOREM ConfirmedIsWritten == LogSpec => []FlushConfirms
<1>1. FlushInv => FlushConfirms
  BY DEF FlushInv, FlushConfirms
<1> QED
  BY <1>1, InitLog, TypedStep, FlushStep, PTL DEF LogSpec

-----------------------------------------------------------------------------
(* What becomes of the history *)

\* InOrder and Filed of any array of files.
Ordered(fs) ==
  /\ \A i \in Index : \A m, n \in 1 .. Len(fs[i]) : m < n => fs[i][m] < fs[i][n]
  /\ \A i, j \in Index : i < j => \A new \in In(fs[i]), old \in In(fs[j]) : old < new
Contents(fs) == UNION {In(fs[i]) : i \in Index}

\* An empty file has no records.
LEMMA InEmpty == In(<<>>) = {}
BY DEF In

\* An appended record is added to a file's.
LEMMA InAppend ==
  ASSUME NEW s \in Seq(Nat), NEW r \in Nat
  PROVE  In(Append(s, r)) = In(s) \cup {r}
<1>1. PICK k \in Nat : k = Len(s)
  OBVIOUS
<1>2. /\ Len(Append(s, r)) = k + 1 /\ Append(s, r)[k + 1] = r
      /\ \A n \in 1 .. k : Append(s, r)[n] = s[n]
  BY <1>1
<1>3. \A n : n \in 1 .. k + 1 <=> n \in 1 .. k \/ n = k + 1
  OBVIOUS
<1> QED
  BY <1>1, <1>2, <1>3 DEF In

\* What is filed is numbers, and the numbers of the files.
LEMMA FiledIs ==
  /\ Filed = Contents(files) /\ (InOrder <=> Ordered(files))
  /\ LogTyped => Filed \subseteq Nat
<1>1. Filed = Contents(files) /\ (InOrder <=> Ordered(files))
  BY DEF Filed, Contents, InOrder, Ordered
<1>2. ASSUME LogTyped, NEW i \in Index PROVE In(files[i]) \subseteq Nat
  BY <1>2 DEF LogTyped, In
<1> QED
  BY <1>1, <1>2 DEF Contents

\* Rotation, complete or not, takes the oldest file away and keeps the order of the rest.
LEMMA RotatedHistory ==
  ASSUME LogTyped, InOrder, NEW done \in 1 .. RetentionFiles, NEW h, h = Rotated(done)
  PROVE  /\ Ordered(h)
         /\ Filed = Contents(h) \cup In(files[Oldest])
         /\ \A old \in In(files[Oldest]), new \in Contents(h) : old < new
<1> DEFINE free == RetentionFiles - done
           Was(i) == IF i > free THEN i - 1 ELSE i
<1>1. /\ free \in Index /\ free \in Nat /\ free <= Oldest
      /\ \A i \in Index : i \in Nat /\ i <= Oldest
      /\ Oldest \in Nat /\ Oldest \in Index
  BY Places
<1>2. \A i \in Index : h[i] = IF i = free THEN <<>> ELSE files[Was(i)]
  <2> SUFFICES ASSUME NEW i \in Index
               PROVE  h[i] = IF i = free THEN <<>> ELSE files[Was(i)]
    OBVIOUS
  <2>1. h[i] = IF i > free THEN files[i - 1] ELSE IF i = free THEN <<>> ELSE files[i]
    BY RotatedPlaces
  <2>2. i > free => i # free
    BY <1>1
  <2> QED
    BY <2>1, <2>2
<1>3. \A i \in Index : i # free => Was(i) \in Index /\ Was(i) < Oldest
  BY <1>1, Places
<1>4. \A i, j \in Index : i < j /\ i # free /\ j # free => Was(i) < Was(j)
  BY <1>1
<1>5. \A k \in Index : k < Oldest => \E i \in Index : i # free /\ Was(i) = k
  <2> SUFFICES ASSUME NEW k \in Index, k < Oldest PROVE \E i \in Index : i # free /\ Was(i) = k
    OBVIOUS
  <2>1. CASE k < free
    BY <1>1, <2>1
  <2>2. CASE k >= free
    <3>1. k + 1 \in Index /\ k + 1 # free /\ Was(k + 1) = k
      BY <1>1, <2>2, Places
    <3> QED
      BY <3>1
  <2> QED
    BY <1>1, <2>1, <2>2
<1> HIDE DEF free, Was
<1>6. \A i \in Index : In(h[i]) = IF i = free THEN {} ELSE In(files[Was(i)])
  BY <1>2, InEmpty
<1>7. Ordered(h)
  <2>1. \A i \in Index : \A m, n \in 1 .. Len(h[i]) : m < n => h[i][m] < h[i][n]
    <3> SUFFICES ASSUME NEW i \in Index, NEW m \in 1 .. Len(h[i]), NEW n \in 1 .. Len(h[i]), m < n
                 PROVE  h[i][m] < h[i][n]
      OBVIOUS
    <3>1. CASE i = free
      <4>1. h[i] = <<>>
        BY <1>2, <3>1
      <4>2. Len(h[i]) = 0
        BY <4>1
      <4> QED
        BY <4>2
    <3>2. CASE i # free
      BY <1>2, <1>3, <3>2 DEF InOrder
    <3> QED
      BY <3>1, <3>2
  <2>2. \A i, j \in Index : i < j => \A new \in In(h[i]), old \in In(h[j]) : old < new
    BY <1>3, <1>4, <1>6 DEF InOrder
  <2> QED
    BY <2>1, <2>2 DEF Ordered
<1>8. Contents(h) = UNION {In(files[k]) : k \in Index \ {Oldest}}
  <2>1. \A x \in Contents(h) : \E k \in Index \ {Oldest} : x \in In(files[k])
    <3> SUFFICES ASSUME NEW i \in Index, NEW x \in In(h[i])
                 PROVE  \E k \in Index \ {Oldest} : x \in In(files[k])
      BY DEF Contents
    <3>1. i # free /\ x \in In(files[Was(i)])
      BY <1>6
    <3>2. Was(i) \in Index /\ Was(i) # Oldest
      BY <1>1, <1>3, <3>1
    <3> QED
      BY <3>1, <3>2
  <2>2. \A k \in Index \ {Oldest} : In(files[k]) \subseteq Contents(h)
    <3> SUFFICES ASSUME NEW k \in Index \ {Oldest} PROVE In(files[k]) \subseteq Contents(h)
      OBVIOUS
    <3>1. k < Oldest
      BY <1>1
    <3>2. PICK i \in Index : i # free /\ Was(i) = k
      BY <1>5, <3>1
    <3>3. In(h[i]) = In(files[k])
      BY <1>6, <3>2
    <3> QED
      BY <3>3 DEF Contents
  <2> QED
    BY <2>1, <2>2
<1>9. Filed = Contents(h) \cup In(files[Oldest])
  BY <1>1, <1>8 DEF Filed
<1>10. \A old \in In(files[Oldest]), new \in Contents(h) : old < new
  <2> SUFFICES ASSUME NEW k \in Index \ {Oldest},
                      NEW old \in In(files[Oldest]), NEW new \in In(files[k])
               PROVE  old < new
    BY <1>8
  <2>1. k < Oldest
    BY <1>1
  <2> QED
    BY <1>1, <2>1 DEF InOrder
<1> QED
  BY <1>7, <1>9, <1>10

\* A record that is newer than all others keeps the order when it is appended.
LEMMA AppendedHistory ==
  ASSUME NEW h \in [Index -> Seq(Nat)], Ordered(h), NEW r \in Nat,
         \A x \in Contents(h) : x < r, NEW g, g = [h EXCEPT ![0] = Append(@, r)]
  PROVE  Ordered(g) /\ Contents(g) = Contents(h) \cup {r}
<1>1. 0 \in Index /\ \A i \in Index : i \in Nat
  BY Places
<1>2. g[0] = Append(h[0], r) /\ \A i \in Index : i # 0 => g[i] = h[i]
  BY <1>1
<1>3. In(g[0]) = In(h[0]) \cup {r}
  BY <1>1, <1>2, InAppend
<1>4. \A i \in Index : In(g[i]) = IF i = 0 THEN In(h[0]) \cup {r} ELSE In(h[i])
  BY <1>2, <1>3
<1>5. \A i \in Index : In(h[i]) \subseteq Contents(h)
  BY DEF Contents
<1>6. Contents(g) = Contents(h) \cup {r}
  <2>1. \A i \in Index : In(g[i]) \subseteq Contents(h) \cup {r}
    BY <1>1, <1>4, <1>5
  <2>2. \A i \in Index : In(h[i]) \subseteq In(g[i])
    BY <1>4
  <2>3. r \in In(g[0])
    BY <1>3
  <2>4. \A i \in Index : In(g[i]) \subseteq Contents(g)
    BY DEF Contents
  <2>5. Contents(g) \subseteq Contents(h) \cup {r}
    BY <2>1 DEF Contents
  <2>6. Contents(h) \subseteq Contents(g)
    BY <2>2, <2>4 DEF Contents
  <2> QED
    BY <1>1, <2>3, <2>4, <2>5, <2>6
<1>7. \A i, j \in Index : i < j => \A new \in In(g[i]), old \in In(g[j]) : old < new
  <2> SUFFICES ASSUME NEW i \in Index, NEW j \in Index, i < j,
                      NEW new \in In(g[i]), NEW old \in In(g[j])
               PROVE  old < new
    OBVIOUS
  <2>1. old \in In(h[j])
    BY <1>1, <1>4
  <2>2. new \in In(h[i]) \/ new = r
    BY <1>4
  <2> QED
    BY <1>5, <2>1, <2>2 DEF Ordered
<1>8. \A i \in Index : \A m, n \in 1 .. Len(g[i]) : m < n => g[i][m] < g[i][n]
  <2> SUFFICES ASSUME NEW m \in 1 .. Len(g[0]), NEW n \in 1 .. Len(g[0]), m < n
               PROVE  g[0][m] < g[0][n]
    BY <1>2 DEF Ordered
  <2>1. PICK k \in Nat : k = Len(h[0])
    BY <1>1
  <2>2. /\ Len(g[0]) = k + 1 /\ g[0][k + 1] = r
        /\ \A a \in 1 .. k : g[0][a] = h[0][a]
    BY <1>1, <1>2, <2>1
  <2>3. m \in 1 .. k
    BY <2>2
  <2>4. CASE n = k + 1
    <3>1. h[0][m] \in Contents(h)
      BY <1>1, <1>5, <2>1, <2>3 DEF In
    <3> QED
      BY <2>2, <2>3, <2>4, <3>1
  <2>5. CASE n # k + 1
    <3>1. n \in 1 .. k
      BY <2>2, <2>5
    <3> QED
      BY <1>1, <2>1, <2>2, <2>3, <3>1 DEF Ordered
  <2> QED
    BY <2>4, <2>5
<1> QED
  BY <1>6, <1>7, <1>8 DEF Ordered

\* Records leave the queue in order, so the one that is written is the newest so far.
LEMMA QueueTail ==
  ASSUME LogTyped, QueueInOrder, queue # <<>>, queue' = Tail(queue), enqueued' = enqueued,
         \/ written' = written
         \/ \E r \in Nat : Head(queue) = Record(r) /\ written' = written \cup {r}
  PROVE  QueueInOrder'
<1>1. PICK k \in Nat : Len(queue) = k + 1
  <2>1. queue \in Seq(Entries)
    BY DEF LogTyped
  <2>2. Len(queue) - 1 \in Nat /\ Len(queue) = (Len(queue) - 1) + 1
    BY <2>1
  <2> QED
    BY <2>2
<1>2. /\ DOMAIN queue = 1 .. k + 1 /\ DOMAIN queue' = 1 .. k /\ Head(queue) = queue[1]
      /\ \A n \in 1 .. k : queue'[n] = queue[n + 1]
  BY <1>1 DEF LogTyped
<1>3. \A n \in 1 .. k : n + 1 \in 1 .. k + 1 /\ 1 < n + 1
  OBVIOUS
<1>4. 1 \in 1 .. k + 1
  OBVIOUS
<1>5. \A r \in Nat : Head(queue) = Record(r) =>
        /\ r <= enqueued
        /\ \A n \in 1 .. k : queue'[n].kind = "record" => r < queue'[n].of
  <2> SUFFICES ASSUME NEW r \in Nat, Head(queue) = Record(r)
               PROVE  /\ r <= enqueued
                      /\ \A n \in 1 .. k : queue'[n].kind = "record" => r < queue'[n].of
    OBVIOUS
  <2>1. queue[1].kind = "record" /\ queue[1].of = r
    BY <1>2
  <2> QED
    BY <1>2, <1>3, <1>4, <2>1 DEF QueueInOrder
<1>6. \A r \in written' : r <= enqueued'
  BY <1>5 DEF QueueInOrder
<1>7. \A n \in 1 .. k : queue'[n].kind = "record" =>
        /\ queue'[n].of <= enqueued'
        /\ \A r \in written' : r < queue'[n].of
  BY <1>2, <1>3, <1>5 DEF QueueInOrder
<1>8. \A m, n \in 1 .. k :
        m < n /\ queue'[m].kind = "record" /\ queue'[n].kind = "record" =>
          queue'[m].of < queue'[n].of
  <2> SUFFICES ASSUME NEW m \in 1 .. k, NEW n \in 1 .. k, m < n,
                      queue'[m].kind = "record", queue'[n].kind = "record"
               PROVE  queue'[m].of < queue'[n].of
    OBVIOUS
  <2>1. m + 1 < n + 1
    OBVIOUS
  <2> QED
    BY <1>2, <1>3, <2>1 DEF QueueInOrder
<1> QED
  BY <1>2, <1>6, <1>7, <1>8 DEF QueueInOrder

\* A record is queued after all that were before it.
LEMMA QueueAppend ==
  ASSUME LogTyped, QueueInOrder, written' = written, NEW e \in Entries,
         queue' = Append(queue, e), enqueued' \in Nat, enqueued <= enqueued',
         e.kind = "record" => e.of = enqueued' /\ enqueued < enqueued'
  PROVE  QueueInOrder'
<1>1. PICK k \in Nat : k = Len(queue)
  BY DEF LogTyped
<1>2. /\ DOMAIN queue = 1 .. k /\ DOMAIN queue' = 1 .. k + 1
      /\ \A n \in 1 .. k : queue'[n] = queue[n]
      /\ queue'[k + 1] = e
  BY <1>1 DEF LogTyped
<1>3. \A n \in 1 .. k + 1 : n \in 1 .. k \/ n = k + 1
  OBVIOUS
<1>4. enqueued \in Nat /\ written \subseteq Nat
  BY DEF LogTyped
<1>5. \A n \in 1 .. k : queue[n].kind = "record" => queue[n].of \in Nat
  <2> SUFFICES ASSUME NEW n \in 1 .. k, queue[n].kind = "record" PROVE queue[n].of \in Nat
    OBVIOUS
  <2>1. queue[n] \in Entries
    BY <1>2 DEF LogTyped
  <2> QED
    BY <2>1 DEF Entries
<1>6. \A r \in written : r <= enqueued
  BY DEF QueueInOrder
<1>7. \A n \in 1 .. k : queue[n].kind = "record" =>
        queue[n].of <= enqueued /\ \A r \in written : r < queue[n].of
  BY <1>2 DEF QueueInOrder
<1>8. \A n \in 1 .. k + 1 : queue'[n].kind = "record" =>
        /\ queue'[n].of <= enqueued'
        /\ \A r \in written : r < queue'[n].of
  <2> SUFFICES ASSUME NEW n \in 1 .. k + 1, queue'[n].kind = "record"
               PROVE  queue'[n].of <= enqueued' /\ \A r \in written : r < queue'[n].of
    OBVIOUS
  <2>1. CASE n = k + 1
    BY <1>2, <1>4, <1>6, <2>1
  <2>2. CASE n \in 1 .. k
    <3>1. queue'[n] = queue[n]
      BY <1>2, <2>2
    <3> QED
      BY <1>4, <1>5, <1>7, <2>2, <3>1
  <2> QED
    BY <1>3, <2>1, <2>2
<1>9. \A m, n \in 1 .. k + 1 :
        m < n /\ queue'[m].kind = "record" /\ queue'[n].kind = "record" =>
          queue'[m].of < queue'[n].of
  <2> SUFFICES ASSUME NEW m \in 1 .. k + 1, NEW n \in 1 .. k + 1, m < n,
                      queue'[m].kind = "record", queue'[n].kind = "record"
               PROVE  queue'[m].of < queue'[n].of
    OBVIOUS
  <2>1. m \in 1 .. k /\ queue'[m] = queue[m]
    BY <1>2
  <2>2. CASE n = k + 1
    BY <1>2, <1>4, <1>5, <1>7, <2>1, <2>2
  <2>3. CASE n \in 1 .. k
    <3>1. queue'[n] = queue[n]
      BY <1>2, <2>3
    <3> QED
      BY <1>2, <2>1, <2>3, <3>1 DEF QueueInOrder
  <2> QED
    BY <1>3, <2>2, <2>3
<1> QED
  BY <1>2, <1>4, <1>6, <1>8, <1>9 DEF QueueInOrder

\* What has expired, is preserved or is filed stays apart when a record is written.
LEMMA HistoryWrite ==
  ASSUME LogTyped, HistoryInv, WriteRecord
  PROVE  HistoryKept'
<1>1. PICK r \in Nat, h \in [Index -> Seq(Nat)] :
        /\ queue # <<>> /\ Head(queue) = Record(r) /\ queue' = Tail(queue)
        /\ \/ /\ files' = [h EXCEPT ![0] = Append(@, r)]
              /\ written' = written \cup {r} /\ failed' = failed
           \/ files' = h /\ written' = written /\ failed' = TRUE
        /\ \/ h = files /\ expired' = expired
           \/ /\ bounded /\ expired' = expired \cup In(files[Oldest])
              /\ \E done \in 1 .. RetentionFiles : h = Rotated(done)
  BY WriteRecordDoes
<1>2. /\ written = Filed \cup preserved \cup expired
      /\ Filed \cap (preserved \cup expired) = {} /\ preserved \cap expired = {}
      /\ InOrder /\ \A old \in expired, kept \in Filed : old < kept
      /\ written \subseteq Nat
  BY DEF HistoryInv, HistoryKept, LogTyped
<1>3. \A w \in written : w < r
  <2>1. 1 \in DOMAIN queue /\ queue[1] = Head(queue)
    BY <1>1 DEF LogTyped
  <2>2. queue[1].kind = "record" /\ queue[1].of = r
    BY <1>1, <2>1
  <2> QED
    BY <2>1, <2>2 DEF HistoryInv, QueueInOrder
<1>4. PICK gone :
        /\ Ordered(h) /\ Filed = Contents(h) \cup gone /\ expired' = expired \cup gone
        /\ \A old \in gone, new \in Contents(h) : old < new
  <2>1. CASE h = files /\ expired' = expired
    <3>1. Ordered(h) /\ Filed = Contents(h)
      BY <1>2, <2>1, FiledIs
    <3>2. PICK gone : gone = {}
      OBVIOUS
    <3>3. Filed = Contents(h) \cup gone /\ expired' = expired \cup gone
      BY <2>1, <3>1, <3>2
    <3>4. \A old \in gone, new \in Contents(h) : old < new
      BY <3>2
    <3> QED
      BY <3>1, <3>3, <3>4
  <2>2. CASE /\ expired' = expired \cup In(files[Oldest])
             /\ \E done \in 1 .. RetentionFiles : h = Rotated(done)
    BY <1>2, <2>2, RotatedHistory
  <2> QED
    BY <1>1, <2>1, <2>2
<1>5. preserved' = preserved
  BY DEF WriteRecord
<1>6. Filed' = Contents(files') /\ (InOrder' <=> Ordered(files'))
  BY DEF Filed, Contents, InOrder, Ordered
<1>7. /\ Contents(h) \subseteq Nat /\ gone \subseteq Nat /\ expired \subseteq Nat
      /\ Contents(h) \subseteq written /\ gone \subseteq written
  BY <1>2, <1>4
<1>8. Contents(h) \cap gone = {}
  BY <1>4, <1>7
<1>9. CASE files' = h /\ written' = written
  BY <1>2, <1>4, <1>5, <1>6, <1>8, <1>9 DEF HistoryKept
<1>10. CASE files' = [h EXCEPT ![0] = Append(@, r)] /\ written' = written \cup {r}
  <2>1. Ordered(files') /\ Contents(files') = Contents(h) \cup {r}
    BY <1>3, <1>4, <1>7, <1>10, AppendedHistory
  <2>2. r \notin written
    BY <1>2, <1>3
  <2>3. \A old \in expired', kept \in Filed' : old < kept
    BY <1>2, <1>3, <1>4, <1>6, <1>7, <2>1
  <2>4. written' = Filed' \cup preserved' \cup expired'
    BY <1>2, <1>4, <1>5, <1>6, <1>10, <2>1
  <2>5. Filed' \cap (preserved' \cup expired') = {} /\ preserved' \cap expired' = {}
    BY <1>2, <1>4, <1>5, <1>6, <1>7, <1>8, <2>1, <2>2
  <2> QED
    BY <1>6, <2>1, <2>3, <2>4, <2>5 DEF HistoryKept
<1> QED
  BY <1>1, <1>9, <1>10

\* Files that are moved to an archive, and not moved back, leave the others in order.
LEMMA HistoryPreserve ==
  ASSUME LogTyped, HistoryInv, Preserve
  PROVE  HistoryKept'
<1>1. PICK P \in SUBSET Index :
        /\ files' = [i \in Index |-> IF i \in P THEN <<>> ELSE files[i]]
        /\ preserved' = preserved \cup UNION {In(files[i]) : i \in P}
        /\ UNCHANGED <<expired, written>>
  BY DEF Preserve, Present
<1>2. /\ written = Filed \cup preserved \cup expired
      /\ Filed \cap (preserved \cup expired) = {} /\ preserved \cap expired = {}
      /\ InOrder /\ \A old \in expired, kept \in Filed : old < kept
      /\ Filed \subseteq Nat
  BY FiledIs DEF HistoryInv, HistoryKept
<1>3. \A i \in Index : In(files'[i]) = IF i \in P THEN {} ELSE In(files[i])
  BY <1>1, InEmpty
<1>4. Filed = Filed' \cup UNION {In(files[i]) : i \in P}
  <2>1. Filed' = UNION {In(files'[i]) : i \in Index}
    BY DEF Filed
  <2>2. \A i \in Index \ P : In(files[i]) \subseteq Filed'
    BY <1>3, <2>1
  <2>3. Filed' \subseteq Filed
    BY <1>3, <2>1 DEF Filed
  <2> QED
    BY <2>2, <2>3 DEF Filed
<1>5. Filed' \cap UNION {In(files[i]) : i \in P} = {}
  <2> SUFFICES ASSUME NEW i \in P, NEW j \in Index \ P, NEW x \in In(files[i]), x \in In(files[j])
               PROVE  FALSE
    BY <1>3 DEF Filed
  <2>1. i \in Index /\ i \in Nat /\ j \in Nat /\ i # j
    BY <1>1, Places
  <2>2. x \in Nat
    BY <1>2, <2>1 DEF Filed
  <2> QED
    BY <1>2, <2>1, <2>2 DEF InOrder
<1>6. InOrder'
  <2>1. \A i, j \in Index : i < j => \A new \in In(files'[i]), old \in In(files'[j]) : old < new
    BY <1>2, <1>3 DEF InOrder
  <2>2. ASSUME NEW i \in Index,
               NEW m \in 1 .. Len(files'[i]), NEW n \in 1 .. Len(files'[i]), m < n
        PROVE  files'[i][m] < files'[i][n]
    <3>1. CASE i \in P
      <4>1. Len(files'[i]) = 0
        BY <1>1, <3>1
      <4> QED
        BY <4>1
    <3>2. CASE i \notin P
      <4>1. files'[i] = files[i]
        BY <1>1, <3>2
      <4> QED
        BY <1>2, <2>2, <4>1 DEF InOrder
    <3> QED
      BY <3>1, <3>2
  <2> QED
    BY <2>1, <2>2 DEF InOrder
<1> QED
  BY <1>1, <1>2, <1>4, <1>5, <1>6 DEF HistoryKept

\* Every step keeps HistoryInv.
LEMMA HistoryStep == LogTyped /\ HistoryInv /\ [LogNext]_logVars => HistoryInv'
<1> SUFFICES ASSUME LogTyped, HistoryInv, [LogNext]_logVars PROVE HistoryInv'
  OBVIOUS
<1>1. QueueInOrder /\ HistoryKept
  BY DEF HistoryInv
<1>2. ASSUME UNCHANGED <<files, preserved, expired, written>> PROVE HistoryKept'
  BY <1>1, <1>2 DEF HistoryKept, Filed, InOrder
<1>3. ASSUME UNCHANGED <<queue, written, enqueued>> PROVE QueueInOrder'
  BY <1>1, <1>3 DEF QueueInOrder
<1>4. CASE Enqueue
  <2>1. /\ UNCHANGED <<files, preserved, expired, written>>
        /\ enqueued' = enqueued + 1 /\ enqueued \in Nat
        /\ queue' = queue \/ queue' = Append(queue, Record(enqueued'))
    BY <1>4 DEF Enqueue, LogTyped
  <2>2. Record(enqueued') \in Entries
    BY <2>1 DEF Entries
  <2>3. ASSUME queue' = queue PROVE QueueInOrder'
    <3>0. \A r \in written : r \in Nat /\ r <= enqueued
      BY <1>1 DEF QueueInOrder, LogTyped
    <3>1. \A r \in written : r <= enqueued'
      BY <2>1, <3>0
    <3>2. \A n \in DOMAIN queue : queue[n].kind = "record" => queue[n].of <= enqueued'
      <4> SUFFICES ASSUME NEW n \in DOMAIN queue, queue[n].kind = "record"
                   PROVE  queue[n].of <= enqueued'
        OBVIOUS
      <4>1. queue[n] \in Entries /\ queue[n].of <= enqueued
        BY <1>1 DEF QueueInOrder, LogTyped
      <4>2. queue[n].of \in Nat
        BY <4>1 DEF Entries
      <4> QED
        BY <2>1, <4>1, <4>2
    <3>3. \A n \in DOMAIN queue : queue[n].kind = "record" =>
            \A r \in written : r < queue[n].of
      BY <1>1 DEF QueueInOrder
    <3>4. written' = written
      BY <2>1
    <3> QED
      BY <1>1, <2>3, <3>1, <3>2, <3>3, <3>4 DEF QueueInOrder
  <2>4. ASSUME queue' = Append(queue, Record(enqueued')) PROVE QueueInOrder'
    <3>1. PICK e \in Entries : e = Record(enqueued')
      BY <2>2
    <3>2. /\ enqueued' \in Nat /\ enqueued <= enqueued' /\ enqueued < enqueued'
          /\ e.of = enqueued' /\ written' = written
      BY <2>1, <3>1
    <3>3. queue' = Append(queue, e)
      BY <2>4, <3>1
    <3> QED
      BY <1>1, <3>2, <3>3, QueueAppend
  <2> QED
    BY <1>2, <2>1, <2>3, <2>4 DEF HistoryInv
<1>5. ASSUME NEW f \in Flushes, FlushNow(f) PROVE HistoryInv'
  <2> DEFINE e == [kind |-> "flush", of |-> f]
  <2>1. UNCHANGED <<files, preserved, expired, written, enqueued>> /\ enqueued \in Nat
    BY <1>5 DEF FlushNow, LogTyped
  <2>2. queue' = queue \/ queue' = Append(queue, e)
    BY <1>5 DEF FlushNow
  <2>3. e \in Entries /\ e.kind # "record"
    BY DEF Entries
  <2>4. ASSUME queue' = Append(queue, e) PROVE QueueInOrder'
    <3>1. enqueued' \in Nat /\ enqueued <= enqueued' /\ written' = written
      BY <2>1
    <3>2. PICK x \in Entries : x = e
      BY <2>3
    <3>3. queue' = Append(queue, x) /\ x.kind # "record"
      BY <2>3, <2>4, <3>2
    <3> HIDE DEF e
    <3> QED
      BY <1>1, <3>1, <3>3, QueueAppend
  <2> QED
    BY <1>2, <1>3, <2>1, <2>2, <2>4 DEF HistoryInv
<1>6. CASE WriteRecord
  <2>1. PICK r \in Nat :
          /\ queue # <<>> /\ Head(queue) = Record(r) /\ queue' = Tail(queue)
          /\ written' = written \cup {r} \/ written' = written
    BY <1>6, WriteRecordDoes
  <2>2. enqueued' = enqueued
    BY <1>6 DEF WriteRecord
  <2>3. QueueInOrder'
    BY <1>1, <2>1, <2>2, QueueTail
  <2> QED
    BY <1>6, <2>3, HistoryWrite DEF HistoryInv
<1>7. CASE WriterSyncs
  <2>1. /\ UNCHANGED <<files, preserved, expired, written, enqueued>>
        /\ queue # <<>> /\ queue' = Tail(queue)
    BY <1>7 DEF WriterSyncs
  <2> QED
    BY <1>1, <1>2, <2>1, QueueTail DEF HistoryInv
<1>8. CASE Preserve
  <2>1. UNCHANGED <<queue, written, enqueued>>
    BY <1>8 DEF Preserve
  <2> QED
    BY <1>3, <1>8, <2>1, HistoryPreserve DEF HistoryInv
<1>9. CASE RestartLog
  <2>1. UNCHANGED <<files, preserved, expired, written, enqueued>> /\ queue' = <<>>
    BY <1>9 DEF RestartLog
  <2> QED
    BY <1>1, <1>2, <2>1 DEF HistoryInv, QueueInOrder
<1>10. ASSUME UNCHANGED <<queue, enqueued, files, preserved, expired, written>>
       PROVE  HistoryInv'
  BY <1>2, <1>3, <1>10 DEF HistoryInv
<1>11. ASSUME NEW r \in refused, Overflow(r) PROVE HistoryInv'
  BY <1>10, <1>11 DEF Overflow
<1>12. ASSUME NEW f \in Flushes, FlushTimesOut(f) \/ FlushReturns(f) PROVE HistoryInv'
  BY <1>10, <1>12 DEF FlushTimesOut, FlushReturns
<1>13. CASE Choose \/ ApplySaved
  BY <1>10, <1>13 DEF Choose, ApplySaved
<1>14. CASE UNCHANGED logVars
  BY <1>10, <1>14 DEF logVars
<1> QED
  BY <1>4, <1>5, <1>6, <1>7, <1>8, <1>9, <1>11, <1>12, <1>13, <1>14 DEF LogNext

\* Rotation, preservation and failures at any of their steps lose nothing but what
\* expires, keep no record twice, and keep the order of writing.
THEOREM HistoryIsKept == LogSpec => []HistoryKept
<1>1. HistoryInv => HistoryKept
  BY DEF HistoryInv
<1> QED
  BY <1>1, InitLog, TypedStep, HistoryStep, PTL DEF LogSpec

\* Rotation, which lets records expire, is on only while the saved choice says so.
THEOREM ExpiryIsChosen == LogSpec => ExpiryOnlyIfChosen
<1>1. RetentionInv /\ [LogNext]_logVars => RetentionInv'
  <2> SUFFICES ASSUME RetentionInv, [LogNext]_logVars PROVE RetentionInv'
    OBVIOUS
  <2>1. ASSUME UNCHANGED <<bounded, saved>> PROVE RetentionInv'
    BY <2>1 DEF RetentionInv
  <2>2. ASSUME NEW f \in Flushes, FlushNow(f) \/ FlushTimesOut(f) \/ FlushReturns(f)
        PROVE  RetentionInv'
    BY <2>1, <2>2 DEF FlushNow, FlushTimesOut, FlushReturns
  <2>3. CASE Choose \/ ApplySaved
    BY <2>3 DEF Choose, ApplySaved, RetentionInv
  <2>4. CASE RestartLog
    BY <2>4 DEF RestartLog, RetentionInv
  <2> QED
    BY <2>1, <2>2, <2>3, <2>4
    DEF LogNext, Enqueue, Overflow, WriteRecord, WriterSyncs, Preserve, logVars
<1>2. LogTyped /\ RetentionInv /\ [LogNext]_logVars
        => [expired' # expired => saved = "bounded"]_logVars
  <2> SUFFICES ASSUME LogTyped, RetentionInv, LogNext, expired' # expired
               PROVE  saved = "bounded"
    OBVIOUS
  <2>1. ~(\E f \in Flushes : FlushNow(f) \/ FlushTimesOut(f) \/ FlushReturns(f))
    BY DEF FlushNow, FlushTimesOut, FlushReturns
  <2>2. ~(Choose \/ ApplySaved \/ Preserve \/ RestartLog)
    BY DEF Choose, ApplySaved, Preserve, RestartLog
  <2>3. ~(Enqueue \/ WriterSyncs \/ \E r \in refused : Overflow(r))
    BY DEF Enqueue, WriterSyncs, Overflow
  <2>4. WriteRecord
    BY <2>1, <2>2, <2>3 DEF LogNext
  <2>5. bounded
    BY <2>4, WriteRecordDoes
  <2> QED
    BY <2>5 DEF RetentionInv
<1> QED
  BY <1>1, <1>2, InitLog, TypedStep, PTL DEF LogSpec, ExpiryOnlyIfChosen

-----------------------------------------------------------------------------
(* Numbers *)

\* A set of natural numbers has a least one.
LEMMA Least ==
  ASSUME NEW T, T \subseteq Nat, T # {} PROVE \E m \in T : \A k \in T : m <= k
  <1>1. \E R : IsWellFoundedOn(R, Nat) /\ \A x, y \in Nat : <<y, x>> \in R <=> y < x
    <2>1. IsWellFoundedOn(OpToRel(<, Nat), Nat)
      BY NatLessThanWellFounded
    <2>2. \A x, y \in Nat : <<y, x>> \in OpToRel(<, Nat) <=> y < x
      BY DEF OpToRel
    <2> QED
      BY <2>1, <2>2, Zenon
  <1>2. PICK R : IsWellFoundedOn(R, Nat) /\ \A x, y \in Nat : <<y, x>> \in R <=> y < x
    BY <1>1
  <1>3. PICK m \in T : \A k \in T : ~ (<<k, m>> \in R)
    BY <1>2, WFMin
  <1>4. \A k \in T : ~ (k < m) /\ k \in Nat /\ m \in Nat
    BY <1>2, <1>3
  <1>5. \A k \in T : m <= k
    BY <1>4
  <1> QED
    BY <1>5

\* A set that has 0, and with every number the next, has them all.
LEMMA Induct ==
  ASSUME NEW S, 0 \in S, \A n \in Nat : n \in S => n + 1 \in S PROVE Nat \subseteq S
  <1> SUFFICES ASSUME NEW n \in Nat, n \notin S PROVE FALSE
    OBVIOUS
  <1> DEFINE T == {k \in Nat : k \notin S}
  <1>1. PICK m \in T : \A k \in T : m <= k
    <2>1. T \subseteq Nat /\ T # {}
      OBVIOUS
    <2> QED
      BY <2>1, Least
  <1>2. m # 0 /\ m - 1 \in Nat /\ m - 1 \notin T
    BY <1>1
  <1> QED
    BY <1>1, <1>2

-----------------------------------------------------------------------------
(* Paging through the activity.  A line is written here as the place p after *)
(* which it starts and the place e where it ends.                            *)

Newline(f, e) == e \in 1..Len(f) /\ f[e] = "newline"
Starts(f, p) == p = 0 \/ Newline(f, p)
Line(f, p, e) ==
  /\ Starts(f, p) /\ Newline(f, e) /\ p \in 0..(e - 1)
  /\ \A i \in (p + 1)..(e - 1) : ~ Newline(f, i)
Valued(f, p, e) ==
  /\ Line(f, p, e) /\ e - p - 1 \in 1..MaxRecord
  /\ \A i \in (p + 1)..(e - 1) : f[i] # "bad"

\* The lines between two offsets that hold no record.
Lost(f, b, o) == {e \in (b + 1)..o : Newline(f, e) /\ ~ \E p \in Nat : Valued(f, p, e)}

Increasing(sh) ==
  \A i, j \in 1..Len(sh) : i < j => sh[i] < sh[j]

\* Of the lines that end by the offset o, those shown hold records, and every record is
\* shown that ends after b or starts after the first one shown.
Shows(f, o, sh, b) ==
  /\ sh \in Seq(Nat) /\ Increasing(sh)
  /\ \A j \in 1..Len(sh) : sh[j] - 1 \in Nat /\ \E e \in 1..o : Valued(f, sh[j] - 1, e)
  /\ \A p \in Nat, e \in 1..o :
       Valued(f, p, e) /\ (e > b \/ (sh # <<>> /\ p + 1 > sh[1]))
         => \E j \in 1..Len(sh) : sh[j] = p + 1
Counts(f, o, sk, b) == sk = Cardinality(Lost(f, b, o))

\* An offset is between two lines, or within one that is too long.
Between(f, o, d) ==
  \E m \in 0..o : /\ Starts(f, m) /\ \A i \in (m + 1)..o : ~ Newline(f, i)
                  /\ IF d THEN o - m > MaxRecord ELSE o = m

ReaderTyped ==
  /\ file \in Seq(Byte) /\ shown \in Seq(Nat) /\ skipped \in Nat /\ base \in Nat
  /\ cursor \in [current : BOOLEAN, from : Nat, offset : Nat, discard : BOOLEAN,
                 hasMore : BOOLEAN]

ReaderInv ==
  cursor.current =>
    /\ base \in 0..cursor.offset /\ cursor.offset <= Len(file)
    /\ Shows(file, cursor.offset, shown, base)
    /\ Counts(file, cursor.offset, skipped, base)
    /\ Between(file, cursor.offset, cursor.discard)
    /\ cursor.hasMore => cursor.offset > cursor.from

Rows == [entries : Seq(Nat), bytes : Nat, skipped : Nat]
ForwardState ==
  [length : Nat, offset : Nat, discard : BOOLEAN, stopped : BOOLEAN, limited : BOOLEAN,
   rows : Rows]
BackwardState ==
  [length : Nat, final : BOOLEAN, offset : Nat, discard : BOOLEAN, stopped : BOOLEAN,
   rows : Rows]

\* What is read of one line, from its end, is a record or is not.
LEMMA Retained ==
  ASSUME NEW rows \in Rows, NEW start \in Nat, NEW length \in Nat
  PROVE  /\ Retain(rows, start, length) \in Rows
         /\ Valid(start, length)
              => /\ Retain(rows, start, length).entries = Append(rows.entries, start)
                 /\ Retain(rows, start, length).skipped = rows.skipped
         /\ ~Valid(start, length)
              => /\ Retain(rows, start, length).entries = rows.entries
                 /\ Retain(rows, start, length).bytes = rows.bytes
                 /\ Retain(rows, start, length).skipped = rows.skipped + 1
<1>1. /\ rows.entries \in Seq(Nat) /\ rows.bytes \in Nat /\ rows.skipped \in Nat
      /\ rows = [entries |-> rows.entries, bytes |-> rows.bytes, skipped |-> rows.skipped]
  BY DEF Rows
<1>2. CASE Valid(start, length)
  <2>1. Append(rows.entries, start) \in Seq(Nat) /\ rows.bytes + length + 1 \in Nat
    BY <1>1
  <2> QED
    BY <1>1, <1>2, <2>1 DEF Retain, Rows
<1>3. CASE ~Valid(start, length)
  BY <1>1, <1>3 DEF Retain, Rows
<1> QED
  BY <1>2, <1>3

\* The line that ends at a newline is the one after the last place a line may start.
LEMMA LineIs ==
  ASSUME file \in Seq(Byte), NEW p \in Nat, NEW e \in Nat, p < e,
         Starts(file, p), Newline(file, e), \A i \in (p + 1)..(e - 1) : ~ Newline(file, i)
  PROVE  /\ Line(file, p, e)
         /\ \A q \in Nat : Line(file, q, e) => q = p
         /\ Valid(p + 1, e - p - 1) <=> Valued(file, p, e)
<1>1. Line(file, p, e)
  BY DEF Line
<1>2. ASSUME NEW q \in Nat, Line(file, q, e) PROVE q = p
  <2>1. q < p => p \in (q + 1)..(e - 1) /\ Newline(file, p)
    BY <1>2 DEF Line, Starts
  <2>2. p < q => q \in (p + 1)..(e - 1) /\ Newline(file, q)
    BY <1>2 DEF Line, Starts
  <2> QED
    BY <1>2, <2>1, <2>2 DEF Line
<1>3. e - p - 1 \in Nat /\ p + 1 + (e - p - 1) - 1 = e - 1
  OBVIOUS
<1>4. Valid(p + 1, e - p - 1) <=> Valued(file, p, e)
  BY <1>1, <1>3 DEF Valid, Valued
<1> QED
  BY <1>1, <1>2, <1>4

\* A line that ended before another starts before it too.
LEMMA LinesApart ==
  ASSUME NEW f, NEW p \in Nat, NEW e \in Nat, NEW q \in Nat, NEW d \in Nat,
         Line(f, p, e), Line(f, q, d), e < d
  PROVE  e <= q
<1>1. Newline(f, e) /\ ~(e \in (q + 1)..(d - 1))
  BY DEF Line
<1> QED
  BY <1>1

\* Nothing ends between two offsets.
LEMMA ShowsOn ==
  ASSUME NEW f, NEW o \in Nat, NEW n \in Nat, o <= n, NEW b \in Nat, NEW sh, NEW sk,
         \A i \in (o + 1)..n : ~ Newline(f, i), Shows(f, o, sh, b), Counts(f, o, sk, b)
  PROVE  Shows(f, n, sh, b) /\ Counts(f, n, sk, b)
<1>1. \A p, e : Valued(f, p, e) /\ e \in 1..n => e \in 1..o
  BY DEF Valued, Line
<1>2. 1..o \subseteq 1..n
  OBVIOUS
<1>3. Shows(f, n, sh, b)
  BY <1>1, <1>2 DEF Shows
<1>4. Lost(f, b, n) = Lost(f, b, o)
  BY DEF Lost
<1> QED
  BY <1>3, <1>4 DEF Counts

\* One line ends between two offsets, at the second: a record, which is shown...
LEMMA ShowsNext ==
  ASSUME file \in Seq(Byte), NEW o \in Nat, NEW n \in Nat, o < n, NEW b \in 0..o,
         NEW sh, NEW sk,
         Starts(file, o), \A i \in (o + 1)..(n - 1) : ~ Newline(file, i), Newline(file, n),
         Shows(file, o, sh, b), Counts(file, o, sk, b), Valued(file, o, n)
  PROVE  Shows(file, n, Append(sh, o + 1), b) /\ Counts(file, n, sk, b)
<1> DEFINE new == Append(sh, o + 1)
<1>1. sh \in Seq(Nat) /\ Len(sh) \in Nat
  BY DEF Shows
<1>2. /\ new \in Seq(Nat) /\ Len(new) = Len(sh) + 1 /\ new[Len(sh) + 1] = o + 1
      /\ \A j \in 1..Len(sh) : new[j] = sh[j]
  BY <1>1
<1>3. \A j \in 1..Len(sh) : sh[j] \in Nat /\ sh[j] <= o
  <2> SUFFICES ASSUME NEW j \in 1..Len(sh) PROVE sh[j] <= o
    BY <1>1
  <2>1. PICK e \in 1..o : Valued(file, sh[j] - 1, e)
    BY DEF Shows
  <2>2. sh[j] - 1 \in 0..(e - 1)
    BY <2>1 DEF Valued, Line
  <2>3. sh[j] \in Nat
    BY <1>1
  <2> QED
    BY <2>2, <2>3
<1> HIDE DEF new
<1>4. Increasing(new)
  <2> SUFFICES ASSUME NEW i \in 1..Len(new), NEW j \in 1..Len(new), i < j
               PROVE  new[i] < new[j]
    BY DEF Increasing
  <2>1. \A k, l \in 1..Len(sh) : k < l => sh[k] < sh[l]
    BY DEF Increasing, Shows
  <2>2. i \in 1..Len(sh) /\ (j \in 1..Len(sh) \/ j = Len(sh) + 1)
    <3>1. Len(sh) \in Nat /\ Len(new) = Len(sh) + 1
      BY <1>1, <1>2
    <3>2. \A n1 \in Nat : \A k \in 1..(n1 + 1), l \in 1..(n1 + 1) :
            k < l => k \in 1..n1 /\ (l \in 1..n1 \/ l = n1 + 1)
      OBVIOUS
    <3>3. i \in 1..(Len(sh) + 1) /\ j \in 1..(Len(sh) + 1)
      BY <3>1, Zenon
    <3> QED
      BY <3>1, <3>2, <3>3
  <2>3. new[i] = sh[i] /\ sh[i] \in Nat /\ sh[i] <= o
    BY <1>2, <1>3, <2>2
  <2>4. CASE j \in 1..Len(sh)
    BY <1>2, <2>1, <2>2, <2>4
  <2>5. CASE j = Len(sh) + 1
    BY <1>2, <2>3, <2>5
  <2> QED
    BY <2>2, <2>4, <2>5
<1>5. \A j \in 1..Len(new) : new[j] - 1 \in Nat /\ \E e \in 1..n : Valued(file, new[j] - 1, e)
  <2>1. 1..o \subseteq 1..n
    OBVIOUS
  <2>2. ASSUME NEW j \in 1..Len(sh)
        PROVE  new[j] - 1 \in Nat /\ \E e \in 1..n : Valued(file, new[j] - 1, e)
    BY <1>2, <2>1 DEF Shows
  <2>3. ASSUME NEW j, j = Len(sh) + 1
        PROVE  new[j] - 1 \in Nat /\ \E e \in 1..n : Valued(file, new[j] - 1, e)
    <3>1. new[j] - 1 = o /\ n \in 1..n
      BY <1>2, <2>3
    <3> QED
      BY <3>1
  <2>4. \A j \in 1..Len(new) : j \in 1..Len(sh) \/ j = Len(sh) + 1
    BY <1>1, <1>2
  <2> QED
    BY <2>2, <2>3, <2>4
<1>6. ASSUME NEW p \in Nat, NEW e \in 1..n, Valued(file, p, e),
             e > b \/ (new # <<>> /\ p + 1 > new[1])
      PROVE  \E j \in 1..Len(new) : new[j] = p + 1
  <2>1. CASE e = n
    <3>1. p = o
      BY <1>6, <2>1, LineIs DEF Valued
    <3> QED
      BY <1>1, <1>2, <3>1
  <2>2. CASE e # n
    <3>1. e \in 1..o /\ p < o
      BY <1>6, <2>2 DEF Valued, Line
    <3>2. e > b \/ (sh # <<>> /\ p + 1 > sh[1])
      <4>1. CASE sh = <<>>
        BY <1>2, <1>6, <3>1, <4>1
      <4>2. CASE sh # <<>>
        BY <1>1, <1>2, <1>6, <4>2
      <4> QED
        BY <4>1, <4>2
    <3> QED
      BY <1>1, <1>2, <1>6, <3>1, <3>2 DEF Shows
  <2> QED
    BY <2>1, <2>2
<1>7. Lost(file, b, n) = Lost(file, b, o)
  BY DEF Lost
<1> QED
  BY <1>2, <1>4, <1>5, <1>6, <1>7 DEF Shows, Counts, new

\* ... or none, which is counted.
LEMMA CountsNext ==
  ASSUME NEW o \in Nat, NEW l \in 0..o, NEW n \in Nat, o < n, NEW b \in 0..o, NEW sh, NEW sk,
         file \in Seq(Byte),
         Starts(file, l), \A i \in (l + 1)..(n - 1) : ~ Newline(file, i), Newline(file, n),
         Shows(file, o, sh, b), Counts(file, o, sk, b), ~Valued(file, l, n)
  PROVE  Shows(file, n, sh, b) /\ Counts(file, n, sk + 1, b)
<1>1. ~ \E p \in Nat : Valued(file, p, n)
  BY LineIs DEF Valued
<1>2. \A p \in Nat, e \in 1..n : Valued(file, p, e) => e \in 1..o
  BY <1>1 DEF Valued, Line
<1>3. 1..o \subseteq 1..n
  OBVIOUS
<1>4. Shows(file, n, sh, b)
  BY <1>2, <1>3 DEF Shows
<1>5. Lost(file, b, n) = Lost(file, b, o) \cup {n}
  BY <1>1 DEF Lost
<1>6. IsFiniteSet(Lost(file, b, o)) /\ ~(n \in Lost(file, b, o))
  <2>1. Lost(file, b, o) \subseteq (b + 1)..o
    BY DEF Lost
  <2>2. IsFiniteSet((b + 1)..o)
    BY FS_Interval
  <2>3. ~(n \in (b + 1)..o)
    OBVIOUS
  <2> QED
    BY <2>1, <2>2, <2>3, FS_Subset
<1>7. Cardinality(Lost(file, b, n)) = Cardinality(Lost(file, b, o)) + 1
  BY <1>5, <1>6, FS_AddElement
<1> QED
  BY <1>4, <1>7 DEF Counts

\* Where reading on is after the byte i.
Reading(s, i) ==
  /\ s \in ForwardState /\ s.offset \in cursor.offset..i
  /\ Shows(file, s.offset, shown \o s.rows.entries, base)
  /\ Counts(file, s.offset, skipped + s.rows.skipped, base)
  /\ Between(file, s.offset, s.discard)
  /\ s.stopped \/ s.rows.bytes > 0 => s.offset > cursor.offset
  /\ ~s.stopped =>
       /\ \A j \in (s.offset + 1)..i : ~ Newline(file, j)
       /\ IF s.discard THEN s.offset = i
                       ELSE s.length <= MaxRecord /\ s.offset + s.length = i

\* A byte of a line is read.
LEMMA ReadByte ==
  ASSUME ReaderTyped, base <= cursor.offset, NEW s, NEW i \in 1..Len(file), Reading(s, i - 1),
         ~s.stopped, file[i] # "newline"
  PROVE  Reading(Forwards(s, i), i)
<1> DEFINE long == s.discard \/ s.length + 1 > MaxRecord
           t == Forwards(s, i)
           o == IF long THEN i ELSE s.offset
<1>1. /\ s.length \in Nat /\ s.offset \in Nat /\ s.discard \in BOOLEAN /\ s.rows \in Rows
      /\ s = [length |-> s.length, offset |-> s.offset, discard |-> s.discard,
              stopped |-> s.stopped, limited |-> s.limited, rows |-> s.rows]
  BY DEF Reading, ForwardState
<1>2. t = [length |-> s.length + 1, offset |-> o, discard |-> long,
           stopped |-> s.stopped, limited |-> s.limited, rows |-> s.rows]
  BY <1>1 DEF Forwards
<1>3. /\ t.offset = o /\ t.rows = s.rows /\ t.discard = long /\ t.length = s.length + 1
      /\ ~t.stopped /\ t \in ForwardState
  BY <1>1, <1>2 DEF Reading, ForwardState
<1>4. /\ cursor.offset \in Nat /\ base \in Nat /\ MaxRecord \in Nat /\ i \in Nat
      /\ s.offset \in cursor.offset..(i - 1) /\ ~ Newline(file, i)
      /\ \A j \in (s.offset + 1)..(i - 1) : ~ Newline(file, j)
      /\ s.rows.bytes > 0 => s.offset > cursor.offset
      /\ IF s.discard THEN s.offset = i - 1
                      ELSE s.length <= MaxRecord /\ s.offset + s.length = i - 1
  BY ReaderAssumption DEF ReaderTyped, Reading, Newline
<1>5. PICK m \in 0..s.offset :
        /\ Starts(file, m) /\ \A j \in (m + 1)..s.offset : ~ Newline(file, j)
        /\ IF s.discard THEN s.offset - m > MaxRecord ELSE s.offset = m
  BY DEF Reading, Between
<1>6. \A j \in (s.offset + 1)..i : ~ Newline(file, j)
  BY <1>4
<1>7. o \in s.offset..i /\ o \in Nat /\ o \in cursor.offset..i
  BY <1>1, <1>4
<1> DEFINE sh == shown \o s.rows.entries
           sk == skipped + s.rows.skipped
<1>8. Shows(file, o, sh, base) /\ Counts(file, o, sk, base)
  <2>1. Shows(file, s.offset, sh, base) /\ Counts(file, s.offset, sk, base)
    BY DEF Reading
  <2>2. \A j \in (s.offset + 1)..o : ~ Newline(file, j)
    BY <1>4, <1>6, <1>7
  <2>3. s.offset <= o
    BY <1>1, <1>7
  <2> HIDE DEF o, sh, sk, long, t
  <2> QED
    BY <1>1, <1>4, <1>7, <2>1, <2>2, <2>3, ShowsOn
<1>9. Between(file, o, long)
  <2>1. m \in 0..o
    BY <1>1, <1>5, <1>7
  <2>2. \A j \in (m + 1)..o : ~ Newline(file, j)
    <3>1. \A j \in (m + 1)..o : j \in (m + 1)..s.offset \/ j \in (s.offset + 1)..i
      BY <1>1, <1>4, <1>5, <1>7
    <3> QED
      BY <1>5, <1>6, <3>1
  <2>3. IF long THEN o - m > MaxRecord ELSE o = m
    BY <1>1, <1>4, <1>5
  <2> HIDE DEF o, long
  <2> QED
    BY <1>5, <2>1, <2>2, <2>3 DEF Between
<1>10. s.rows.bytes > 0 => o > cursor.offset
  BY <1>1, <1>4, <1>7
<1>11. \A j \in (o + 1)..i : ~ Newline(file, j)
  BY <1>1, <1>4, <1>6, <1>7
<1>12. IF long THEN o = i ELSE s.length + 1 <= MaxRecord /\ o + (s.length + 1) = i
  BY <1>1, <1>4
<1> HIDE DEF o, long, t
<1> QED
  BY <1>3, <1>7, <1>8, <1>9, <1>10, <1>11, <1>12 DEF Reading, t

\* The newline of a line is read.
LEMMA ReadEnd ==
  ASSUME ReaderTyped, base <= cursor.offset, NEW s, NEW i \in 1..Len(file), Reading(s, i - 1),
         ~s.stopped, file[i] = "newline"
  PROVE  Reading(EndLine(s, i), i)
<1>1. /\ s.length \in Nat /\ s.offset \in Nat /\ s.discard \in BOOLEAN /\ s.rows \in Rows
      /\ s.rows.entries \in Seq(Nat) /\ s.rows.skipped \in Nat /\ s.rows.bytes \in Nat
      /\ s = [length |-> s.length, offset |-> s.offset, discard |-> s.discard,
              stopped |-> s.stopped, limited |-> s.limited, rows |-> s.rows]
  BY DEF Reading, ForwardState, Rows
<1>2. /\ cursor.offset \in Nat /\ base \in Nat /\ MaxRecord \in Nat /\ i \in Nat
      /\ MaxResponse \in Nat /\ MaxResponse > MaxRecord
      /\ shown \in Seq(Nat) /\ skipped \in Nat /\ file \in Seq(Byte) /\ Len(file) \in Nat
      /\ s.offset \in cursor.offset..(i - 1) /\ Newline(file, i)
      /\ \A j \in (s.offset + 1)..(i - 1) : ~ Newline(file, j)
      /\ s.rows.bytes > 0 => s.offset > cursor.offset
      /\ IF s.discard THEN s.offset = i - 1
                      ELSE s.length <= MaxRecord /\ s.offset + s.length = i - 1
  BY ReaderAssumption DEF ReaderTyped, Reading, Newline
<1>3. PICK m \in 0..s.offset :
        /\ Starts(file, m) /\ \A j \in (m + 1)..s.offset : ~ Newline(file, j)
        /\ IF s.discard THEN s.offset - m > MaxRecord ELSE s.offset = m
  BY DEF Reading, Between
<1>4. \A j \in (m + 1)..(i - 1) : ~ Newline(file, j)
  <2>1. \A j \in (m + 1)..(i - 1) : j \in (m + 1)..s.offset \/ j \in (s.offset + 1)..(i - 1)
    BY <1>1, <1>2, <1>3
  <2> QED
    BY <1>2, <1>3, <2>1
<1> DEFINE sh == shown \o s.rows.entries
           sk == skipped + s.rows.skipped
<1>5. Shows(file, s.offset, sh, base) /\ Counts(file, s.offset, sk, base)
  BY DEF Reading
<1>6. s.offset < i /\ base \in 0..s.offset /\ m \in Nat /\ m < i
  <2>1. /\ s.offset \in Nat /\ i \in Nat /\ cursor.offset \in Nat /\ base \in Nat
        /\ s.offset \in cursor.offset..(i - 1) /\ m \in 0..s.offset
    BY <1>1, <1>2, <1>3
  <2> QED
    BY <2>1
<1>7. Between(file, i, FALSE)
  BY <1>2, <1>6 DEF Between, Starts
<1>8. ASSUME NEW t, t \in ForwardState, t.offset = i, ~t.discard, t.length = 0,
             Shows(file, i, shown \o t.rows.entries, base),
             Counts(file, i, skipped + t.rows.skipped, base)
      PROVE  Reading(t, i)
  <2>1. t.offset \in cursor.offset..i /\ t.offset > cursor.offset /\ 0 <= MaxRecord
        /\ t.offset + t.length = i /\ \A j \in (t.offset + 1)..i : ~ Newline(file, j)
    <3>1. /\ cursor.offset \in Nat /\ i \in Nat /\ s.offset \in cursor.offset..(i - 1)
          /\ MaxRecord \in Nat /\ t.offset = i /\ t.length = 0
      BY <1>2, <1>8
    <3> QED
      BY <3>1
  <2>2. Between(file, t.offset, t.discard)
    <3>1. t.discard = FALSE
      BY <1>8 DEF ForwardState
    <3> QED
      BY <1>7, <1>8, <3>1
  <2> QED
    BY <1>2, <1>8, <2>1, <2>2 DEF Reading
<1> DEFINE Done(rows) ==
      [s EXCEPT !.rows = rows, !.discard = FALSE, !.length = 0, !.offset = i,
                !.stopped = Len(rows.entries) = Limit,
                !.limited = Len(rows.entries) = Limit /\ i < Len(file)]
<1>9. ASSUME NEW rows \in Rows
      PROVE  /\ Done(rows) \in ForwardState /\ Done(rows).offset = i /\ ~Done(rows).discard
             /\ Done(rows).length = 0 /\ Done(rows).rows = rows
  BY <1>1, <1>2 DEF ForwardState
<1> HIDE DEF Done
<1>10. CASE s.discard
  <2> DEFINE rows == [s.rows EXCEPT !.skipped = @ + 1]
  <2>1. rows \in Rows /\ rows.entries = s.rows.entries /\ rows.skipped = s.rows.skipped + 1
    <3>1. s.rows = [entries |-> s.rows.entries, bytes |-> s.rows.bytes,
                    skipped |-> s.rows.skipped]
      BY <1>1 DEF Rows
    <3> QED
      BY <1>1, <3>1 DEF Rows
  <2>2. ~Valued(file, m, i)
    <3>1. i - m - 1 > MaxRecord
      BY <1>1, <1>2, <1>3, <1>6, <1>10
    <3> QED
      BY <1>2, <1>6, <3>1 DEF Valued
  <2>3. Shows(file, i, sh, base) /\ Counts(file, i, sk + 1, base)
    <3> HIDE DEF sh, sk
    <3> QED
      BY <1>1, <1>2, <1>3, <1>4, <1>5, <1>6, <2>2, CountsNext
  <2>4. skipped + rows.skipped = sk + 1
    BY <1>1, <1>2, <2>1
  <2>5. EndLine(s, i) = Done(rows)
    BY <1>10 DEF EndLine, Done
  <2> HIDE DEF rows
  <2> QED
    BY <1>8, <1>9, <2>1, <2>3, <2>4, <2>5
<1>11. CASE ~s.discard
  <2>1. /\ i - s.length = s.offset + 1 /\ s.length = i - s.offset - 1 /\ i - s.length \in Nat
        /\ s.offset = m /\ Starts(file, s.offset)
    <3>1. s.offset = m /\ s.offset + s.length = i - 1 /\ Starts(file, m)
      BY <1>2, <1>3, <1>11
    <3>2. s.offset \in Nat /\ s.length \in Nat /\ i \in Nat
      BY <1>1, <1>2
    <3>3. i - s.length = s.offset + 1 /\ s.length = i - s.offset - 1
      BY <3>1, <3>2
    <3> QED
      BY <3>1, <3>2, <3>3
  <2>2. Valid(i - s.length, s.length) <=> Valued(file, s.offset, i)
    <3>1. \A j \in (s.offset + 1)..(i - 1) : ~ Newline(file, j)
      BY <1>2
    <3>2. Valid(s.offset + 1, i - s.offset - 1) <=> Valued(file, s.offset, i)
      BY <1>1, <1>2, <1>6, <2>1, <3>1, LineIs
    <3> QED
      BY <2>1, <3>2
  <2> DEFINE rows == Retain(s.rows, i - s.length, s.length)
  <2>3. CASE MustWait(s.rows, i - s.length, s.length)
    <3>1. s.rows.bytes > 0
      BY <1>1, <1>2, <1>11, <2>3 DEF MustWait
    <3>2. EndLine(s, i) = [s EXCEPT !.stopped = TRUE, !.limited = TRUE]
      BY <1>11, <2>3 DEF EndLine
    <3> DEFINE t == [s EXCEPT !.stopped = TRUE, !.limited = TRUE]
    <3>3. /\ t \in ForwardState /\ t.offset = s.offset /\ t.discard = s.discard
          /\ t.rows = s.rows /\ t.stopped
      BY <1>1 DEF ForwardState
    <3>4. t.offset \in cursor.offset..i
      BY <1>1, <1>2, <3>3
    <3> HIDE DEF t
    <3>5. Reading(t, i)
      BY <1>2, <3>1, <3>3, <3>4 DEF Reading
    <3> QED
      BY <3>2, <3>5 DEF t
  <2>4. CASE ~MustWait(s.rows, i - s.length, s.length)
    <3>1. EndLine(s, i) = Done(rows)
      BY <1>11, <2>4 DEF EndLine, Done
    <3>2. rows \in Rows
      BY <1>1, <2>1, Retained
    <3>3. CASE Valued(file, s.offset, i)
      <4>1. rows.entries = Append(s.rows.entries, s.offset + 1)
            /\ rows.skipped = s.rows.skipped
        <5>1. Valid(i - s.length, s.length)
          BY <2>2, <3>3
        <5>2. rows.entries = Append(s.rows.entries, i - s.length)
              /\ rows.skipped = s.rows.skipped
          BY <1>1, <2>1, <5>1, Retained
        <5> QED
          BY <2>1, <5>2
      <4>2. Shows(file, i, Append(sh, s.offset + 1), base) /\ Counts(file, i, sk, base)
        <5> HIDE DEF sh, sk
        <5> QED
          BY <1>1, <1>2, <1>5, <1>6, <2>1, <3>3, ShowsNext
      <4>3. shown \o Append(s.rows.entries, s.offset + 1) = Append(sh, s.offset + 1)
        <5>1. \A u, v \in Seq(Nat), w \in Nat : u \o Append(v, w) = Append(u \o v, w)
          OBVIOUS
        <5>2. shown \in Seq(Nat) /\ s.rows.entries \in Seq(Nat) /\ s.offset + 1 \in Nat
          BY <1>1, <1>2
        <5> QED
          BY <5>1, <5>2, Zenon
      <4> HIDE DEF rows, sh
      <4> QED
        BY <1>8, <1>9, <3>1, <3>2, <4>1, <4>2, <4>3
    <3>4. CASE ~Valued(file, s.offset, i)
      <4>1. rows.entries = s.rows.entries /\ rows.skipped = s.rows.skipped + 1
        BY <1>1, <2>1, <2>2, <3>4, Retained
      <4>2. Shows(file, i, sh, base) /\ Counts(file, i, sk + 1, base)
        <5> HIDE DEF sh, sk
        <5> QED
          BY <1>1, <1>2, <1>4, <1>5, <1>6, <2>1, <3>4, CountsNext
      <4>3. skipped + rows.skipped = sk + 1
        <5>1. skipped \in Nat /\ s.rows.skipped \in Nat /\ rows.skipped = s.rows.skipped + 1
          BY <1>1, <1>2, <4>1
        <5> HIDE DEF rows
        <5> QED
          BY <5>1
      <4> HIDE DEF rows
      <4> QED
        BY <1>8, <1>9, <3>1, <3>2, <4>1, <4>2, <4>3
    <3> QED
      BY <3>3, <3>4
  <2> QED
    BY <2>3, <2>4
<1> QED
  BY <1>10, <1>11

\* One byte is read.
LEMMA ReadOne ==
  ASSUME ReaderTyped, base <= cursor.offset, NEW s, NEW i \in 1..Len(file), Reading(s, i - 1)
  PROVE  Reading(Forwards(s, i), i)
<1>1. CASE s.stopped
  <2>1. Forwards(s, i) = s
    BY <1>1 DEF Forwards
  <2>2. s.offset \in cursor.offset..(i - 1) /\ cursor.offset \in Nat /\ s.offset \in Nat
    BY DEF Reading, ReaderTyped, ForwardState
  <2>3. s.offset \in cursor.offset..i
    BY <2>2
  <2> QED
    BY <1>1, <2>1, <2>3 DEF Reading
<1>2. CASE ~s.stopped /\ file[i] = "newline"
  BY <1>2, ReadEnd DEF Forwards
<1>3. CASE ~s.stopped /\ file[i] # "newline"
  BY <1>3, ReadByte
<1> QED
  BY <1>1, <1>2, <1>3

\* Where a page ends that goes on from the cursor.
LEMMA PageEnds ==
  ASSUME ReaderTyped, ReaderInv, cursor.current
  PROVE  /\ Continue \in ForwardState /\ Continue.offset \in cursor.offset..Len(file)
         /\ Shows(file, Continue.offset, shown \o Continue.rows.entries, base)
         /\ Counts(file, Continue.offset, skipped + Continue.rows.skipped, base)
         /\ Between(file, Continue.offset, Continue.discard)
         /\ Continue.limited => Continue.offset > cursor.offset
<1> DEFINE end == IF cursor.offset + MaxRead < Len(file) THEN cursor.offset + MaxRead
                                                         ELSE Len(file)
           start == [length |-> 0, offset |-> cursor.offset, discard |-> cursor.discard,
                     stopped |-> FALSE, limited |-> FALSE, rows |-> NoRows]
           Scans(f, n) == f = [k \in 0..n |-> IF k = 0 THEN start
                                              ELSE Forwards(f[k - 1], cursor.offset + k)]
           N == end - cursor.offset
           scan == CHOOSE f : Scans(f, N)
           read == scan[N]
<1>1. Continue = IF read.stopped THEN read ELSE [read EXCEPT !.limited = end < Len(file)]
  BY DEF Continue
<1>2. /\ cursor.offset \in Nat /\ cursor.offset <= Len(file) /\ Len(file) \in Nat
      /\ base \in Nat /\ base <= cursor.offset /\ MaxRead \in Nat /\ MaxRecord \in Nat
      /\ MaxRead > MaxRecord + 1 /\ file \in Seq(Byte)
      /\ shown \in Seq(Nat) /\ skipped \in Nat /\ cursor.discard \in BOOLEAN
  BY ReaderAssumption DEF ReaderTyped, ReaderInv
<1>3. /\ N \in Nat /\ cursor.offset + N = end /\ end <= Len(file)
      /\ end < Len(file) => end = cursor.offset + MaxRead
  BY <1>2
<1> HIDE DEF end, start
<1>4. \A n \in Nat : \E f : Scans(f, n)
  <2> DEFINE S == {n \in Nat : \E f : Scans(f, n)}
  <2>1. 0 \in S
    <3> DEFINE f == [k \in 0..0 |-> start]
    <3>1. Scans(f, 0)
      OBVIOUS
    <3> HIDE DEF f
    <3> QED
      BY <3>1
  <2>2. ASSUME NEW n \in Nat, n \in S PROVE n + 1 \in S
    <3>1. PICK f : Scans(f, n)
      BY <2>2
    <3> DEFINE g == [k \in 0..(n + 1) |-> IF k = n + 1
                       THEN Forwards(f[n], cursor.offset + (n + 1)) ELSE f[k]]
    <3>2. Scans(g, n + 1)
      BY <3>1
    <3> HIDE DEF g, Scans
    <3> QED
      BY <3>2
  <2> HIDE DEF S
  <2>3. Nat \subseteq S
    BY <2>1, <2>2, Induct
  <2> QED
    BY <2>3 DEF S
<1>5. Scans(scan, N)
  <2> HIDE DEF Scans, N
  <2> QED
    BY <1>3, <1>4
<1> HIDE DEF scan, N
<1>6. scan[0] = start /\ \A k \in 1..N : scan[k] = Forwards(scan[k - 1], cursor.offset + k)
  BY <1>3, <1>5
<1> HIDE DEF Scans
<1>7. Reading(start, cursor.offset)
  <2>1. start \in ForwardState /\ start.rows.entries = <<>> /\ start.rows.bytes = 0
        /\ start.rows.skipped = 0 /\ start.offset = cursor.offset
        /\ start.discard = cursor.discard /\ ~start.stopped /\ start.length = 0
    BY <1>2 DEF start, NoRows, ForwardState, Rows
  <2>2. shown \o <<>> = shown /\ skipped + 0 = skipped
    BY <1>2
  <2>3. /\ cursor.offset \in cursor.offset..cursor.offset /\ 0 <= MaxRecord
        /\ cursor.offset + 0 = cursor.offset
        /\ \A j \in (cursor.offset + 1)..cursor.offset : FALSE
    BY <1>2
  <2> QED
    BY <2>1, <2>2, <2>3 DEF Reading, ReaderInv
<1>8. \A k \in Nat : k <= N => Reading(scan[k], cursor.offset + k)
  <2> DEFINE S == {k \in Nat : k <= N => Reading(scan[k], cursor.offset + k)}
  <2>1. 0 \in S
    <3>1. cursor.offset + 0 = cursor.offset
      BY <1>2
    <3> QED
      BY <1>6, <1>7, <3>1
  <2>2. ASSUME NEW k \in Nat, k \in S PROVE k + 1 \in S
    <3> SUFFICES ASSUME k + 1 <= N PROVE Reading(scan[k + 1], cursor.offset + (k + 1))
      OBVIOUS
    <3>1. Reading(scan[k], cursor.offset + k)
      BY <1>3, <2>2
    <3>2. scan[k + 1] = Forwards(scan[k], cursor.offset + (k + 1))
      BY <1>3, <1>6
    <3>3. cursor.offset + (k + 1) \in 1..Len(file)
          /\ cursor.offset + k = cursor.offset + (k + 1) - 1
      BY <1>2, <1>3
    <3> QED
      BY <1>2, <3>1, <3>2, <3>3, ReadOne
  <2> HIDE DEF S
  <2>3. Nat \subseteq S
    BY <2>1, <2>2, Induct
  <2> QED
    BY <2>3 DEF S
<1>9. Reading(read, end)
  <2>1. Reading(scan[N], cursor.offset + N)
    BY <1>3, <1>8
  <2> QED
    BY <1>3, <2>1
<1> HIDE DEF read
<1>10. /\ read \in ForwardState /\ read.offset \in Nat /\ read.length \in Nat
       /\ read = [length |-> read.length, offset |-> read.offset, discard |-> read.discard,
                  stopped |-> read.stopped, limited |-> read.limited, rows |-> read.rows]
  BY <1>9 DEF Reading, ForwardState
<1>11. /\ Continue \in ForwardState /\ Continue.offset = read.offset
       /\ Continue.rows = read.rows /\ Continue.discard = read.discard
       /\ Continue.limited => read.stopped \/ end < Len(file)
  <2>1. CASE read.stopped
    BY <1>1, <1>10, <2>1
  <2>2. CASE ~read.stopped
    <3> DEFINE more == end < Len(file)
               last == [read EXCEPT !.limited = more]
    <3>1. more \in BOOLEAN
      OBVIOUS
    <3>2. Continue = last
      BY <1>1, <2>2
    <3>3. more => end < Len(file)
      OBVIOUS
    <3> HIDE DEF more
    <3>4. /\ last \in ForwardState /\ last.offset = read.offset /\ last.rows = read.rows
          /\ last.discard = read.discard /\ last.limited = more
      BY <1>10, <3>1 DEF ForwardState
    <3> HIDE DEF last
    <3> QED
      BY <3>2, <3>3, <3>4
  <2> QED
    BY <2>1, <2>2
<1>12. read.offset \in cursor.offset..Len(file)
  <2>1. read.offset \in cursor.offset..end /\ end \in Nat
    BY <1>2, <1>3, <1>9 DEF Reading
  <2> QED
    BY <1>2, <1>3, <1>10, <2>1
<1>13. read.stopped \/ end < Len(file) => read.offset > cursor.offset
  <2>1. CASE read.stopped
    BY <1>9, <2>1 DEF Reading
  <2>2. CASE ~read.stopped /\ end < Len(file)
    <3>1. end = cursor.offset + MaxRead
      BY <1>3, <2>2
    <3>2. IF read.discard THEN read.offset = end
                          ELSE read.length <= MaxRecord /\ read.offset + read.length = end
      BY <1>9, <2>2 DEF Reading
    <3> QED
      BY <1>2, <1>10, <3>1, <3>2
  <2> QED
    BY <2>1, <2>2
<1> QED
  BY <1>9, <1>11, <1>12, <1>13 DEF Reading

\* What is read of the lines from F on that end by the offset o, the last first.
Gathered(f, F, o, en) ==
  /\ en \in Seq(Nat) /\ \A i, j \in 1..Len(en) : i < j => en[i] > en[j]
  /\ \A j \in 1..Len(en) :
       en[j] - 1 \in Nat /\ en[j] - 1 >= F /\ \E e \in 1..o : Valued(f, en[j] - 1, e)
  /\ \A p \in Nat, e \in 1..o :
       Valued(f, p, e) /\ p >= F => \E j \in 1..Len(en) : en[j] = p + 1

\* One line more.
LEMMA GatherLine ==
  ASSUME file \in Seq(Byte), NEW p \in Nat, NEW F \in Nat, NEW o \in Nat, p < F, F <= o,
         Starts(file, p), Newline(file, F), \A i \in (p + 1)..(F - 1) : ~ Newline(file, i),
         NEW en, Gathered(file, F, o, en)
  PROVE  /\ Valued(file, p, F) => Gathered(file, p, o, Append(en, p + 1))
         /\ ~Valued(file, p, F) => Gathered(file, p, o, en)
<1>1. en \in Seq(Nat) /\ Len(en) \in Nat
  BY DEF Gathered
<1>2. ASSUME NEW q \in Nat, NEW e \in 1..o, Valued(file, q, e), q >= p
      PROVE  q >= F \/ (q = p /\ e = F)
  <2>1. q > p => q >= F
    <3>1. q > p => Newline(file, q)
      BY <1>2 DEF Valued, Line, Starts
    <3> QED
      BY <3>1
  <2>2. q = p => e = F
    <3>1. Newline(file, e) /\ q < e /\ \A i \in (q + 1)..(e - 1) : ~ Newline(file, i)
      BY <1>2 DEF Valued, Line
    <3>2. e \in Nat
      OBVIOUS
    <3> QED
      BY <3>1, <3>2
  <2> QED
    BY <1>2, <2>1, <2>2
<1>3. \A j \in 1..Len(en) : en[j] \in Nat /\ en[j] - 1 \in Nat /\ en[j] - 1 >= F
  BY <1>1 DEF Gathered
<1>4. CASE Valued(file, p, F)
  <2> DEFINE new == Append(en, p + 1)
  <2>1. /\ new \in Seq(Nat) /\ Len(new) = Len(en) + 1 /\ new[Len(en) + 1] = p + 1
        /\ \A j \in 1..Len(en) : new[j] = en[j]
    BY <1>1
  <2> HIDE DEF new
  <2>2. \A j \in 1..Len(new) : j \in 1..Len(en) \/ j = Len(en) + 1
    BY <1>1, <2>1
  <2>3. ASSUME NEW i \in 1..Len(new), NEW j \in 1..Len(new), i < j PROVE new[i] > new[j]
    <3>1. \A k, l \in 1..Len(en) : k < l => en[k] > en[l]
      BY DEF Gathered
    <3>2. i \in 1..Len(en)
      <4>1. \A n \in Nat : \A k \in 1..(n + 1), l \in 1..(n + 1) : k < l => k \in 1..n
        OBVIOUS
      <4>2. i \in 1..(Len(en) + 1) /\ j \in 1..(Len(en) + 1)
        BY <2>1, Zenon
      <4> QED
        BY <1>1, <2>3, <4>1, <4>2
    <3>3. CASE j \in 1..Len(en)
      BY <2>1, <2>3, <3>1, <3>2, <3>3
    <3>4. CASE j = Len(en) + 1
      <4>1. new[i] = en[i] /\ en[i] \in Nat /\ en[i] - 1 >= F /\ new[j] = p + 1
        BY <1>3, <2>1, <3>2, <3>4
      <4> QED
        BY <4>1
    <3> QED
      BY <2>2, <3>3, <3>4
  <2>4. ASSUME NEW j \in 1..Len(new)
        PROVE  /\ new[j] - 1 \in Nat /\ new[j] - 1 >= p
               /\ \E e \in 1..o : Valued(file, new[j] - 1, e)
    <3>1. CASE j \in 1..Len(en)
      <4>1. new[j] = en[j] /\ en[j] \in Nat /\ en[j] - 1 \in Nat /\ en[j] - 1 >= F
        BY <1>3, <2>1, <3>1
      <4>2. \E e \in 1..o : Valued(file, en[j] - 1, e)
        BY <3>1 DEF Gathered
      <4> QED
        BY <4>1, <4>2
    <3>2. CASE j = Len(en) + 1
      <4>1. new[j] - 1 = p /\ F \in 1..o
        BY <2>1, <3>2
      <4> QED
        BY <1>4, <4>1
    <3> QED
      BY <2>2, <3>1, <3>2
  <2>5. ASSUME NEW q \in Nat, NEW e \in 1..o, Valued(file, q, e), q >= p
        PROVE  \E j \in 1..Len(new) : new[j] = q + 1
    <3>1. CASE q >= F
      <4>1. PICK j \in 1..Len(en) : en[j] = q + 1
        BY <2>5, <3>1 DEF Gathered
      <4> QED
        BY <1>1, <2>1, <4>1
    <3>2. CASE q = p
      BY <1>1, <2>1, <3>2
    <3> QED
      BY <1>2, <2>5, <3>1, <3>2
  <2>6. Gathered(file, p, o, new)
    BY <2>1, <2>3, <2>4, <2>5 DEF Gathered
  <2> QED
    BY <1>4, <2>6 DEF new
<1>5. CASE ~Valued(file, p, F)
  <2>1. \A j \in 1..Len(en) : en[j] - 1 >= p
    <3>1. \A x \in Nat : x - 1 >= F => x - 1 >= p
      OBVIOUS
    <3> QED
      BY <1>3, <3>1
  <2>2. \A q \in Nat, e \in 1..o : Valued(file, q, e) /\ q >= p => q >= F
    BY <1>2, <1>5
  <2>3. Gathered(file, p, o, en)
    BY <2>1, <2>2 DEF Gathered
  <2> QED
    BY <1>5, <2>3
<1> QED
  BY <1>4, <1>5

\* What was read from the end is shown the other way round.
LEMMA GatheredShows ==
  ASSUME NEW f, NEW F \in Nat, NEW o \in Nat, NEW en, Gathered(f, F, o, en)
  PROVE  Shows(f, o, Reverse(en), o)
<1> DEFINE sh == Reverse(en)
<1>1. en \in Seq(Nat) /\ Len(en) \in Nat
  BY DEF Gathered
<1>2. /\ sh \in Seq(Nat) /\ Len(sh) = Len(en)
      /\ \A j \in 1..Len(en) : sh[j] = en[(Len(en) - j) + 1]
  BY <1>1 DEF Reverse
<1> HIDE DEF sh
<1>3. \A j \in 1..Len(en) : (Len(en) - j) + 1 \in 1..Len(en)
                            /\ (Len(en) - ((Len(en) - j) + 1)) + 1 = j
  BY <1>1
<1>4. Increasing(sh)
  <2> SUFFICES ASSUME NEW i \in 1..Len(en), NEW j \in 1..Len(en), i < j PROVE sh[i] < sh[j]
    BY <1>2 DEF Increasing
  <2>1. (Len(en) - j) + 1 < (Len(en) - i) + 1
    BY <1>1
  <2>2. en[(Len(en) - j) + 1] > en[(Len(en) - i) + 1]
    BY <1>3, <2>1 DEF Gathered
  <2>3. \A k \in 1..Len(en) : en[k] \in Nat
    BY <1>1
  <2> QED
    BY <1>2, <1>3, <2>2, <2>3
<1>5. \A j \in 1..Len(sh) :
        sh[j] - 1 \in Nat /\ sh[j] - 1 >= F /\ \E e \in 1..o : Valued(f, sh[j] - 1, e)
  BY <1>2, <1>3 DEF Gathered
<1>6. ASSUME NEW p \in Nat, NEW e \in 1..o, Valued(f, p, e), sh # <<>>, p + 1 > sh[1]
      PROVE  \E j \in 1..Len(sh) : sh[j] = p + 1
  <2>1. 1 \in 1..Len(sh) /\ sh[1] \in Nat
    BY <1>1, <1>2, <1>6
  <2>2. sh[1] - 1 >= F
    BY <1>5, <2>1
  <2>3. p >= F
    BY <1>6, <2>1, <2>2
  <2>4. PICK j \in 1..Len(en) : en[j] = p + 1
    BY <1>6, <2>3 DEF Gathered
  <2>5. sh[(Len(en) - j) + 1] = p + 1
    BY <1>2, <1>3, <2>4
  <2> QED
    BY <1>2, <1>3, <2>5
<1>7. \A e \in 1..o : ~(e > o)
  OBVIOUS
<1> QED
  BY <1>2, <1>4, <1>5, <1>6, <1>7 DEF Shows, sh

\* Where reading from the end is, before the byte p + 1; F is where the line that is read
\* begins to be known.
Gathering(s, p) ==
  /\ s \in BackwardState /\ s.offset <= Len(file)
  /\ s.final =>
       /\ ~s.stopped /\ ~s.discard /\ s.length = Len(file) - p /\ s.offset = Len(file)
       /\ s.rows.entries = <<>> /\ \A i \in (p + 1)..Len(file) : ~ Newline(file, i)
  /\ ~s.final =>
       /\ Between(file, s.offset, s.discard)
       /\ \E F \in 0..s.offset :
            /\ Gathered(file, F, s.offset, s.rows.entries)
            /\ ~s.stopped => /\ Newline(file, F) /\ F = p + s.length + 1
                             /\ \A i \in (p + 1)..(F - 1) : ~ Newline(file, i)

\* No line is complete after the last newline.
LEMMA GatheredNone ==
  ASSUME NEW m \in Nat, NEW o \in Nat, \A i \in (m + 1)..o : ~ Newline(file, i)
  PROVE  Gathered(file, m, o, <<>>)
<1>1. \A p \in Nat, e \in 1..o : Valued(file, p, e) => ~(p >= m)
  BY DEF Valued, Line
<1> QED
  BY <1>1 DEF Gathered

\* The fields of a state of reading backwards.
LEMMA BackState ==
  ASSUME NEW s \in BackwardState
  PROVE  /\ s.length \in Nat /\ s.offset \in Nat /\ s.rows \in Rows
         /\ s.rows.entries \in Seq(Nat)
         /\ s.final \in BOOLEAN /\ s.discard \in BOOLEAN /\ s.stopped \in BOOLEAN
         /\ s = [length |-> s.length, final |-> s.final, offset |-> s.offset,
                 discard |-> s.discard, stopped |-> s.stopped, rows |-> s.rows]
BY DEF BackwardState, Rows

\* A byte of a line is read.
LEMMA BackByte ==
  ASSUME ReaderTyped, NEW s, NEW i \in 1..Len(file), Gathering(s, i), ~s.stopped,
         file[i] # "newline"
  PROVE  Gathering(Backwards(s, i), i - 1)
<1> DEFINE t == [s EXCEPT !.length = @ + 1]
<1>1. Backwards(s, i) = t
  BY DEF Backwards
<1>2. s \in BackwardState
  BY DEF Gathering
<1>3. /\ t \in BackwardState /\ t.length = s.length + 1 /\ t.offset = s.offset
      /\ t.rows = s.rows /\ t.discard = s.discard /\ t.final = s.final /\ t.stopped = s.stopped
  BY <1>2, BackState DEF BackwardState
<1>4. i \in Nat /\ Len(file) \in Nat /\ ~ Newline(file, i) /\ s.length \in Nat
  BY <1>2, BackState DEF ReaderTyped, Newline
<1> HIDE DEF t
<1>5. CASE s.final
  <2>1. s.length + 1 = Len(file) - (i - 1)
    BY <1>4, <1>5 DEF Gathering
  <2>2. \A j \in (i - 1 + 1)..Len(file) : ~ Newline(file, j)
    <3>1. \A j \in (i - 1 + 1)..Len(file) : j = i \/ j \in (i + 1)..Len(file)
      BY <1>4
    <3> QED
      BY <1>4, <1>5, <3>1 DEF Gathering
  <2> QED
    BY <1>1, <1>3, <1>5, <2>1, <2>2 DEF Gathering
<1>6. CASE ~s.final
  <2>1. PICK F \in 0..s.offset :
          /\ Gathered(file, F, s.offset, s.rows.entries)
          /\ Newline(file, F) /\ F = i + s.length + 1
          /\ \A j \in (i + 1)..(F - 1) : ~ Newline(file, j)
    BY <1>6 DEF Gathering
  <2>2. F = i - 1 + (s.length + 1) + 1
    BY <1>4, <2>1
  <2>3. \A j \in (i - 1 + 1)..(F - 1) : ~ Newline(file, j)
    <3>1. \A j \in (i - 1 + 1)..(F - 1) : j = i \/ j \in (i + 1)..(F - 1)
      BY <1>4, <2>1
    <3> QED
      BY <1>4, <2>1, <3>1
  <2>4. s.offset <= Len(file) /\ Between(file, s.offset, s.discard)
    BY <1>6 DEF Gathering
  <2> QED
    BY <1>1, <1>3, <1>6, <2>1, <2>2, <2>3, <2>4 DEF Gathering
<1> QED
  BY <1>5, <1>6

\* The newline is read after which what is not complete begins.
LEMMA BackLast ==
  ASSUME ReaderTyped, NEW s, NEW i \in 1..Len(file), Gathering(s, i), ~s.stopped,
         file[i] = "newline", s.final
  PROVE  Gathering(Backwards(s, i), i - 1)
<1> DEFINE long == s.length > MaxRecord
           o == IF long THEN Len(file) ELSE i
           t == [s EXCEPT !.final = FALSE, !.length = 0, !.discard = long, !.offset = o]
<1>1. Backwards(s, i) = t
  BY DEF Backwards
<1>2. s \in BackwardState
  BY DEF Gathering
<1>3. /\ i \in Nat /\ Len(file) \in Nat /\ Newline(file, i) /\ s.length \in Nat
      /\ MaxRecord \in Nat /\ i <= Len(file)
  BY <1>2, BackState, ReaderAssumption DEF ReaderTyped, Newline
<1>4. /\ s.length = Len(file) - i /\ s.rows.entries = <<>>
      /\ \A j \in (i + 1)..Len(file) : ~ Newline(file, j)
  BY DEF Gathering
<1>5. long \in BOOLEAN /\ o \in Nat /\ o <= Len(file) /\ i <= o /\ i \in 0..o
  BY <1>3
<1>6. \A j \in (i + 1)..o : ~ Newline(file, j)
  BY <1>3, <1>4
<1>7. Between(file, o, long)
  <2>1. IF long THEN o - i > MaxRecord ELSE o = i
    BY <1>3, <1>4
  <2> HIDE DEF long, o
  <2> QED
    BY <1>3, <1>5, <1>6, <2>1 DEF Between, Starts
<1> HIDE DEF long, o
<1>8. /\ t \in BackwardState /\ t.length = 0 /\ t.offset = o
      /\ t.rows = s.rows /\ t.discard = long /\ t.final = FALSE /\ t.stopped = s.stopped
  BY <1>2, <1>5, BackState DEF BackwardState
<1> HIDE DEF t
<1>9. Gathered(file, i, o, <<>>)
  BY <1>3, <1>5, <1>6, GatheredNone
<1>10. i = i - 1 + 0 + 1 /\ \A j \in (i - 1 + 1)..(i - 1) : FALSE
  BY <1>3
<1> QED
  BY <1>1, <1>3, <1>4, <1>5, <1>7, <1>8, <1>9, <1>10 DEF Gathering

\* The newline is read after which a complete line begins.
LEMMA BackLine ==
  ASSUME ReaderTyped, NEW s, NEW i \in 1..Len(file), Gathering(s, i), ~s.stopped,
         file[i] = "newline", ~s.final
  PROVE  Gathering(Backwards(s, i), i - 1)
<1>1. s \in BackwardState
  BY DEF Gathering
<1>2. PICK F \in 0..s.offset :
        /\ Gathered(file, F, s.offset, s.rows.entries)
        /\ Newline(file, F) /\ F = i + s.length + 1
        /\ \A j \in (i + 1)..(F - 1) : ~ Newline(file, j)
  BY DEF Gathering
<1>3. /\ i \in Nat /\ Len(file) \in Nat /\ Newline(file, i) /\ s.length \in Nat
      /\ s.offset \in Nat /\ file \in Seq(Byte)
  BY <1>1, BackState DEF ReaderTyped, Newline
<1>4. /\ s.offset <= Len(file) /\ Between(file, s.offset, s.discard)
  BY DEF Gathering
<1>5. /\ F \in Nat /\ i < F /\ F <= s.offset /\ s.length = F - i - 1 /\ i \in 0..s.offset
  BY <1>2, <1>3
<1>6. CASE MustWait(s.rows, i + 1, s.length)
  <2> DEFINE t == [s EXCEPT !.stopped = TRUE]
  <2>1. Backwards(s, i) = t
    BY <1>6 DEF Backwards
  <2>2. /\ t \in BackwardState /\ t.offset = s.offset /\ t.rows = s.rows
        /\ t.discard = s.discard /\ t.final = s.final /\ t.stopped
    BY <1>1, BackState DEF BackwardState
  <2> HIDE DEF t
  <2> QED
    BY <1>2, <1>4, <2>1, <2>2 DEF Gathering
<1>7. CASE ~MustWait(s.rows, i + 1, s.length)
  <2> DEFINE rows == Retain(s.rows, i + 1, s.length)
             stop == Len(rows.entries) = Limit
             t == [s EXCEPT !.rows = rows, !.length = 0, !.stopped = stop]
  <2>1. Backwards(s, i) = t
    BY <1>7 DEF Backwards
  <2>2. stop \in BOOLEAN
    OBVIOUS
  <2>3. Valid(i + 1, s.length) <=> Valued(file, i, F)
    <3>1. Valid(i + 1, F - i - 1) <=> Valued(file, i, F)
      BY <1>2, <1>3, <1>5, LineIs DEF Starts
    <3> QED
      BY <1>5, <3>1
  <2>7. s.rows \in Rows /\ i + 1 \in Nat /\ s.length \in Nat
    BY <1>1, <1>3, BackState
  <2>8. /\ rows \in Rows
        /\ Valid(i + 1, s.length) => rows.entries = Append(s.rows.entries, i + 1)
        /\ ~Valid(i + 1, s.length) => rows.entries = s.rows.entries
    BY <2>7, Retained
  <2> HIDE DEF rows
  <2>4. Gathered(file, i, s.offset, rows.entries)
    <3>1. CASE Valued(file, i, F)
      <4>1. rows.entries = Append(s.rows.entries, i + 1)
        BY <2>3, <2>8, <3>1
      <4> QED
        BY <1>2, <1>3, <1>5, <3>1, <4>1, GatherLine DEF Starts
    <3>2. CASE ~Valued(file, i, F)
      <4>1. rows.entries = s.rows.entries
        BY <2>3, <2>8, <3>2
      <4> QED
        BY <1>2, <1>3, <1>5, <3>2, <4>1, GatherLine DEF Starts
    <3> QED
      BY <3>1, <3>2
  <2> HIDE DEF stop
  <2>5. /\ t \in BackwardState /\ t.length = 0 /\ t.offset = s.offset /\ t.rows = rows
        /\ t.discard = s.discard /\ t.final = s.final
    BY <1>1, <2>2, <2>8, BackState DEF BackwardState
  <2> HIDE DEF t
  <2>6. i = i - 1 + 0 + 1 /\ \A j \in (i - 1 + 1)..(i - 1) : FALSE
    BY <1>3
  <2> QED
    BY <1>3, <1>4, <1>5, <2>1, <2>4, <2>5, <2>6 DEF Gathering
<1> QED
  BY <1>6, <1>7

\* One byte is read, backwards.
LEMMA BackOne ==
  ASSUME ReaderTyped, NEW s, NEW i \in 1..Len(file), Gathering(s, i)
  PROVE  Gathering(Backwards(s, i), i - 1)
<1>1. CASE s.stopped
  <2>1. Backwards(s, i) = s
    BY <1>1 DEF Backwards
  <2> QED
    BY <1>1, <2>1 DEF Gathering
<1>2. CASE ~s.stopped
  BY <1>2, BackByte, BackLast, BackLine
<1> QED
  BY <1>1, <1>2

\* There is a last place where a line starts.
LEMMA LastStart ==
  ASSUME NEW f, NEW o \in Nat
  PROVE  \E m \in 0..o : Starts(f, m) /\ \A i \in (m + 1)..o : ~ Newline(f, i)
<1> DEFINE S == {n \in Nat : \E m \in 0..n : /\ Starts(f, m)
                                             /\ \A i \in (m + 1)..n : ~ Newline(f, i)}
<1>1. 0 \in S
  BY DEF Starts
<1>2. ASSUME NEW n \in Nat, n \in S PROVE n + 1 \in S
  <2>1. CASE Newline(f, n + 1)
    <3>1. n + 1 \in 0..(n + 1) /\ \A i \in (n + 1 + 1)..(n + 1) : FALSE
      OBVIOUS
    <3> QED
      BY <2>1, <3>1 DEF Starts
  <2>2. CASE ~ Newline(f, n + 1)
    <3>1. PICK m \in 0..n : Starts(f, m) /\ \A i \in (m + 1)..n : ~ Newline(f, i)
      BY <1>2
    <3>2. \A i \in (m + 1)..(n + 1) : i = n + 1 \/ i \in (m + 1)..n
      OBVIOUS
    <3>3. m \in 0..(n + 1)
      OBVIOUS
    <3> QED
      BY <2>2, <3>1, <3>2, <3>3
  <2> QED
    BY <2>1, <2>2
<1> HIDE DEF S
<1>3. Nat \subseteq S
  BY <1>1, <1>2, Induct
<1> QED
  BY <1>3 DEF S

\* What a tail tells, once it is read.
Gotten(s) ==
  /\ s \in BackwardState /\ s.offset <= Len(file) /\ Between(file, s.offset, s.discard)
  /\ \E F \in Nat : Gathered(file, F, s.offset, s.rows.entries)

\* The first line of the file.
LEMMA FirstIs ==
  ASSUME ReaderTyped, NEW s, Gathering(s, 0), ~s.stopped
  PROVE  Gotten(FirstLine(s))
<1>1. s \in BackwardState
  BY DEF Gathering
<1>2. /\ Len(file) \in Nat /\ s.length \in Nat /\ s.offset \in Nat /\ file \in Seq(Byte)
      /\ MaxRecord \in Nat /\ Starts(file, 0)
  BY <1>1, BackState, ReaderAssumption DEF ReaderTyped, Starts
<1>3. CASE s.final
  <2> DEFINE long == s.length > MaxRecord
             o == IF long THEN Len(file) ELSE 0
             t == [s EXCEPT !.discard = long, !.offset = o]
  <2>1. FirstLine(s) = t
    BY <1>3 DEF FirstLine
  <2>2. /\ s.length = Len(file) /\ s.rows.entries = <<>>
        /\ \A j \in 1..Len(file) : ~ Newline(file, j)
    BY <1>2, <1>3 DEF Gathering
  <2>3. long \in BOOLEAN /\ o \in Nat /\ o <= Len(file)
    BY <1>2
  <2>4. \A j \in (0 + 1)..o : ~ Newline(file, j)
    BY <1>2, <2>2
  <2>5. Between(file, o, long)
    <3>1. IF long THEN o - 0 > MaxRecord ELSE o = 0
      BY <1>2, <2>2
    <3> HIDE DEF long, o
    <3> QED
      BY <1>2, <2>3, <2>4, <3>1 DEF Between
  <2> HIDE DEF long, o
  <2>6. Gathered(file, 0, o, <<>>)
    BY <2>3, <2>4, GatheredNone
  <2>7. t \in BackwardState /\ t.offset = o /\ t.discard = long /\ t.rows = s.rows
    BY <1>1, <2>3, BackState DEF BackwardState
  <2> HIDE DEF t
  <2> QED
    BY <2>1, <2>2, <2>3, <2>5, <2>6, <2>7 DEF Gotten
<1>4. CASE ~s.final
  <2>1. PICK F \in 0..s.offset :
          /\ Gathered(file, F, s.offset, s.rows.entries)
          /\ Newline(file, F) /\ F = 0 + s.length + 1
          /\ \A j \in (0 + 1)..(F - 1) : ~ Newline(file, j)
    BY <1>4 DEF Gathering
  <2>2. s.offset <= Len(file) /\ Between(file, s.offset, s.discard) /\ F \in Nat
    BY <1>4 DEF Gathering
  <2>3. CASE MustWait(s.rows, 1, s.length)
    <3>1. FirstLine(s) = s
      BY <1>4, <2>3 DEF FirstLine
    <3> QED
      BY <1>1, <2>1, <2>2, <3>1 DEF Gotten
  <2>4. CASE ~MustWait(s.rows, 1, s.length)
    <3> DEFINE rows == Retain(s.rows, 1, s.length)
               t == [s EXCEPT !.rows = rows]
    <3>1. FirstLine(s) = t
      BY <1>4, <2>4 DEF FirstLine
    <3>2. s.rows \in Rows /\ 0 + 1 = 1 /\ 1 \in Nat
      BY <1>1, BackState
    <3>3. /\ rows \in Rows
          /\ Valid(1, s.length) => rows.entries = Append(s.rows.entries, 0 + 1)
          /\ ~Valid(1, s.length) => rows.entries = s.rows.entries
      <4>1. s.rows \in Rows /\ 1 \in Nat /\ s.length \in Nat
        BY <1>2, <3>2
      <4>2. /\ rows \in Rows
            /\ Valid(1, s.length) => rows.entries = Append(s.rows.entries, 1)
            /\ ~Valid(1, s.length) => rows.entries = s.rows.entries
        BY <4>1, Retained
      <4> HIDE DEF rows
      <4> QED
        BY <3>2, <4>2
    <3> HIDE DEF rows
    <3>4. /\ F \in Nat /\ 0 < F /\ F <= s.offset /\ F - 0 - 1 = s.length
      BY <1>2, <2>1
    <3>5. Valid(1, s.length) <=> Valued(file, 0, F)
      <4>1. Valid(0 + 1, F - 0 - 1) <=> Valued(file, 0, F)
        BY <1>2, <2>1, <3>4, LineIs
      <4> QED
        BY <3>2, <3>4, <4>1
    <3>6. Gathered(file, 0, s.offset, rows.entries)
      <4>1. /\ Valued(file, 0, F)
                 => Gathered(file, 0, s.offset, Append(s.rows.entries, 0 + 1))
            /\ ~Valued(file, 0, F) => Gathered(file, 0, s.offset, s.rows.entries)
        BY <1>2, <2>1, <3>4, GatherLine
      <4> QED
        BY <3>3, <3>5, <4>1
    <3>7. t \in BackwardState /\ t.offset = s.offset /\ t.discard = s.discard /\ t.rows = rows
      BY <1>1, <3>3, BackState DEF BackwardState
    <3> HIDE DEF t
    <3> QED
      BY <2>2, <3>1, <3>6, <3>7 DEF Gotten
  <2> QED
    BY <2>3, <2>4
<1> QED
  BY <1>3, <1>4

\* The tail of the file.
LEMMA TailIs == ASSUME ReaderTyped PROVE Gotten(TailPage)
<1> DEFINE unread == IF Len(file) > MaxRead THEN Len(file) - MaxRead ELSE 0
           start == [length |-> 0, final |-> TRUE, offset |-> Len(file), discard |-> FALSE,
                     stopped |-> FALSE, rows |-> NoRows]
           Scans(f, n) == f = [k \in 0..n |-> IF k = 0 THEN start
                                              ELSE Backwards(f[k - 1], Len(file) + 1 - k)]
           N == Len(file) - unread
           scan == CHOOSE f : Scans(f, N)
           read == scan[N]
<1>1. TailPage = CASE read.stopped -> read
                   [] ~read.stopped /\ unread = 0 -> FirstLine(read)
                   [] ~read.stopped /\ unread > 0 /\ read.final -> [read EXCEPT !.discard = TRUE]
                   [] OTHER -> read
  BY DEF TailPage
<1>2. /\ Len(file) \in Nat /\ MaxRead \in Nat /\ MaxRecord \in Nat /\ MaxRead > MaxRecord + 1
  BY ReaderAssumption DEF ReaderTyped
<1>3. /\ N \in Nat /\ unread \in Nat /\ Len(file) - N = unread
      /\ unread > 0 => Len(file) - unread > MaxRecord
  BY <1>2
<1> HIDE DEF unread, start
<1>4. \A n \in Nat : \E f : Scans(f, n)
  <2> DEFINE S == {n \in Nat : \E f : Scans(f, n)}
  <2>1. 0 \in S
    <3> DEFINE f == [k \in 0..0 |-> start]
    <3>1. Scans(f, 0)
      OBVIOUS
    <3> HIDE DEF f
    <3> QED
      BY <3>1
  <2>2. ASSUME NEW n \in Nat, n \in S PROVE n + 1 \in S
    <3>1. PICK f : Scans(f, n)
      BY <2>2
    <3> DEFINE g == [k \in 0..(n + 1) |-> IF k = n + 1
                       THEN Backwards(f[n], Len(file) + 1 - (n + 1)) ELSE f[k]]
    <3>2. Scans(g, n + 1)
      BY <3>1
    <3> HIDE DEF g, Scans
    <3> QED
      BY <3>2
  <2> HIDE DEF S
  <2>3. Nat \subseteq S
    BY <2>1, <2>2, Induct
  <2> QED
    BY <2>3 DEF S
<1>5. Scans(scan, N)
  <2> HIDE DEF Scans, N
  <2> QED
    BY <1>3, <1>4
<1> HIDE DEF scan, N
<1>6. scan[0] = start /\ \A k \in 1..N : scan[k] = Backwards(scan[k - 1], Len(file) + 1 - k)
  BY <1>3, <1>5
<1> HIDE DEF Scans
<1>7. Gathering(start, Len(file))
  <2>1. /\ start \in BackwardState /\ start.rows.entries = <<>> /\ start.final
        /\ start.offset = Len(file) /\ ~start.discard /\ ~start.stopped /\ start.length = 0
    BY <1>2 DEF start, NoRows, BackwardState, Rows
  <2>2. 0 = Len(file) - Len(file) /\ \A j \in (Len(file) + 1)..Len(file) : FALSE
    BY <1>2
  <2> QED
    BY <1>2, <2>1, <2>2 DEF Gathering
<1>8. \A k \in Nat : k <= N => Gathering(scan[k], Len(file) - k)
  <2> DEFINE S == {k \in Nat : k <= N => Gathering(scan[k], Len(file) - k)}
  <2>1. 0 \in S
    <3>1. Len(file) - 0 = Len(file)
      BY <1>2
    <3> QED
      BY <1>6, <1>7, <3>1
  <2>2. ASSUME NEW k \in Nat, k \in S PROVE k + 1 \in S
    <3> SUFFICES ASSUME k + 1 <= N PROVE Gathering(scan[k + 1], Len(file) - (k + 1))
      OBVIOUS
    <3>1. Gathering(scan[k], Len(file) - k)
      BY <1>3, <2>2
    <3>2. scan[k + 1] = Backwards(scan[k], Len(file) - k)
      <4>1. Len(file) + 1 - (k + 1) = Len(file) - k /\ k + 1 \in 1..N /\ k + 1 - 1 = k
        BY <1>2, <1>3
      <4> QED
        BY <1>6, <4>1
    <3>3. Len(file) - k \in 1..Len(file) /\ Len(file) - (k + 1) = Len(file) - k - 1
      BY <1>2, <1>3
    <3> QED
      BY <3>1, <3>2, <3>3, BackOne
  <2> HIDE DEF S
  <2>3. Nat \subseteq S
    BY <2>1, <2>2, Induct
  <2> QED
    BY <2>3 DEF S
<1>9. Gathering(read, unread)
  <2>1. Gathering(scan[N], Len(file) - N)
    BY <1>3, <1>8
  <2> QED
    BY <1>3, <2>1
<1> HIDE DEF read
<1>10. read \in BackwardState
  BY <1>9 DEF Gathering
<1>11. ~read.final => Gotten(read)
  BY <1>9 DEF Gathering, Gotten
<1>12. CASE read.stopped
  BY <1>1, <1>9, <1>11, <1>12 DEF Gathering
<1>13. CASE ~read.stopped /\ unread = 0
  <2>1. TailPage = FirstLine(read)
    BY <1>1, <1>13
  <2> QED
    BY <1>9, <1>13, <2>1, FirstIs
<1>14. CASE ~read.stopped /\ unread > 0 /\ ~read.final
  BY <1>1, <1>11, <1>14
<1>15. CASE ~read.stopped /\ unread > 0 /\ read.final
  <2> DEFINE t == [read EXCEPT !.discard = TRUE]
  <2>1. TailPage = t
    BY <1>1, <1>15
  <2>2. /\ t \in BackwardState /\ t.offset = read.offset /\ t.discard = TRUE
        /\ t.rows = read.rows
    BY <1>10, BackState DEF BackwardState
  <2> HIDE DEF t
  <2>3. /\ read.offset = Len(file) /\ read.rows.entries = <<>>
        /\ \A j \in (unread + 1)..Len(file) : ~ Newline(file, j)
    BY <1>9, <1>15 DEF Gathering
  <2>4. PICK m \in 0..unread : Starts(file, m) /\ \A j \in (m + 1)..unread : ~ Newline(file, j)
    BY <1>3, LastStart
  <2>5. m \in 0..Len(file) /\ Len(file) - m > MaxRecord
    BY <1>2, <1>3, <1>15
  <2>6. \A j \in (m + 1)..Len(file) : ~ Newline(file, j)
    <3>1. \A j \in (m + 1)..Len(file) : j \in (m + 1)..unread \/ j \in (unread + 1)..Len(file)
      BY <1>2, <1>3
    <3> QED
      BY <2>3, <2>4, <3>1
  <2>7. Between(file, Len(file), TRUE)
    BY <2>4, <2>5, <2>6 DEF Between
  <2>8. Gathered(file, m, Len(file), <<>>)
    BY <1>2, <2>5, <2>6, GatheredNone
  <2>9. m \in Nat /\ Len(file) <= Len(file)
    BY <1>2, <2>5
  <2> QED
    BY <2>1, <2>2, <2>3, <2>7, <2>8, <2>9 DEF Gotten
<1> QED
  BY <1>3, <1>12, <1>13, <1>14, <1>15

\* What is appended changes nothing before it.
LEMMA WrittenOn ==
  ASSUME file \in Seq(Byte), NEW byte \in Byte, NEW g, g = Append(file, byte),
         NEW o \in Nat, o <= Len(file), NEW b \in Nat, NEW d, NEW sh, NEW sk,
         Shows(file, o, sh, b), Counts(file, o, sk, b), Between(file, o, d)
  PROVE  Shows(g, o, sh, b) /\ Counts(g, o, sk, b) /\ Between(g, o, d)
<1>1. /\ Len(file) \in Nat /\ Len(g) = Len(file) + 1
      /\ \A i \in 1..Len(file) : g[i] = file[i]
  OBVIOUS
<1>2. \A i \in Nat : i <= Len(file) => (Newline(g, i) <=> Newline(file, i))
  BY <1>1 DEF Newline
<1>3. \A p \in Nat : p <= Len(file) => (Starts(g, p) <=> Starts(file, p))
  BY <1>2 DEF Starts
<1>4. ASSUME NEW p \in Nat, NEW e \in Nat, e <= Len(file) PROVE Line(g, p, e) <=> Line(file, p, e)
  <2>1. p < e => \A i \in (p + 1)..(e - 1) : i \in Nat /\ i <= Len(file)
    BY <1>1, <1>4
  <2>2. p \in 0..(e - 1) <=> p < e
    OBVIOUS
  <2>3. p < e => (Starts(g, p) <=> Starts(file, p))
    BY <1>1, <1>3, <1>4
  <2>4. Newline(g, e) <=> Newline(file, e)
    BY <1>2, <1>4
  <2>5. p < e => \A i \in (p + 1)..(e - 1) : Newline(g, i) <=> Newline(file, i)
    BY <1>2, <2>1
  <2> QED
    BY <2>2, <2>3, <2>4, <2>5 DEF Line
<1>5. ASSUME NEW p \in Nat, NEW e \in Nat, e <= Len(file)
      PROVE  Valued(g, p, e) <=> Valued(file, p, e)
  <2>1. p < e => \A i \in (p + 1)..(e - 1) : g[i] = file[i]
    BY <1>1, <1>5
  <2>2. Line(file, p, e) => p < e
    BY DEF Line
  <2> QED
    BY <1>4, <1>5, <2>1, <2>2 DEF Valued
<1>6. \A e \in 1..o : e \in Nat /\ e <= Len(file)
  BY <1>1
<1>7. Shows(g, o, sh, b)
  BY <1>5, <1>6 DEF Shows
<1>8. Lost(g, b, o) = Lost(file, b, o)
  <2>1. \A e \in (b + 1)..o : e \in Nat /\ e <= Len(file)
    BY <1>1
  <2> QED
    BY <1>2, <1>5, <2>1 DEF Lost
<1>9. Between(g, o, d)
  <2>1. PICK m \in 0..o : /\ Starts(file, m) /\ \A i \in (m + 1)..o : ~ Newline(file, i)
                          /\ IF d THEN o - m > MaxRecord ELSE o = m
    BY DEF Between
  <2>2. \A i \in (m + 1)..o : i \in Nat /\ i <= Len(file)
    BY <1>1, <2>1
  <2>3. m \in Nat /\ m <= Len(file)
    BY <1>1, <2>1
  <2>4. Starts(g, m) /\ \A i \in (m + 1)..o : ~ Newline(g, i)
    BY <1>2, <1>3, <2>1, <2>2, <2>3
  <2> QED
    BY <2>1, <2>4 DEF Between
<1> QED
  BY <1>7, <1>8, <1>9 DEF Counts

\* Without a cursor nothing is said.
LEMMA NothingRead ==
  ASSUME file' \in Seq(Byte), cursor' = NoCursor, shown' = <<>>, skipped' = 0, base' = 0
  PROVE  (ReaderTyped /\ ReaderInv)'
<1>1. /\ cursor'.current = FALSE
      /\ cursor' \in [current : BOOLEAN, from : Nat, offset : Nat, discard : BOOLEAN,
                      hasMore : BOOLEAN]
  BY DEF NoCursor
<1> QED
  BY <1>1 DEF ReaderTyped, ReaderInv

\* At first there is no cursor.
LEMMA InitReader == ReaderInit => ReaderTyped /\ ReaderInv
BY DEF ReaderInit, ReaderTyped, ReaderInv, NoCursor

\* The tail begins what is shown anew.
LEMMA TailStep ==
  ASSUME ReaderTyped, ReadTail
  PROVE  (ReaderTyped /\ ReaderInv)'
<1>1. Gotten(TailPage)
  BY TailIs
<1> DEFINE o == TailPage.offset
           d == TailPage.discard
           sh == Reverse(TailPage.rows.entries)
<1>2. o \in Nat /\ d \in BOOLEAN /\ o <= Len(file) /\ Between(file, o, d)
  BY <1>1, BackState DEF Gotten
<1>3. Shows(file, o, sh, o) /\ sh \in Seq(Nat)
  <2>1. Shows(file, o, sh, o)
    BY <1>1, <1>2, GatheredShows DEF Gotten
  <2> QED
    BY <2>1 DEF Shows
<1>4. Counts(file, o, 0, o)
  <2>1. Lost(file, o, o) = {}
    BY <1>2 DEF Lost
  <2> QED
    BY <2>1, FS_EmptySet DEF Counts
<1>5. /\ cursor' = [current |-> TRUE, from |-> 0, offset |-> o, discard |-> d,
                    hasMore |-> FALSE]
      /\ shown' = sh /\ skipped' = 0 /\ base' = o /\ file' = file
  BY DEF ReadTail
<1> HIDE DEF o, d, sh
<1>6. /\ cursor'.offset = o /\ cursor'.discard = d /\ cursor'.hasMore = FALSE
      /\ cursor' \in [current : BOOLEAN, from : Nat, offset : Nat, discard : BOOLEAN,
                      hasMore : BOOLEAN]
  BY <1>2, <1>5
<1>7. ReaderTyped'
  BY <1>2, <1>3, <1>5, <1>6 DEF ReaderTyped
<1>8. o \in 0..o
  BY <1>2
<1>9. ReaderInv'
  BY <1>2, <1>3, <1>4, <1>5, <1>6, <1>8 DEF ReaderInv
<1> QED
  BY <1>7, <1>9

\* A page adds to what is shown.
LEMMA PageStep ==
  ASSUME ReaderTyped, ReaderInv, ReadOn
  PROVE  (ReaderTyped /\ ReaderInv)'
<1> DEFINE o == Continue.offset
           d == Continue.discard
           sh == shown \o Continue.rows.entries
           sk == skipped + Continue.rows.skipped
           more == Continue.limited /\ o < Len(file)
<1>1. /\ Continue \in ForwardState /\ o \in cursor.offset..Len(file)
      /\ Shows(file, o, sh, base) /\ Counts(file, o, sk, base) /\ Between(file, o, d)
      /\ Continue.limited => o > cursor.offset
  BY PageEnds DEF ReadOn
<1>2. /\ o \in Nat /\ d \in BOOLEAN /\ Continue.rows.skipped \in Nat
      /\ sk \in Nat /\ more \in BOOLEAN /\ cursor.offset \in Nat
  BY <1>1 DEF ForwardState, Rows, ReaderTyped
<1>3. sh \in Seq(Nat)
  BY <1>1 DEF Shows
<1>4. /\ cursor' = [current |-> TRUE, from |-> cursor.offset, offset |-> o, discard |-> d,
                    hasMore |-> more]
      /\ shown' = sh /\ skipped' = sk /\ base' = base /\ file' = file /\ cursor.current
  BY DEF ReadOn
<1>5. more => o > cursor.offset
  BY <1>1
<1> HIDE DEF o, d, sh, sk, more
<1>6. /\ cursor'.offset = o /\ cursor'.discard = d /\ cursor'.hasMore = more
      /\ cursor'.from = cursor.offset
      /\ cursor' \in [current : BOOLEAN, from : Nat, offset : Nat, discard : BOOLEAN,
                      hasMore : BOOLEAN]
  BY <1>2, <1>4
<1>7. ReaderTyped'
  BY <1>2, <1>3, <1>4, <1>6 DEF ReaderTyped
<1>8. base \in 0..o /\ o <= Len(file)
  BY <1>1, <1>2, <1>4 DEF ReaderTyped, ReaderInv
<1>9. ReaderInv'
  BY <1>1, <1>4, <1>5, <1>6, <1>8 DEF ReaderInv
<1> QED
  BY <1>7, <1>9

\* Nothing else moves the cursor, but to none.
LEMMA ReaderStep ==
  ReaderTyped /\ ReaderInv /\ [ReaderNext]_readerVars => (ReaderTyped /\ ReaderInv)'
<1> SUFFICES ASSUME ReaderTyped, ReaderInv, [ReaderNext]_readerVars
             PROVE  (ReaderTyped /\ ReaderInv)'
  OBVIOUS
<1>1. CASE ReadOn
  BY <1>1, PageStep
<1>2. CASE ReadTail
  BY <1>2, TailStep
<1>3. CASE ReadNothing
  BY <1>3, NothingRead DEF ReadNothing, ReaderTyped
<1>4. CASE Rotate
  <2>1. file' \in Seq(Byte)
    BY <1>4 DEF Rotate
  <2> QED
    BY <1>4, <2>1, NothingRead DEF Rotate
<1>5. CASE Write
  <2>1. PICK byte \in Byte : file' = Append(file, byte)
    BY <1>5 DEF Write
  <2>2. UNCHANGED <<cursor, shown, skipped, base>>
    BY <1>5 DEF Write
  <2>3. file' \in Seq(Byte) /\ Len(file') = Len(file) + 1 /\ Len(file) \in Nat
    BY <2>1 DEF ReaderTyped
  <2>4. ReaderTyped'
    BY <2>2, <2>3 DEF ReaderTyped
  <2>5. ASSUME cursor.current
        PROVE  /\ Shows(file', cursor.offset, shown, base)
               /\ Counts(file', cursor.offset, skipped, base)
               /\ Between(file', cursor.offset, cursor.discard)
               /\ cursor.offset <= Len(file')
    <3>1. cursor.offset \in Nat /\ base \in Nat /\ cursor.offset <= Len(file)
      BY <2>5 DEF ReaderTyped, ReaderInv
    <3>2. cursor.offset <= Len(file')
      BY <2>3, <3>1
    <3> QED
      BY <2>1, <2>5, <3>1, <3>2, WrittenOn DEF ReaderTyped, ReaderInv
  <2>6. ReaderInv'
    BY <2>2, <2>5 DEF ReaderInv
  <2> QED
    BY <2>4, <2>6
<1>6. CASE UNCHANGED readerVars
  BY <1>6 DEF readerVars, ReaderTyped, ReaderInv
<1> QED
  BY <1>1, <1>2, <1>3, <1>4, <1>5, <1>6 DEF ReaderNext

\* Where the line starts that ends at a newline.
LEMMA StartIs ==
  ASSUME ReaderTyped, NEW p \in Nat, NEW e, Line(file, p, e)
  PROVE  StartOf(e) = p + 1
<1>1. e \in 1..Len(file) /\ Len(file) \in Nat /\ e \in Nat /\ p < e
  BY DEF Line, Newline, ReaderTyped
<1>2. \A q \in Nat : (q \in Ends \cup {0}) <=> Starts(file, q)
  BY DEF Ends, Starts, Newline
<1>3. \A i : (i \in Ends) <=> Newline(file, i)
  BY DEF Ends, Newline
<1> DEFINE From(s) == s - 1 \in Ends \cup {0} /\ \A i \in s..(e - 1) : i \notin Ends
<1>4. p + 1 \in 1..e /\ From(p + 1)
  <2>1. p + 1 - 1 = p
    OBVIOUS
  <2> QED
    BY <1>1, <1>2, <1>3, <2>1 DEF Line
<1>5. ASSUME NEW s \in 1..e, From(s) PROVE s = p + 1
  <2> DEFINE q == s - 1
  <2>1. q \in Nat /\ s = q + 1 /\ q < e
    BY <1>1
  <2>2. Starts(file, q) /\ \A i \in (q + 1)..(e - 1) : ~ Newline(file, i)
    BY <1>2, <1>3, <1>5, <2>1
  <2> HIDE DEF q
  <2>3. q = p
    BY <1>1, <2>1, <2>2, LineIs DEF Line, ReaderTyped
  <2> QED
    BY <2>1, <2>3
<1>6. StartOf(e) = CHOOSE s \in 1..e : From(s)
  BY DEF StartOf
<1> HIDE DEF From
<1> QED
  BY <1>4, <1>5, <1>6

\* Each end has a start, and is readable if its line holds a record.
LEMMA LineOf ==
  ASSUME ReaderTyped, NEW e, Newline(file, e)
  PROVE  \E p \in Nat :
           /\ Line(file, p, e) /\ StartOf(e) = p + 1
           /\ Valid(StartOf(e), e - StartOf(e)) <=> Valued(file, p, e)
           /\ \A q \in Nat : Line(file, q, e) => q = p
<1>1. e \in Nat /\ e - 1 \in Nat /\ e > 0
  BY DEF Newline, ReaderTyped
<1>2. PICK p \in 0..(e - 1) : Starts(file, p) /\ \A i \in (p + 1)..(e - 1) : ~ Newline(file, i)
  BY <1>1, LastStart
<1>3. p \in Nat /\ p < e /\ e - (p + 1) = e - p - 1
  BY <1>1, <1>2
<1>4. /\ Line(file, p, e)
      /\ Valid(p + 1, e - p - 1) <=> Valued(file, p, e)
      /\ \A q \in Nat : Line(file, q, e) => q = p
  BY <1>1, <1>2, <1>3, LineIs DEF ReaderTyped
<1>5. StartOf(e) = p + 1
  BY <1>3, <1>4, StartIs
<1> QED
  BY <1>3, <1>4, <1>5

\* However pages, appends and rotations interleave: what is shown are, in order and each
\* once, all the records of the file from the first one shown up to the cursor; every
\* other line passed is counted; and the cursor is where reading can go on.
THEOREM PagesAreExact == ReaderSpec => []PagesContinueExactly
<1>1. ReaderTyped /\ ReaderInv => PagesContinueExactly
  <2> SUFFICES ASSUME ReaderTyped, ReaderInv, cursor.current PROVE PagesContinueExactly
    BY DEF PagesContinueExactly
  <2> DEFINE o == cursor.offset
  <2>1. /\ o \in Nat /\ base \in 0..o /\ o <= Len(file) /\ Len(file) \in Nat /\ base \in Nat
        /\ Shows(file, o, shown, base) /\ Counts(file, o, skipped, base)
        /\ Between(file, o, cursor.discard)
        /\ cursor.hasMore => cursor.offset > cursor.from
        /\ shown \in Seq(Nat) /\ Len(shown) \in Nat
    BY DEF ReaderTyped, ReaderInv
  <2>2. \A e : (e \in Complete) <=> (Newline(file, e) /\ e <= o)
    BY DEF Complete, Ends, Newline
  <2>3. \A e : (e \in Complete) => e \in 1..o /\ e \in Nat
    BY <2>1, <2>2 DEF Newline
  <2>4. ASSUME NEW e \in Complete
        PROVE  /\ e \in Readable <=> \E p \in Nat : Valued(file, p, e)
               /\ \A p \in Nat : Valued(file, p, e) => StartOf(e) = p + 1
    <3>1. PICK p \in Nat :
           /\ Line(file, p, e) /\ StartOf(e) = p + 1
           /\ Valid(StartOf(e), e - StartOf(e)) <=> Valued(file, p, e)
           /\ \A q \in Nat : Line(file, q, e) => q = p
      BY <2>2, LineOf
    <3>2. e \in Readable <=> Valid(StartOf(e), e - StartOf(e))
      BY DEF Readable
    <3>3. \A q \in Nat : Valued(file, q, e) => q = p
      BY <3>1 DEF Valued
    <3> QED
      BY <3>1, <3>2, <3>3
  <2>5. Readable \subseteq Complete
    BY DEF Readable
  <2>6. \A i, j \in 1..Len(shown) : i < j => shown[i] < shown[j]
    BY <2>1 DEF Shows, Increasing
  <2>7. ToSet(shown) \subseteq {StartOf(e) : e \in Readable}
    <3> SUFFICES ASSUME NEW j \in 1..Len(shown)
                 PROVE  shown[j] \in {StartOf(e) : e \in Readable}
      BY DEF ToSet
    <3>1. PICK e \in 1..o : Valued(file, shown[j] - 1, e)
      BY <2>1 DEF Shows
    <3>2. shown[j] - 1 \in Nat /\ shown[j] \in Nat
      BY <2>1 DEF Shows
    <3>3. e \in Complete
      BY <2>1, <2>2, <3>1 DEF Valued, Line
    <3>4. e \in Readable /\ StartOf(e) = shown[j] - 1 + 1
      BY <2>4, <3>1, <3>2, <3>3
    <3> QED
      BY <3>2, <3>4
  <2>8. ASSUME NEW e \in Readable, e > base \/ (shown # <<>> /\ StartOf(e) > shown[1])
        PROVE  StartOf(e) \in ToSet(shown)
    <3>1. e \in Complete /\ e \in 1..o
      BY <2>3, <2>5
    <3>2. PICK p \in Nat : Valued(file, p, e)
      BY <2>4, <3>1
    <3>3. StartOf(e) = p + 1
      BY <2>4, <3>1, <3>2
    <3>4. PICK j \in 1..Len(shown) : shown[j] = p + 1
      BY <2>1, <2>8, <3>1, <3>2, <3>3 DEF Shows
    <3> QED
      BY <3>3, <3>4 DEF ToSet
  <2>9. skipped = Cardinality({e \in Complete \ Readable : e > base})
    <3>1. {e \in Complete \ Readable : e > base} = Lost(file, base, o)
      <4>1. ASSUME NEW e, e \in Complete, e \notin Readable, e > base
            PROVE  e \in Lost(file, base, o)
        BY <2>1, <2>2, <2>3, <2>4, <4>1 DEF Lost
      <4>2. ASSUME NEW e \in Lost(file, base, o)
            PROVE  e \in Complete /\ e \notin Readable /\ e > base
        <5>1. e \in (base + 1)..o /\ Newline(file, e) /\ ~ \E p \in Nat : Valued(file, p, e)
          BY <4>2 DEF Lost
        <5>2. e \in Complete /\ e > base
          BY <2>1, <2>2, <5>1
        <5> QED
          BY <2>4, <5>1, <5>2
      <4> QED
        BY <4>1, <4>2
    <3> QED
      BY <2>1, <3>1 DEF Counts
  <2> DEFINE last == IF Complete = {} THEN 0 ELSE Max(Complete)
  <2>10. IF cursor.discard THEN o - last > MaxRecord ELSE o - last = 0
    <3>1. PICK m \in 0..o : /\ Starts(file, m) /\ \A i \in (m + 1)..o : ~ Newline(file, i)
                            /\ IF cursor.discard THEN o - m > MaxRecord ELSE o = m
      BY <2>1 DEF Between
    <3>2. \A e \in Complete : e <= m /\ e \in Nat
      BY <2>1, <2>2, <2>3, <3>1
    <3>3. last = m
      <4>1. CASE m = 0
        BY <2>3, <3>2, <4>1
      <4>2. CASE m # 0
        <5>1. m \in Complete
          BY <2>1, <2>2, <3>1, <4>2 DEF Starts
        <5>2. \A e \in Complete : m >= e
          BY <3>2, <5>1
        <5>3. \A x \in Complete : (\A e \in Complete : x >= e) => x = m
          BY <3>2, <5>1
        <5>4. Max(Complete) = m
          BY <5>1, <5>2, <5>3 DEF Max
        <5> QED
          BY <5>1, <5>4
      <4> QED
        BY <4>1, <4>2
    <3> HIDE DEF last
    <3> QED
      BY <2>1, <3>1, <3>3
  <2> QED
    BY <2>1, <2>6, <2>7, <2>8, <2>9, <2>10 DEF PagesContinueExactly
<1> QED
  BY <1>1, InitReader, ReaderStep, PTL DEF ReaderSpec
=============================================================================
