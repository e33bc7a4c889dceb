---------------------------- MODULE SharedFlight ----------------------------
(***************************************************************************)
(* What sharing identical work promises, with no counter, no lock, no      *)
(* result channel and no deadline: a key has at most one flight, a request *)
(* rides the flight of its key, and a flight is doomed exactly when its    *)
(* last rider leaves or when someone grounds it.  A doomed flight takes no *)
(* new riders, and its key stays taken until it has ended.                 *)
(***************************************************************************)

CONSTANTS
  Requests,   \* who may ride; a flight is named after the request it started for
  Keys,       \* what identifies identical work
  KeyOf,      \* KeyOf[r]: the work r asks for
  None        \* no flight

VARIABLES
  flight,     \* flight[k]: the flight of key k, or None
  riders,     \* riders[f]: the requests that still want f's result
  doomed      \* the flights that have been told to stop

Init ==
  /\ flight = [k \in Keys |-> None]
  /\ riders = [f \in Requests |-> {}]
  /\ doomed = {}

Start(r) ==
  /\ flight[KeyOf[r]] = None
  /\ flight' = [flight EXCEPT ![KeyOf[r]] = r]
  /\ riders' = [riders EXCEPT ![r] = {r}]
  /\ UNCHANGED doomed

Ride(r) ==
  LET f == flight[KeyOf[r]]
  IN  /\ f # None
      /\ f \notin doomed
      /\ riders' = [riders EXCEPT ![f] = @ \cup {r}]
      /\ UNCHANGED <<flight, doomed>>

Leave(r, f) ==
  /\ r \in riders[f]
  /\ riders' = [riders EXCEPT ![f] = @ \ {r}]
  /\ doomed' = IF riders[f] = {r} THEN doomed \cup {f} ELSE doomed
  /\ UNCHANGED flight

Ground ==
  /\ doomed' = doomed \cup {flight[k] : k \in {k \in Keys : flight[k] # None}}
  /\ UNCHANGED <<flight, riders>>

End(k) ==
  /\ flight' = [flight EXCEPT ![k] = None]
  /\ UNCHANGED <<riders, doomed>>

Next ==
  \/ \E r \in Requests : Start(r) \/ Ride(r)
  \/ \E r, f \in Requests : Leave(r, f)
  \/ Ground
  \/ \E k \in Keys : End(k)

Spec == Init /\ [][Next]_<<flight, riders, doomed>>
=============================================================================
