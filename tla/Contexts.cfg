SPECIFICATION MCSpec
CONSTANTS
  Requests = {r1, r2, r3}
  Selections = {s1, s2}
  Pins = {p, q}
  Third = r3
  FirstPin = p
  Settings = {x1, x2}
  Policies = {y1, y2}
  FirstSettings = x1
  FirstPolicy = y1
  Broken = broken
  Selected = selected
  Edits = 2
  MaxOverrides = 1
  MaxPending = 2
  None = none
  Callers = {c1, c2}
  Snapshots = {n1, n2}
  Principals = {p1, p2}
  Foreign = foreign
  Flights = 2
SYMMETRY Symmetry
INVARIANTS
  SessionsAgree
  SelectionIsLatest
  OutdatedNeverDelivered
  ReservationsFindable
PROPERTIES
  InvalidatedForGood
CHECK_DEADLOCK FALSE
