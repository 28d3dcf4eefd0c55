\* Three connections that are moved about, and two sources that come and go
\* with two states.
SPECIFICATION Spec
CONSTANTS
  Sources = {s1, s2}
  Connections = {c1, c2, c3}
  States = {t1, t2}
  NoState = NoState
  MaxKey = 3
SYMMETRY Symmetry
INVARIANTS
  TypeOK
  OwnedOrStopped
  SlotsAreHeld
  ConnectedIsHeard
  NoneKeptByStop
