SPECIFICATION Spec
CONSTANTS
  Ids = {d1, d2}
  Apps = {a1, a2}
  NoApp = NoApp
  Keys = {k1, k2}
  Plain = Plain
  Bare = Bare
  Bodies = {b1, b2}
  Gone = Gone
  Clients = {c1, c2}
SYMMETRY Symmetry
PROPERTIES RotationTouchesOnlyKeys
