SPECIFICATION Spec
CONSTANTS
  Ids = {d1}
  Apps = {a1, a2}
  NoApp = NoApp
  Keys = {k1, k2, k3}
  Plain = Plain
  Bare = Bare
  Bodies = {b1}
  Gone = Gone
  Clients = {c1, c2}
SYMMETRY Symmetry
INVARIANTS TypeOK RowsStayReadable RotationIsComplete MigrationIsComplete
PROPERTIES AppsKeepTheirRows
