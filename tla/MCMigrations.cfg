SPECIFICATION Spec
CONSTANTS
  p1 = p1
  p2 = p2
  p3 = p3
  Procs = {p1, p2, p3}
  Commands = {"sql", "upgrade", "downgrade", "create_all"}
  MaxCommands = 3
  MaxCrashes = 1
CHECK_DEADLOCK FALSE
SYMMETRY Symmetry
INVARIANTS TypeOK CatalogAgrees SomeCommandSucceeds
PROPERTIES ActsAtomically
