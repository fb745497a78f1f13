SPECIFICATION Spec
CONSTANTS
  Exports = {e1, e2, e3}
  Downloads = {d1}
  NoExport = NoExport
  Workers = 2
  MaxCrashes = 1
SYMMETRY Interchangeable
INVARIANTS
  TypeOK
  AnnouncedResolves
  ResolvedIsServed
  NothingLeftBehind
CHECK_DEADLOCK FALSE
