SPECIFICATION Spec
CONSTANTS
  s1 = s1
  s2 = s2
  Sessions = {s1, s2}
  NoSession = NoSession
  Databases <- UsedBefore
  MaxText = 1
  Terse = {2}
  MaxSends = 2
  MaxMishaps = 1
  MaxActs = 3
INVARIANTS
  ContextsMatch
  StoredIsShown
  DeletedStaysGone
PROPERTIES
  HistoryKept
CHECK_DEADLOCK FALSE
