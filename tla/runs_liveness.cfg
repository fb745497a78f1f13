SPECIFICATION FairSpec
CONSTANTS
  r1 = r1
  r2 = r2
  s1 = s1
  Requests = {r1, r2}
  Sessions = {s1}
  SessionOf <- Rivals
  RequestId <- FreshIds
  NoRun = NoRun
  AbortCalls = {a1}
  NameChoices = {TRUE, FALSE}
  CancelPoints <- YieldCancels
  MaxDeltas = 1
PROPERTIES
  AbortFreesSlot
  SlotIsFreed
CHECK_DEADLOCK FALSE
