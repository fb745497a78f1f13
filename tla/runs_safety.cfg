SPECIFICATION Spec
CONSTANTS
  r1 = r1
  r2 = r2
  s1 = s1
  Requests = {r1, r2}
  Sessions = {s1}
  SessionOf <- Rivals
  RequestId <- FreshIds
  NoRun = NoRun
  AbortCalls = {a1, a2}
  NameChoices = {TRUE}
  CancelPoints <- AllCancels
  MaxDeltas = 2
INVARIANTS
  TypeOK
  EntryIsOwn
  StateBeforeDone
  CancelledWasAborted
  NamedAbortHitsItsRun
PROPERTIES
  AbortSilences
  ImplementsSlot
CHECK_DEADLOCK FALSE
