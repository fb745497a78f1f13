SPECIFICATION StoreSpec
CONSTANTS
  w1 = w1
  w2 = w2
  s1 = s1
  k1 = k1
  k2 = k2
  t1 = t1
  t2 = t2
  a1 = a1
  a2 = a2
  Skills = {k1, k2}
  NoSkill = NoSkill
  NoCall = NoCall
  SkillSize = 1
  Sessions = {s1}
  Workspaces = {w1, w2}
  AnyWorkspace = AnyWorkspace
  MaxRows = 4
  Windows <- Pages
  Titles = {t2}
  Tasks = {a1, a2}
  Messages <- SomeMessages
  Injections <- SomeInjections
  ReadKeys <- BrowserKeys
  Stored <- Databases
  NoSession = NoSession
  NoKey = NoKey
  MaxOps = 3
  MaxMishaps = 1
SYMMETRY Interchangeable
INVARIANTS
  TypeOK
  StaleOnlyIfOvertaken
  SkillLinksHold
PROPERTIES
  ImplementsPort
CHECK_DEADLOCK FALSE
