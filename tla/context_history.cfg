SPECIFICATION Spec
CONSTANTS
  draft = draft
  iterate = iterate
  Skills = {draft, iterate}
  NoSkill = NoSkill
  NoCall = NoCall
  SkillSize = 3
  Budget = 10
  Trigger = 7
  MinRecent = 2
  TextSizes = {1, 4}
  MaxMessages = 6
  MaxParallel = 2
INVARIANTS
  ProtocolSurvives
  BudgetHolds
PROPERTIES
  EssentialsSurvive
  RecentSurvives
CHECK_DEADLOCK FALSE
