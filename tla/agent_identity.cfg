SPECIFICATION Spec
CONSTANTS
  wenqu = wenqu
  draft = draft
  Skills = {wenqu, draft}
  NoSkill = NoSkill
  NoCall = NoCall
  SkillSize = 2
  Budget = 1000
  Trigger = 1000
  MinRecent = 6
  DefaultSkills <- OneDefault
  ExplicitSkills <- NothingSelected
  MaxSelected = 2
  MaxRequests = 2
  MaxTurns = 1
  MaxToolRetries = 1
  Tools = {"plain"}
  MaxCalls <- One
  ProviderIds = TRUE
  StrictFinal = TRUE
INVARIANT
  DefaultsKeepIdentity
CHECK_DEADLOCK FALSE
