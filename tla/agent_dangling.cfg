SPECIFICATION Spec
CONSTANTS
  wenqu = wenqu
  draft = draft
  Skills = {wenqu, draft}
  NoSkill = NoSkill
  NoCall = NoCall
  SkillSize = 2
  Budget = 1000
  Trigger = 1000
  MinRecent = 6
  DefaultSkills <- OneDefault
  ExplicitSkills <- NothingSelected
  MaxSelected = 2
  MaxRequests = 2
  MaxTurns = 2
  MaxToolRetries = 0
  Tools = {"plain"}
  MaxCalls <- OneOne
  ProviderIds = TRUE
  StrictFinal = FALSE
INVARIANT
  ProviderSeesReplies
CHECK_DEADLOCK FALSE
