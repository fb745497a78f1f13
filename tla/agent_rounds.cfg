SPECIFICATION Spec
CONSTANTS
  wenqu = wenqu
  draft = draft
  Skills = {wenqu, draft}
  NoSkill = NoSkill
  NoCall = NoCall
  SkillSize = 2
  Budget = 10
  Trigger = 7
  MinRecent = 3
  DefaultSkills <- OneDefault
  ExplicitSkills <- NoneOrDraft
  MaxSelected = 2
  MaxRequests = 2
  MaxTurns = 2
  MaxToolRetries = 0
  Tools = {"plain", "image", "load", "remove"}
  MaxCalls <- OneOne
  ProviderIds = TRUE
  StrictFinal = TRUE
INVARIANTS
  SkillBookkeeping
  ProviderViewClosed
CHECK_DEADLOCK FALSE
