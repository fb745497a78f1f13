SPECIFICATION FairSpec
CONSTANTS
  wenqu = wenqu
  draft = draft
  Skills = {wenqu, draft}
  NoSkill = NoSkill
  NoCall = NoCall
  SkillSize = 2
  Budget = 1000
  Trigger = 1000
  MinRecent = 6
  DefaultSkills <- OneDefault
  ExplicitSkills <- NoneOrDraft
  MaxSelected = 2
  MaxRequests = 1
  MaxTurns = 3
  MaxToolRetries = 1
  Tools = {"plain", "image", "load", "remove"}
  MaxCalls <- TwoOneOne
  ProviderIds = FALSE
  StrictFinal = TRUE
INVARIANTS
  TypeOK
  SkillBookkeeping
  DefaultsInForce
  ProviderViewClosed
  FinishedRunsAreClosed
  RetryLimitHolds
PROPERTIES
  AbortEndsRun
  RunEnds
CHECK_DEADLOCK FALSE
