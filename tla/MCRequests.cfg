CONSTANTS
  None = none
  Tokens <- MCTokens
  Definition <- MCDefinition
  Mode = "hybrid"
  Scenes <- MCScenes
  Llms <- MCLlms
  FinalTop = 2
  FtsTop = 2
  CurrentYear = 2026
  Freshness <- MCFreshness
  Deltas = 2
  MinFacts = 2
  TextTop = 10
SPECIFICATION Spec
INVARIANTS TypeOK DocumentHoldsItsFile AcceptedIsRegistered ShownIsVisible ReviewedOnce HistoryTellsStatus OneFactPerReading ChangeIsAudited PackIsCoherent SearchFindsWhatStands FailureIsExhaustive CallsAreBounded StreamIsWhole AnswerFitsEvidence CacheIsClean RequestsAreDrained
PROPERTIES ServerErrorIsExplained
