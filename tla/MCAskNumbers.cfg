CONSTANTS
  None = none
  Tokens <- MCTokens
  Definition <- MCDefinition
  Mode = "hybrid"
  Scenes <- MCNumberScenes
  Llms <- MCNoLlms
  FinalTop = 2
  FtsTop = 2
  CurrentYear = 2026
  Freshness <- MCFreshness
  Deltas = 2
  MinFacts = 2
  TextTop = 10
SPECIFICATION Spec
INVARIANT NoHallucinatedNumbers
