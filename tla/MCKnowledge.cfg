CONSTANTS
  report = report
  article = article
  patent = patent
  handbook = handbook
  memo = memo
  leaching = leaching
  flotation = flotation
  flow = flow
  r1 = r1
  r2 = r2
  a1 = a1
  p1 = p1
  h1 = h1
  m1 = m1
  ann = ann
  None = none
  Docs <- MCDocs
  Slugs <- MCSlugs
  Facts <- MCFacts
  Home <- MCHome
  Parameter <- MCParameter
  Unreviewed <- MCUnreviewed
  Access <- MCAccess
  Sample <- MCSample
  Decay <- MCDecay
  CurrentYear = 2026
  Levels <- MCLevels
  Questions <- MCQuestions
  Askers = {ann}
  FinalTop = 2
  MinFacts = 1
  Scenarios <- MCScenarios
SPECIFICATION Spec
INVARIANTS TypeOK ClustersAreJudged StaleCellIsExplained AgreementIsSound StaleAnswerIsExplained CachedForItsLevel
PROPERTIES DecisionStands
CHECK_DEADLOCK FALSE
