\* Both graphs, one follow-up round, two attempts per report, one crash.
SPECIFICATION Spec
CONSTANTS
  None = None
  a = a
  b = b
  c = c
  w1 = w1
  w2 = w2
  w3 = w3
  web = web
  paper = paper
  private = private
  mcp = mcp
  p1 = p1
  p2 = p2
  m1 = m1
  PlanQueries = {a}
  CoverageTopic = b
  GapSets <- MCGapSets
  WebResults = {w1, w2, w3}
  PrivateResults = {p1, p2}
  McpResults = {m1}
  Papers = {w3}
  Id <- MCId
  Page <- MCPage
  page = page
  Blank = {w2}
  ghost = ghost
  CitedSets <- MCCitedSets
  Relevance <- MCRelevance
  Quality <- MCQuality
  MinimumSources = 2
  MinimumAverage = 25
  MaxFollowUps = 2
  MaxIterations = 1
  MaxWriterAttempts = 2
  MaxReflectionAttempts = 2
  MaxCrashes = 1
\* A finished run has nothing left to do.
CHECK_DEADLOCK FALSE
INVARIANTS
  TypeOK
  EvidenceIsEveryPool
  RoundsAreNew
  CompletedReportIsSupported
  RefusedOnlyWhenExhausted
  WorkIsBounded
PROPERTY NothingIsForgotten

