SPECIFICATION FairSpec
CONSTANTS
  h1 = h1
  h2 = h2
  s1 = s1
  s2 = s2
  j1 = j1
  j2 = j2
  j3 = j3
  d1 = d1
  None = None
  Handlers <- TwoHandlers
  Sites <- TwoSites
  Jobs <- ThreeJobs
  Domains <- OneDomain
  QueueCap = 1
  MaxSaveFails = 0
  MaxRestarts = 0
  MayCancel = TRUE
  MayStop = FALSE
PROPERTY QueuedJobFinishes
PROPERTY RequestAnswered
CHECK_DEADLOCK FALSE
