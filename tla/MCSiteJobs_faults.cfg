SPECIFICATION Spec
CONSTANTS
  h1 = h1
  h2 = h2
  s1 = s1
  s2 = s2
  j1 = j1
  j2 = j2
  j3 = j3
  d1 = d1
  None = None
  Handlers <- TwoHandlers
  Sites <- TwoSites
  Jobs <- ThreeJobs
  Domains <- OneDomain
  QueueCap = 2
  MaxSaveFails = 2
  MaxRestarts = 2
  MayCancel = TRUE
  MayStop = TRUE
SYMMETRY Symmetry
INVARIANT TypeOK
INVARIANT NoOrphanConf
INVARIANT IndexSound
INVARIANT QueueSound
INVARIANT TransientHasWork
INVARIANT ActiveServed
PROPERTY JobsAdvance
PROPERTY EffectsRecorded
CHECK_DEADLOCK FALSE
