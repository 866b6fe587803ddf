SPECIFICATION FairSpec
CONSTANTS
  r1 = r1
  r2 = r2
  Requests <- TwoRequests
  Cooldown = 2
  MaxRuns = 4
  MaxFaults = 3
  LastInstant = 6
PROPERTY KilledOnlyInRace
PROPERTY CooldownKept
PROPERTY LeftoverDoesNotBlock
CHECK_DEADLOCK FALSE
