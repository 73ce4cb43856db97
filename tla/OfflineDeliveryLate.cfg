SPECIFICATION FairSpec
CONSTANTS
  Msgs = {m1, m2}
  Drops = {d1}
  MaxIndex = 4
  Concurrent = FALSE
  Faults = {}
  BusySync = TRUE
  Window = 1
  MissRounds = 1
  StallRounds = 1
  SkipLimit = 2
  Retention = 1
  ProbeInterval = 1
  MaxPause = 1
  Restarts = FALSE
PROPERTY SkippedIsRecovered
