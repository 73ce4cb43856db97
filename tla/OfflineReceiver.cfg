SPECIFICATION FairSpec
CONSTANTS
  MaxIndex = 3
  Window = 2
  MissRounds = 2
  StallRounds = 1
  SkipLimit = 1
  Retention = 0
  ProbeInterval = 1
  MaxPause = 1
  Copies = {c1}
  Answers = {"hit", "miss"}
  Restarts = TRUE
INVARIANTS TypeOK BaseIsOpen PassedIsSettled SkippedIsPast
PROPERTIES ProgressIsDurable WindowNeverRepeats BaseProgress LowestGapIsProbed
