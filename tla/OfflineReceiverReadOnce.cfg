SPECIFICATION Spec
CONSTANTS
  MaxIndex = 3
  Window = 2
  MissRounds = 2
  StallRounds = 1
  SkipLimit = 2
  Retention = 0
  ProbeInterval = 1
  MaxPause = 1
  Copies = {c1}
  Answers = {"hit", "miss", "indeterminate"}
  Restarts = TRUE
PROPERTY ReadOnce
