SPECIFICATION Spec
CONSTANTS
  Msgs = {m1, m2}
  Drops = {d1}
  MaxIndex = 2
  Concurrent = TRUE
  Faults = {"put", "get", "restart"}
  BusySync = FALSE
  Window = 1
  MissRounds = 1
  StallRounds = 1
  SkipLimit = 2
  Retention = 0
  ProbeInterval = 0
  MaxPause = 1
  Restarts = TRUE
SYMMETRY Symmetry
INVARIANTS TypeOK KnownIsHonest FutureIsOpen
PROPERTY ImplementsChannel
