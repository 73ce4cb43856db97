SPECIFICATION SenderSpec
CONSTANTS
  Msgs = {m1, m2}
  Drops = {d1, d2}
  MaxIndex = 4
  Concurrent = TRUE
  Faults = {"put", "expire", "restart"}
SYMMETRY Symmetry
INVARIANTS SenderTypeOK DeliveredIsPast DeliveredIndexWasStored
