SPECIFICATION Spec
CONSTANTS
  Insts = {i1, i2}
  Edits = {e1}
  Passes = {p1, p2}
  NoOne = NoOne
  MaxCount = 3
  AfterWipe = 1
PROPERTY EncryptedOnShutdown
