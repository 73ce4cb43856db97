SPECIFICATION FairSpec
CONSTANTS
  Conns = {c1, c2}
  Keys = {k1}
  Blobs = {b1, b2}
  Impls = {"python", "rust"}
  NoBlob = NoBlob
  MaxActive = 2
  MaxPuts = 1
  Window = 1
  TTL = 1
  MaxTime = 2
INVARIANTS TypeOK AnswersWereTrue AcceptedIsKept PutsWithinRate
PROPERTIES SlotsComeBack ExpiredIsCollected LiveFileStays
