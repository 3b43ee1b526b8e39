SPECIFICATION Spec
CONSTANTS
  Loader = loader
  Hands = {w1, w2}
  Null = Null
  batch_size = 1
  cache_size = 1
  Listers = {loader, w1, w2}
  MaxLive = 2
  MaxRounds = 1
SYMMETRY Symmetry
INVARIANTS OneOwner ListingExact MemoryBound
