SPECIFICATION FairSpec
CONSTANTS
  worker_count = 2
  Capacity = 2
  MaxLoaded = 2
  MaxSpawned = 3
PROPERTY Termination
