\* Two servers that observe the same URI, with allocations that never fail.
CONSTANTS
  Uris <- Accelerometer
  Servers = {s1, s2}
  Fired <- BoardFired
  MidSpace = 6
  Window = 3
  MaxAsks = 1
  Copies = 2
  Failing = {}
  None = None
SPECIFICATION FairSpec
INVARIANTS
  TypeOK
  NoEmptyEntry
PROPERTIES
  UnwantedEnds
