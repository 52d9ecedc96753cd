\* One server that observes two URIs, reads and allocations that fail.
CONSTANTS
  Uris <- DeviceAndTime
  Servers = {s1}
  Fired <- BoardFired
  MidSpace = 6
  Window = 3
  MaxAsks = 2
  Copies = 1
  Failing = {"observed", "watcher", "read"}
  None = None
SPECIFICATION Spec
PROPERTIES
  ResetCancelsItsOwn
CHECK_DEADLOCK FALSE
