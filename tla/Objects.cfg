\* Every request on the Server, Device and Firmware objects, two resources a write.
SPECIFICATION Spec
CONSTANTS
  None = None
  ShortId = 1
  LifetimeSet = 1
  Limit = 1
  Numbers <- MCNumbers
  Bindings <- MCBindings
  InstanceIds = {0, 1}
  MaxInstances = 2
  MaxItems = 2
  INT64_SPACE = 256
  BASE = 4
  Depth = 2
  Texts <- MCTexts
  Temperatures <- MCTemperatures
  Trees <- MCTrees
  CutTrees <- MCCutTrees
INVARIANTS
  TypeOK
  EveryInstanceFound
  CreatedOrUntouched
  RefusedWriteKeepsBeginning
  CopyHarmless
  PayloadsMeanTheSame
PROPERTY AccountNotTakenOver
