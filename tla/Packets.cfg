\* Any datagram after any other, with allocations and transmissions that fail.
CONSTANTS
  LWM2M_MAX_ID = 15
  INT_SPACE = 512
  Values = {"off", "empty", "bad"}
  Refused = {"bad"}
  Blocks <- TwoBlocks
  Resource <- TheResource
  Datagrams <- AllDatagrams
  Messages <- AllMessages
  Locations <- AllLocations
  Failing = {"uri", "objects", "alloc", "send"}
  None = None
SPECIFICATION Spec
INVARIANTS
  TypeOK
  AnsweredOnce
  AnswerTellsEffect
  UrisMeanTheSame
  CodecReadsBack
PROPERTIES
  LossesExplained
  DamageExplained
