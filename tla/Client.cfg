\* The board and its server, which reads and writes one resource over a network
\* that loses, delays, repeats and reorders, with answers the socket refuses.
CONSTANTS
  Servers <- Leshans
  Datagrams <- Mail
  NoBytes = {}
  MaxInbox = 1
  None = None
  Values = {"on", "off", "bad"}
  Refused = {"bad"}
  Blocks <- OneBlock
  Resource <- Light
  Failing = {"send"}
  LWM2M_MAX_ID = 15
  INT_SPACE = 512
  Questions <- ReadsAndWrites
  MaxAsked = 2
SPECIFICATION ClientSpec
INVARIANTS
  ClientTypeOK
  ToldTheTruth
PROPERTIES
  EveryRequestAnswered
  KeepsStepping
  NotifiesWhenQuiet
