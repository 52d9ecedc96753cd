\* The client of main.cpp: one server, lifetime 40, the timers of the sources.
CONSTANTS
  COAP_RESPONSE_TIMEOUT = 2
  COAP_MAX_RETRANSMIT = 4
  None = None
  Servers = {s1}
  Lifetime <- BoardLifetime
  UPDATE_FLOOR = 30
  UPDATE_MARGIN = 15
  Codes = {"2.01", "2.04", "4.04"}
  Copies = 2
  Places = 2
  MaxLag = 2
  Failing = {}
  Calls = {}
SPECIFICATION AnsweredSpec
INVARIANTS
  TypeOK
  RegistrationFresh
  OneRequestAtATime
PROPERTIES
  UpdateInTime
  AlwaysReturns
