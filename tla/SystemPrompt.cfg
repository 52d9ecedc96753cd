\* The board and its server, with answers under way for up to seven seconds.
CONSTANTS
  COAP_RESPONSE_TIMEOUT = 2
  COAP_MAX_RETRANSMIT = 4
  None = None
  Servers = {s1}
  Lifetime <- BoardLifetime
  UPDATE_FLOOR = 30
  UPDATE_MARGIN = 15
  Codes = {"2.01", "2.04", "4.04"}
  Copies = 2
  Places = 2
  MaxLag = 2
  Failing = {}
  Calls = {"restart"}
  MaxDelay = 7
SPECIFICATION SystemSpec
INVARIANT LocationCurrent
PROPERTY ChanceToResend
