\* A clock that is set back by a second and on by two or by ten, everything failing
\* that may, updates asked for by the application and resets, while requests run.
CONSTANTS
  COAP_RESPONSE_TIMEOUT = 1
  COAP_MAX_RETRANSMIT = 1
  None = None
  Servers = {s1}
  Lifetime <- ShortLifetime
  UPDATE_FLOOR = 2
  UPDATE_MARGIN = 1
  Codes = {"2.01", "2.04"}
  Copies = 1
  Places = 1
  MaxLag = 1
  Failing = {"request", "buffer", "location"}
  Calls = {"update", "restart"}
  Jumps <- FewSeconds
  Horizon = 12
SPECIFICATION ClockSpec
INVARIANTS
  PendingHasRequest
