\* Two requests outstanding at once, with the timers of er-coap-13.h.
CONSTANTS
  COAP_RESPONSE_TIMEOUT <- ResponseTimeout
  COAP_MAX_RETRANSMIT <- MaxRetransmit
  None = None
  Mids = {m1, m2}
  Codes <- ResponseCodes
  Copies = 1
  MaxLag = 3
SPECIFICATION FairSpec
INVARIANTS
  TypeOK
  NotOverdue
PROPERTIES
  PacedTransmissions
  EveryRequestConcluded
  ImplementsExchange
