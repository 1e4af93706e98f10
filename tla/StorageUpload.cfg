\* Three attempts of at most 2, a buffer of 7, tokens that live for 9.
SPECIFICATION FairSpec
CONSTANTS
  Payload = {p1, p2}
  None = None
  Attempts = 3
  Timeout = 1
  Backoff = 1
  Buffer = 7
  Life = 9
INVARIANTS
  UTypeOK
  NothingLeftOpen
  TokenFresh
PROPERTIES
  ImplementsUploadCall
  CallsReturn
\* A service whose test fails is not used; tars and tokens do not come back.
CHECK_DEADLOCK FALSE
