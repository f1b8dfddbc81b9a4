SPECIFICATION VSpec
CONSTANTS
  Handler = {h1, h2}
  Key = {k1, k2}
  NoKey = NoKey
  MaxAge = {1}
  LONGEST_AGE = 1
  REQUEST_TIMEOUT = 1
  MaxClock = 4
INVARIANTS
  VTypeOK
PROPERTIES
  LookupEnds
  TrustIsRecent
CHECK_DEADLOCK FALSE
