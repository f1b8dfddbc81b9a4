SPECIFICATION SSpec
CONSTANTS
  Handler = {h1, h2}
  Key = {k1}
  NoKey = NoKey
  MaxAge = {1}
  LONGEST_AGE = 1
  REQUEST_TIMEOUT = 1
  MaxClock = 1
  Organization = {"ours", "theirs"}
  Address = {"sender", "vault"}
  NotCanonical = NotCanonical
  ALLOWED_RECIPIENT = "vault"
  MAX_TOTAL_OCTAS = 10
  U64 = 16
  Overflow = Overflow
  Missing = Missing
  ActivityId = {"small"}
  Unreadable = {}
  Content <- Contents
  OurOrganization = "ours"
  MAX_TIMESTAMP_AGE = 1
  NoHandler = NoHandler
  ForgedAbout = {"small"}
  MaxSent = 1
SYMMETRY Interchangeable
PROPERTIES
  EligibleDeliveryVotes
CHECK_DEADLOCK FALSE
