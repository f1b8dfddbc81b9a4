SPECIFICATION SSpec
CONSTANTS
  Handler = {h1, h2}
  Key = {k1}
  NoKey = NoKey
  MaxAge = {1}
  LONGEST_AGE = 1
  REQUEST_TIMEOUT = 0
  MaxClock = 2
  Organization = {"ours", "theirs"}
  Address = {"sender", "vault"}
  NotCanonical = NotCanonical
  ALLOWED_RECIPIENT = "vault"
  MAX_TOTAL_OCTAS = 10
  U64 = 16
  Overflow = Overflow
  Missing = Missing
  ActivityId = {"small", "foreign"}
  Unreadable = {"small"}
  Content <- Contents
  OurOrganization = "ours"
  MAX_TIMESTAMP_AGE = 0
  NoHandler = NoHandler
  ForgedAbout = {"small"}
  MaxSent = 1
SYMMETRY Interchangeable
INVARIANTS
  STypeOK
  VotesFollowPolicy
PROPERTIES
  RefusedOnlyIfOvertaken
  SuccessMeansVoted
  UncertainIsRetried
CHECK_DEADLOCK FALSE
