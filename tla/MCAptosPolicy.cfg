SPECIFICATION EvaluationSpec
CONSTANTS
  Organization = {"ours"}
  Address = {"sender", "other", "vault"}
  NotCanonical = NotCanonical
  ALLOWED_RECIPIENT = "vault"
  MAX_TOTAL_OCTAS = 10
  U64 = 16
  Overflow = Overflow
  Missing = Missing
  Submitted <- Requests
INVARIANT DecidesByThePolicy
CHECK_DEADLOCK FALSE
