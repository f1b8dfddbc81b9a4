SPECIFICATION Spec
CONSTANTS
  Address = {"treasury", "token", "settlement"}
  Selector = {"transfer", "configure"}
  TransferSelector = "transfer"
  Missing = Missing
  Replica = {r1, r2}
  Ephemeral = {e1, e2, e3}
  DevSeed = DevSeed
  QuorumSeed = QuorumSeed
  Ruleset <- BothRulesets
  Request <- Requests
  Forgery <- Forgeries
  Human = {h1, h2}
SYMMETRY Interchangeable
INVARIANTS
  TypeOK
  UnattendedWithinRules
  AttendedIsPrivileged
  VerifiedProofIsTrue
  AnswersAreVerifiable
CHECK_DEADLOCK FALSE
PROPERTIES
  ImplementsGate
