SPECIFICATION RoutingSpec
CONSTANTS
  Address = {"treasury", "token", "settlement"}
  Selector = {"transfer", "configure", "other"}
  TransferSelector = "transfer"
  Missing = Missing
  Embedded <- Example
  Overrides <- Files
  Posted <- Requests
INVARIANT RoutedByTheRules
CHECK_DEADLOCK FALSE
