SPECIFICATION Spec
CONSTANTS
  Tab = {t1, t2}
  Post = {p1, p2}
  Org = {person}
  OrgOf <- OnePerson
  Destination = {d1, d2}
  Listable = {d1}
  Replica = {e1, e2}
  HISTORY_LIMIT = 2
  MaxIntents = 2
  None = None
INVARIANTS
  TypeOK
  TablesAgree
  ShownProofIsOfRow
  SentIsOnRecord
  SendingWasClean
CHECK_DEADLOCK FALSE
PROPERTIES
  ScreeningEnds
