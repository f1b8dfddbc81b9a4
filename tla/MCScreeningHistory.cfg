SPECIFICATION Spec
CONSTANTS
  Tab = {t1, t2}
  Post = {p1, p2}
  Org = {person}
  OrgOf <- OnePerson
  Destination = {d1, d2}
  Listable = {d1, d2}
  Replica = {e1, e2}
  HISTORY_LIMIT = 1
  MaxIntents = 2
  None = None
SYMMETRY Interchangeable
INVARIANTS
  HistoryShowsLatest
CHECK_DEADLOCK FALSE
