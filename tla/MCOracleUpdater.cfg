SPECIFICATION USpec
CONSTANTS
  Account = {turnkey, other}
  Airnode = {gecko, rotated}
  ZeroAddress = ZeroAddress
  Nobody = Nobody
  NoDigest = NoDigest
  Template = {ethUsd, btcUsd}
  templateId = ethUsd
  Price <- PriceWords
  BadLength = BadLength
  MAX_SOURCE_AGE = 1
  MAX_FUTURE_DRIFT = 0
  MaxTime = 3
  MaxEvents = 1
  Replica = {r1}
  UPDATER_ADDRESS = turnkey
  SOURCE_AIRNODE = gecko
  U128 = 8
  Interval = 2
  RecheckCap = 1
  FAILURE_RETRY = 1
  RECEIPT_ATTEMPTS = 2
  SourceSkew = 1
  BlockSkew = 1
  MaxRestarts = 1
  None = None
INVARIANTS
  UTypeOK
  FeedStaysReadable
PROPERTIES
  CycleEnds
  EarlyOnlyIfUnseen
  
  SuccessIsOnChain
CHECK_DEADLOCK FALSE
