SPECIFICATION DSpec
CONSTANTS
  Account = {alice, bob}
  Airnode = {gecko, imposter}
  ZeroAddress = ZeroAddress
  Nobody = Nobody
  NoDigest = NoDigest
  Template = {ethUsd, btcUsd}
  templateId = ethUsd
  Price <- PriceWords
  BadLength = BadLength
  MAX_SOURCE_AGE = 1
  MAX_FUTURE_DRIFT = 0
  MaxTime = 3
  MaxEvents = 2
  U128 = 8
  None = None
SYMMETRY Interchangeable
INVARIANTS
  TypeOK
  EventsAuthentic
  NeverReplayed
  StorageMatchesLog
PROPERTIES
  RenouncedIsFinal
  PublishedFeed
  NeverBehind
CHECK_DEADLOCK FALSE
