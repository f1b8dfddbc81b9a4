SPECIFICATION SSpec
CONSTANTS
  Policy <- Policies
  Chain <- Chains
  SEPOLIA = 11155111
  OtherChain = 1
  Address = {oracle, ones}
  ORACLE_ADDRESS = oracle
  OtherAddress = ones
  Function = {updatePrice, setUpdater}
  UPDATE_PRICE = updatePrice
  SET_UPDATER = setUpdater
  Word = {ethUsd, address, otherTemplate}
  ETH_USD_TEMPLATE_ID = ethUsd
  AddressWord = address
  OtherTemplate = otherTemplate
  Value <- Values
  Gas <- Gases
  Fee <- Fees
  Client = {c1}
  Method = {"GET", "POST"}
  OtherPath = {"/missing-a", "/missing-b"}
  MaxAnswers = 2
  Idle = Idle
INVARIANTS
  ServicesTypeOK
  PreflightHolds
  UnattendedSignatureStops
  SeriesBounded
CHECK_DEADLOCK FALSE
