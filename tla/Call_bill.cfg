SPECIFICATION Spec
CONSTANTS
  ann = ann
  bob = bob
  eve = eve
  NoUser = nobody
  Users = {ann, bob}
  Calls = {c1}
  Unstable = {ann}
  FeeConfigs <- Fees
  WalletMoves <- Swings
  MaxOutlay = 1
  Horizon = 8
  CallPrice <- Prices
  InitCoins <- Coins
  InitCertified <- Certified
  ShareBps = 5000
  Minute = 3
  FreeSeconds = 1
  RingTimeout = 2
  WatchdogRing = 2
  RenewGrace = 1
  OfflineDetect = 1
  InboundProtect = 1
  PairProtect = 2
CHECK_DEADLOCK FALSE
INVARIANTS CoinsConserved DiamondsBacked BillMatchesDuration LoopIsClosedForm
PROPERTIES EndedIsFinal KeepsContract
