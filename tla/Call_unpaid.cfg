SPECIFICATION Spec
CONSTANTS
  ann = ann
  bob = bob
  eve = eve
  NoUser = nobody
  Users = {bob, eve}
  Calls = {c1}
  Unstable = {}
  FeeConfigs <- NoFees
  WalletMoves <- NoSwings
  MaxOutlay = 2
  Horizon = 8
  CallPrice <- Prices
  InitCoins <- Coins
  InitCertified <- NobodyYet
  ShareBps = 5000
  Minute = 3
  FreeSeconds = 1
  RingTimeout = 2
  WatchdogRing = 2
  RenewGrace = 1
  OfflineDetect = 1
  InboundProtect = 1
  PairProtect = 2
CHECK_DEADLOCK FALSE
INVARIANT UnpaidNeverBroke
