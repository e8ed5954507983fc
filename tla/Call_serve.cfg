SPECIFICATION FairSpec
CONSTANTS
  ann = ann
  bob = bob
  eve = eve
  NoUser = nobody
  Users = {ann, bob, eve}
  Calls = {c1, c2}
  Unstable = {}
  FeeConfigs <- NoFees
  WalletMoves <- NoSwings
  MaxOutlay = 0
  Horizon = 5
  CallPrice <- Prices
  InitCoins <- Coins
  InitCertified <- Certified
  ShareBps = 5000
  Minute = 2
  FreeSeconds = 1
  RingTimeout = 2
  WatchdogRing = 2
  RenewGrace = 1
  OfflineDetect = 1
  InboundProtect = 1
  PairProtect = 2
CHECK_DEADLOCK FALSE
INVARIANT OneCallPerUser
PROPERTIES PendingEnds OverdueIsBilled
