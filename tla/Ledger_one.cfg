SPECIFICATION Spec
CONSTANTS
  Payer = p
  Peer = q
  None = None
  Start = 4
  GiftTries = {g1, g2}
  TextTries = {t1, t2}
  GiftPrice = 2
  GiftIncome = 1
  GiftFee = 1
  TextPrice = 1
  TextIncome = 1
  OrderAmount = 3
  VipOrders = {v1, v2}
  VipDays = 1
  CallFee = 2
  CallIncome = 2
  CallServiceFee = 1
  WithdrawAmount = 2
  AdjustAmount = 1
  MaxStarted = 3
  MaxFailures = 1
  MaxDay = 2
INVARIANTS LedgerExplains CountedOnce ReportsAgree
PROPERTY OrderIsCredited
CHECK_DEADLOCK FALSE
