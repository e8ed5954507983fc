SPECIFICATION Spec
CONSTANTS
  n0 = n0
  n1 = n1
  n2 = n2
  p = p
  q = q
  Names = {n0, n1, n2}
  Photos = {p, q}
  FirstName = n0
  PoolName = n2
  FirstPhoto = p
  None = None
  Keep = Keep
  Edits <- SomeEdits
  Rulings <- SomeRulings
  Tiers = {1, 2}
  UsualTier = 1
  say1 = say1
  say2 = say2
  Phrases = {say1, say2}
  Cooldown = 1
  MaxStarted = 5
  MaxTime = 2
INVARIANTS OnlyVettedIsShown CompletedIsFinal PriceNeedsCertificate
CHECK_DEADLOCK FALSE
