CONSTANTS
  t1 = t1
  t2 = t2
  t3 = t3
  x1 = x1
  x2 = x2
  k1 = k1
  None = None
  Transactions = {t1, t2, t3}
  Codes = {x1, x2}
  Campaigns = {k1}
  CampaignOf <- MCCampaignOf
  Minimum <- MCMinimum
  Listed <- MCListed
  Actual <- MCActual
  MaxArrivals = 3
  MaxFaults = 1
SPECIFICATION Spec
INVARIANTS
  TypeOK
  ConfirmationsAgree
  NoRequestLost
  OffersNameUsedCoupons
  ReuseNeedsFault
PROPERTY KeepsPromise
CHECK_DEADLOCK FALSE
SYMMETRY Symmetry
