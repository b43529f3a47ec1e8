CONSTANTS
  u1 = u1
  u2 = u2
  c1 = c1
  x1 = x1
  x2 = x2
  r1 = r1
  o1 = o1
  o2 = o2
  n1 = n1
  None = None
  Listener = listener
  Users = {u1}
  Members = {u1}
  Coupons = {c1}
  Codes = {x1, x2}
  CouponOf <- MCCouponOf
  Price <- MCPrice
  Rewards = {r1}
  RewardPoints <- MCRewardPoints
  Orders = {o1}
  Numbers = {n1}
  OrderNumber <- MCOrderNumber
  OrderPoints <- MCOrderPoints
  OrderCode <- MCOrderCode
  StartPoints <- MCStartPoints
  Threads = {t1, t2}
  MaxRequests = 2
  MaxCopies = 2
  MaxCrashes = 1
  MaxFailures = 0
  MaxFaults = 1
SPECIFICATION Spec
INVARIANT ToldPointsAreCredited
CHECK_DEADLOCK FALSE
SYMMETRY Symmetry
