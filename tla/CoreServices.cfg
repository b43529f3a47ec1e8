CONSTANTS
  Logins = {l1, l2}
  EmailOf <- MCEmailOf
  MaxAdditions = 3
  MaxCalls = 4
  MaxFailures = 1
  l1 = l1
  l2 = l2
  i1 = i1
  i2 = i2
  p1 = p1
  p2 = p2
  c1 = c1
  s1 = s1
  Providers = {p1, p2}
  Items = {i1, i2}
  ProviderOf <- MCProviderOf
  Prices = {1050, 2050}
  Coupon <- MCCoupon
  Customers = {c1}
  Sockets = {s1, s2}
  MaxTxns = 2
  MaxBatches = 3
  MaxChanges = 1
  MaxFaults = 1
SPECIFICATION MCSpec
INVARIANTS OnboardingTypeOK AccountsAreDistinct NobodyForgotten BadgesAndCardsAgree
           CardIsCurrent
           StoreTypeOK ChargedAsShown ShopIsWhole ToldWhileConnected
PROPERTIES KeepsPromise BecomesMember
CHECK_DEADLOCK FALSE
