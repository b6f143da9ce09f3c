CONSTANTS
  app = app  r1 = r1  r2 = r2  r3 = r3  r4 = r4  r5 = r5  r6 = r6  k1 = k1  k2 = k2
  inv1 = inv1  inv2 = inv2  key1 = key1  stranger = stranger  h1 = h1  h2 = h2  h3 = h3
  Apps = {app}
  Requests = {r1, r2, r3, r4, r5, r6}
  Slots = {k1, k2}
  Payments = {inv1, inv2, key1}
  Handlers = {h1, h2}
  Main = Main
  Query = Query
  Malformed = Malformed
  NoRequest = NoRequest
  Sender <- KindsSender
  Body <- KindsBody
  Sealed = {r1}
  Keysends = {key1}
  Msat <- MCMsat
  Grants <- SomeGrants
  FirstGrant <- Budget3
  DbFaults = FALSE
  Timeouts = TRUE
  MayCrash = FALSE
  MayExpire = FALSE
  MayRenew = TRUE
SPECIFICATION Spec
SYMMETRY Symmetry
INVARIANTS NoSilentEnd RefusedIsUnpaid OverBudgetOnlyWhenBlind
CHECK_DEADLOCK FALSE
