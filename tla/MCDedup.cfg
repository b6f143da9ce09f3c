CONSTANTS
  app = app  r1 = r1  r2 = r2  r3 = r3  r4 = r4  r5 = r5  r6 = r6  k1 = k1  k2 = k2
  inv1 = inv1  inv2 = inv2  key1 = key1  stranger = stranger  h1 = h1  h2 = h2  h3 = h3
  Apps = {app}
  Requests = {r1}
  Slots = {k1, k2}
  Payments = {inv1, inv2, key1}
  Handlers = {h1, h2}
  Main = Main
  Query = Query
  Malformed = Malformed
  NoRequest = NoRequest
  Sender <- OneSender
  Body <- TwoSlots
  Sealed = {}
  Keysends = {key1}
  Msat <- MCMsat
  Grants <- NoGrants
  FirstGrant <- Budget3
  DbFaults = TRUE
  Timeouts = TRUE
  MayCrash = TRUE
  MayExpire = TRUE
  MayRenew = FALSE
SPECIFICATION Spec
SYMMETRY Symmetry
INVARIANTS ProcessedAtMostOnce LedgerMatchesNode ExecutedMeansAnswered OverBudgetOnlyWhenBlind
PROPERTIES StateIsFinal
CHECK_DEADLOCK FALSE
