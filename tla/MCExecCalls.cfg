SPECIFICATION ExecSpec
CONSTANTS
  k1 = k1
  k2 = k2
  s1 = s1
  s2 = s2
  s3 = s3
  a1 = a1
  o1 = o1
  o2 = o2
  NoId = NoId
  Keys = {k1, k2}
  Accounts = {a1}
  OrderIds = {o1, o2}
  Quantities = {1}
  Capitals = {0}
  Funds = {1}
  Calls = {s1, s2, s3}
  Increasing = {k1, k2}
  Switches = {}
  OneProcess = TRUE
  AccountOf <- MCAccountOf
  OrderIdOf <- MCOrderIdOf
  KeyOf <- MCKeyOf
  Evidence <- MCEvidence
SYMMETRY SameIntent
CONSTRAINT OneCallMeetsRecovery
CONSTRAINT SecondWaits
INVARIANTS
  AtMostOneOrder
  OneOpenIncrease
  HonestBrokerTrusted
  CleanIsEarned
PROPERTIES
  ImplementsSingleEffect
