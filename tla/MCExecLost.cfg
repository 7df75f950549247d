SPECIFICATION FairExecSpec
CONSTANTS
  k1 = k1
  k2 = k2
  s1 = s1
  s2 = s2
  s3 = s3
  a1 = a1
  o1 = o1
  o2 = o2
  NoId = NoId
  Keys = {k1}
  Accounts = {a1}
  OrderIds = {o1}
  Quantities = {2}
  Capitals = {0}
  Funds = {1}
  Calls = {s1}
  Increasing = {k1}
  Switches = {"safe_mode", "operator", "kill_switch"}
  OneProcess = TRUE
  AccountOf <- MCAccountOf
  OrderIdOf <- MCOrderIdOf
  KeyOf <- MCKeyOf
  Evidence <- MCEvidence
INVARIANTS
  StopsAreRespected
PROPERTIES
  NothingUnlearnedProperty
  LostReplyRecovered
  OutcomeRecorded
