SPECIFICATION Spec
CONSTANTS
  k1 = k1
  k2 = k2
  a1 = a1
  o1 = o1
  o2 = o2
  NoId = NoId
  Keys = {k1, k2}
  Accounts = {a1}
  OrderIds = {o1, o2}
  Quantities = {2}
  Capitals = {1, 2}
  Funds = {2, 3}
  AccountOf <- MCAccountOf
  Evidence <- MCEvidence
CONSTRAINT Bounded
INVARIANTS
  TypeOK
  OneOwnerPerOrder
  EvidenceNeverLost
  FillsAreEvidenced
  CapitalNeverOversubscribed
PROPERTIES
  NeverReclaimedProperty
  HistoryStandsProperty
