SPECIFICATION Spec
CONSTANTS
  v1 = v1
  v2 = v2
  s1 = s1
  s2 = s2
  m1 = m1
  m2 = m2
  m3 = m3
  i1 = i1
  i2 = i2
  i3 = i3
  Viewers = {v1, v2}
  Streamers = {s1, s2}
  Messages = {m1, m2, m3}
  Items = {i1, i2, i3}
  Price <- MCPrice
  Cheer <- MCCheer
  Anonymous = anonymous
  Amounts = {1}
  FirstStreamers = {s1}
  DbFaults = TRUE
  MaxGrants = 1
INVARIANTS
  TypeOK
  NeverNegative
  BalanceMatchesLedger
  OneEntryEach
PROPERTY
  ImplementsAccounts
CHECK_DEADLOCK FALSE
