SPECIFICATION Spec
CONSTANTS
  Users = {u1, u2}
  Browsers = {b1, b2}
  Requests = {r1, r2}
  States = {s1, s2}
  Tokens = {t1, t2}
  Sids = {i1, i2, i3}
  None = none
  MaxSecrets = 4
SYMMETRY Symmetry
INVARIANTS
  ServedWithGrant
  OneLoginPerState
  RevokedSignedOut
PROPERTIES
  PlayerKeyKept
  OwnerStaysSignedIn
