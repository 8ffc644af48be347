\* Four submissions: one on the player, two queued in an order, one pending.
CONSTANTS
  Items = {i1, i2, i3, i4}
  NoItem = NoItem
SPECIFICATION Spec
INVARIANTS
  TypeOK
  StatusMatchesPlace
  NeverIdleWithWork
PROPERTIES
  FirstApprovedFirstPlayed
  StaleReportKeepsProgramme
  ImplementsLifecycle
