\* A capped clip and a YouTube clip that plays to its end; snapshots cross each other and the greeting.
CONSTANTS
  c1 = c1
  c2 = c2
  Items = {c1, c2}
  NoItem = NoItem
  Cap <- MCLongAndWhole
  Types <- MCOneUpload
  Pages = {p1}
  Capacity = 2
  MaxUnsent = 2
  MaxDisturbed = 1
SPECIFICATION Spec
CHECK_DEADLOCK FALSE
INVARIANTS
  TypeOK
  EndedIsPlayedOut
  CapMeasured
PROPERTIES
  ClipEnds
