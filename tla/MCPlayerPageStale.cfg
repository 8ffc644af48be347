\* A capped YouTube clip and one that plays to its natural end; snapshots in order.
CONSTANTS
  c1 = c1
  c2 = c2
  Items = {c1, c2}
  NoItem = NoItem
  Cap <- MCLongAndWhole
  Types <- MCEither
  Pages = {p1}
  Capacity = 1
  MaxUnsent = 1
  MaxDisturbed = 1
SPECIFICATION Spec
CHECK_DEADLOCK FALSE
PROPERTIES
  EndNamesTheClip
