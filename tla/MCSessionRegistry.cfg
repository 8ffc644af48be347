\* Two channels, two concurrent controls, three links, two viewers.
CONSTANTS
  Streamers = {s1, s2}
  Controllers = {c1, c2}
  Requests = {r1}
  Tokens = {t1, t2, t3}
  NoToken = NoToken
  NoStreamer = NoStreamer
SYMMETRY Symmetry
SPECIFICATION Spec
INVARIANTS
  AdmittedToMinter
  RevokedLinkRefused
  LiveLinkIndexed
  IndexInSync
