SPECIFICATION Spec
CONSTANTS
  c1 = c1
  c2 = c2
  h1 = h1
  h2 = h2
  b1 = b1
  b2 = b2
  Channels = {c1, c2}
  Handlers = {h1, h2}
  Bots = {b1, b2}
  MaxTokens = 3
  MaxRestarts = 1
  NoToken = NoToken
  NoBot = NoBot
  NoChannel = NoChannel
CHECK_DEADLOCK FALSE
INVARIANTS OneLiveBot SettledAgrees
PROPERTIES CancelledLeaves
