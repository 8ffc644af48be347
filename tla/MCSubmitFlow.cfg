SPECIFICATION FairSpec
CONSTANTS
  v1 = v1
  s1 = s1
  s2 = s2
  r1 = r1
  r2 = r2
  m1 = m1
  c1 = c1
  t1 = t1
  t2 = t2
  Streamers = {s1, s2}
  Controllers = {c1}
  Requests = {r1, r2}
  Tokens = {t1, t2}
  NoToken = noToken
  NoStreamer = noStreamer
  Viewers = {v1}
  Messages = {m1}
  Price <- MCPrice
  Cheer <- MCCheer
  Anonymous = anonymous
  DbFaults = TRUE
  Sender <- MCSender
  Uploads = {r1}
  MaxCrashes = 1
CHECK_DEADLOCK FALSE
INVARIANTS
  QueuedWherePaid
  OpenWhenItArrived
  FilesMatchQueues
PROPERTY PaidIsQueued
