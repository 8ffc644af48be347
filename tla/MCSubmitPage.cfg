\* A minimum of 2 seconds and a maximum of 4, at one credit a second.
CONSTANTS
  video = video
  Videos = {video}
  NoVideo = NoVideo
  Durations <- MCDurations
  Addresses <- MCAddresses
  Rate = 1
  OpeningBalance = 4
  MinBillable = 2
  MaxSeconds = 4
  MaxClips = 1
  Nothing = Nothing
SPECIFICATION FormSpec
INVARIANTS
  PaidIsPlayed
  ChargedAsShown
  StartsWhereAsked
PROPERTIES
  ClosedForGood
