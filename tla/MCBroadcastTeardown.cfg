CONSTANTS
  s1 = s1
  s2 = s2
  custom = custom
  b1 = b1
  b2 = b2
  NoSub = NoSub
  NoOne = NoOne
  Subs = {s1, s2}
  CustomChans = {}
  SharedChans = {}
  Capacity <- Unbuffered
  Modes <- BlockingModes
  Broadcasters = {b1}
  MaxBroadcasts = 1
  MaxUnsubscribe = 1
SPECIFICATION FairSpec
PROPERTY UnsubscribeAllNeverBlocked
CHECK_DEADLOCK FALSE
