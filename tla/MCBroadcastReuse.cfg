CONSTANTS
  s1 = s1
  s2 = s2
  custom = custom
  b1 = b1
  b2 = b2
  NoSub = NoSub
  NoOne = NoOne
  Subs = {s1, s2}
  CustomChans = {custom}
  SharedChans = {custom}
  Capacity <- MCCapacity
  Modes <- AllModes
  Broadcasters = {b1}
  MaxBroadcasts = 1
  MaxUnsubscribe = 0
SPECIFICATION Spec
INVARIANT LiveChannelStaysRegistered
CHECK_DEADLOCK FALSE
