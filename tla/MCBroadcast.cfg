CONSTANTS
  s1 = s1
  s2 = s2
  custom = custom
  b1 = b1
  b2 = b2
  NoSub = NoSub
  NoOne = NoOne
  Subs = {s1, s2}
  CustomChans = {custom}
  SharedChans = {}
  Capacity <- MCCapacity
  Modes <- AllModes
  Broadcasters = {b1, b2}
  MaxBroadcasts = 2
  MaxUnsubscribe = 1
SYMMETRY Symmetry
SPECIFICATION Spec
INVARIANTS
  TypeOK
  NoUseOfClosedChannel
  SameOrderEverywhere
  GuaranteedDelivery
  LiveChannelStaysRegistered
CHECK_DEADLOCK FALSE
