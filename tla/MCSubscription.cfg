CONSTANTS
  s1 = s1
  s2 = s2
  c1 = c1
  c2 = c2
  p1 = p1
  p2 = p2
  NoSub = NoSub
  NoOne = NoOne
  NoProc = NoProc
  Subs = {s1, s2}
  CustomChans = {c1, c2}
  SharedChans = {}
  Capacity <- MCCapacity
  Channel <- MCChannel
  Modes <- AllModes
  Broadcasters = {p1, p2}
  MaxBroadcasts = 2
  Programs <- MCPrograms
  MaxUnsubscribe = 0
SPECIFICATION FairSubscribeSpec
INVARIANTS
  SubscribeTypeOK
  InitialStateFirst
  StatesArriveInOrder
  HearsEveryChange
PROPERTIES
  OnlyLiveSubscribersBlockMachine
  FailedSubscribeLeavesNothing
CHECK_DEADLOCK FALSE
