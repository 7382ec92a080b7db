\* The gap between the live subscription and the receiver
CONSTANTS
  Control = {c1}
  Direct = {d1}
  Stored = {}
  NoEvent = noEvent
  ChanCap = 1
  QueueCap = 1
SPECIFICATION FairSpec
INVARIANT LookbackCaught
