\* Two control events and a direct message, channels of one element
CONSTANTS
  Control = {c1, c2}
  Direct = {d1}
  Stored = {d1}
  NoEvent = noEvent
  ChanCap = 1
  QueueCap = 1
SPECIFICATION FairSpec
INVARIANTS TypeOK MarkedIsComplete
PROPERTIES ShutdownCompletes ShutdownAdvances QueuedIsTaken
