\* Two workers, and a set that lives as long as the horizon, as configured
CONSTANTS
  Events = {e1, e2}
  NoEvent = noEvent
  Workers = {w1, w2}
  Horizon = 2
  Ttl = 2
  Delay = 1
  MaxTime = 6
SPECIFICATION Spec
SYMMETRY Symmetry
INVARIANT TypeOK
PROPERTY RepeatedOnlyIfDatedLate
CHECK_DEADLOCK FALSE
