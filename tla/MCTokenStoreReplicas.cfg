\* Two replicas during a rolling update
CONSTANTS
  Apps = {a1}
  Legacy = legacy
  PubKeys = {p1, p2}
  Tokens = {t1}
  NoPubKey = noPubKey
  NoToken = noToken
  Workers = {w1, w2}
  MaxAge = 1
  MaxTime = 1
SPECIFICATION Spec
INVARIANT OwnershipConsistent
