\* One replica: two apps, two users and two tokens, one clock tick.
CONSTANTS
  Apps = {a1, a2}
  Legacy = legacy
  PubKeys = {p1, p2}
  Tokens = {t1, t2}
  NoPubKey = noPubKey
  NoToken = noToken
  Workers = {w1}
  MaxAge = 1
  MaxTime = 1
SPECIFICATION Spec
INVARIANTS TypeOK OwnershipConsistent
PROPERTY RegistrySpec
SYMMETRY Symmetry
