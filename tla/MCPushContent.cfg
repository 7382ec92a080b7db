\* Two processes that look up the same names while profiles change
CONSTANTS
  u = u
  g = g
  profiles = profiles
  groups = groups
  Users = {u}
  Letter = letter
  Space = space
  MentionLength = 2
  Groups = {g}
  Relays = {profiles, groups}
  Sources <- MCSources
  Workers = {w1, w2}
  Events <- Posts
  NoGroup = noGroup
  MaxVersion = 2
  Arrivals <- MCArrivals
  Nameless = {2}
  NameOf <- Names
  Glyphs <- VersionGlyphs
  Ttl <- OneEach
  Timeout <- OneEach
  BodyLimit = 7
SPECIFICATION FairSpec
INVARIANTS TypeOK NamesRecent BodyReadsRight
PROPERTY NotificationMade
