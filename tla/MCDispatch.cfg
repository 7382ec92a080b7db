\* One group: the reader joins and leaves, the cache serves old answers, queries are cut short.
CONSTANTS
  reader = reader
  author = author
  phone = phone
  web = web
  g = g
  idler = idler
  Users = {reader, author}
  Apps = {phone, web}
  Devices <- Phones
  Groups = {g}
  GroupIds = {g}
  NoGroup = noGroup
  NoEvent = noEvent
  MemberLists <- Lists
  AdminLists <- Admins
  Subscriptions <- Stored
  Dates = {0}
  Events <- Posts
  CacheExpiration = 1
  FetchTimeout = 1
  MaxTime = 2
SPECIFICATION Spec
INVARIANTS TypeOK CacheIsRecent SenderHearsNothing CustomOnce NobodyForgotten
PROPERTIES OnlyMembersHear RemovedWereOrphans
