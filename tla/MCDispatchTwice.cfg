\* Another user's lazy cleanup takes the filter from which the second loop is to see who was served.
CONSTANTS
  reader = reader
  author = author
  phone = phone
  web = web
  g = g
  idler = idler
  Users = {reader, idler, author}
  Apps = {phone, web}
  Devices <- SharedPhones
  Groups = {}
  GroupIds = {g}
  NoGroup = noGroup
  NoEvent = noEvent
  MemberLists = {}
  AdminLists = {}
  Subscriptions <- Shared
  Dates = {0}
  Events <- Mention
  CacheExpiration = 1
  FetchTimeout = 0
  MaxTime = 0
SPECIFICATION Spec
INVARIANT NobodyHearsTwice
