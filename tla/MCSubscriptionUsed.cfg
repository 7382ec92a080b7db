\* The lazy cleanup after a deregistration
CONSTANTS
  a1 = a1
  a2 = a2
  u1 = u1
  u2 = u2
  note = note
  rawNote = rawNote
  dm = dm
  hNote = hNote
  hDm = hDm
  Holders <- MCHolders
  Filters <- Single
  Canonical <- MCCanonical
  Hashes = {hNote, hDm}
  HashOf <- MCHashOf
  DmHashes = {hDm}
  GroupFilters = {note}
  HeldDeletes = TRUE
  NoTask = noTask
  MaxRef = 3
SPECIFICATION Spec
PROPERTY UsedFilterStaysOpen
