\* Clients that repeat upserts and delete what they do not hold
CONSTANTS
  a1 = a1
  a2 = a2
  u1 = u1
  u2 = u2
  note = note
  rawNote = rawNote
  dm = dm
  hNote = hNote
  hDm = hDm
  Holders <- OneApp
  Filters <- Mixed
  Canonical <- MCCanonical
  Hashes = {hNote, hDm}
  HashOf <- MCHashOf
  DmHashes = {hDm}
  GroupFilters = {note}
  HeldDeletes = FALSE
  NoTask = noTask
  MaxRef = 3
SPECIFICATION Spec
SYMMETRY Symmetry
INVARIANTS TypeOK IndexesMirror RelayLedger OnlyRefreshLeaks
PROPERTY RecoveryExact
