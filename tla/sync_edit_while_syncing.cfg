SPECIFICATION SyncSpec
CONSTANTS
  d1 = d1
  d2 = d2
  note = note
  other = other
  r1 = r1
  r2 = r2
  Devices = {d1, d2}
  Paths = {note}
  TextPaths = {note}
  Regions = {r1}
  Values <- MCValues
  NulTexts <- NoTexts
  Uploads <- MCUploads
  Manifests <- MCManifests
  Absent = Absent
  Markers = Markers
  NoOwner = NoOwner
  StartTree <- AllPresent
  EditWhileSyncing = TRUE
  MaxEdits = 3
  MaxLost = 0
  MaxInterrupts = 0
  MaxResets = 0
  MaxDav = 0
  MaxCommits = 8
  MaxFaults = 0
SYMMETRY Symmetry
INVARIANTS
  SyncedWasCommitted
