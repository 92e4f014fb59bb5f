SPECIFICATION FirstSpec
CONSTANTS
  d1 = d1
  d2 = d2
  note = note
  other = other
  r1 = r1
  r2 = r2
  Devices = {d1, d2}
  Paths = {note}
  TextPaths = {note}
  Regions = {r1}
  Values <- MCValues
  NulTexts <- NoTexts
  Uploads <- MCUploads
  Manifests <- MCManifests
  Absent = Absent
  Markers = Markers
  NoOwner = NoOwner
  StartTree <- AllPresent
  EditWhileSyncing = FALSE
  MaxEdits = 2
  MaxLost = 1
  MaxInterrupts = 1
  MaxResets = 1
  MaxDav = 0
  MaxCommits = 16
  MaxFaults = 0
SYMMETRY Symmetry
VIEW Seenless
PROPERTIES
  SetUpMatchesBase
  PushSparesLater
