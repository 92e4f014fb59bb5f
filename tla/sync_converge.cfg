SPECIFICATION FairSyncSpec
CONSTANTS
  d1 = d1
  d2 = d2
  note = note
  other = other
  r1 = r1
  r2 = r2
  Devices = {d1, d2}
  Paths = {note, other}
  TextPaths = {note, other}
  Regions = {r1}
  Values <- MCValues
  NulTexts <- EvenTexts
  Uploads <- MCUploads
  Manifests <- MCManifests
  Absent = Absent
  Markers = Markers
  NoOwner = NoOwner
  StartTree <- AllPresent
  EditWhileSyncing = FALSE
  MaxEdits = 2
  MaxLost = 1
  MaxInterrupts = 0
  MaxResets = 0
  MaxDav = 1
  MaxCommits = 8
  MaxFaults = 0
INVARIANTS
  ManifestMatchesBase
PROPERTIES
  DevicesConverge
