SPECIFICATION Spec
CONSTANTS
  d1 = d1
  d2 = d2
  note = note
  photo = photo
  r1 = r1
  Devices = {d1, d2}
  Paths = {note, photo}
  TextPaths = {note}
  Regions = {r1}
  Values = {v1, v2, v3}
  v1 = v1
  v2 = v2
  v3 = v3
  NulTexts <- MCNulTexts
  Uploads <- MCUploads
  Manifests <- MCManifests
  Absent = Absent
  Markers = Markers
  NoOwner = NoOwner
  MaxCommits = 3
  MaxFaults = 1
SYMMETRY Symmetry
CHECK_DEADLOCK FALSE
INVARIANTS
  TypeOK
  WorkIsHead
  NoMarkersCommitted
  AckedPathsExisted
PROPERTIES
  PendingFrozen
