SPECIFICATION FairSpec
CONSTANTS
  n1 = n1
  n2 = n2
  Notes = {n1, n2}
  Pushed = Pushed
  NoFile = NoFile
  MaxPuts = 2
  MaxFaults = 1
  Docs = {1, 2}
  Gone = Gone
  Untagged = Untagged
  Listings <- OneListing
  MaxChanged = 1
  MaxSyncs = 3
  MaxEvents = 3
  Mixed = FALSE
INVARIANTS PushTypeOK PdfIsCurrent PushedOncePerListing ListedIsPushed
PROPERTIES TabletSettles
CHECK_DEADLOCK FALSE
