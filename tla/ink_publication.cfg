SPECIFICATION FairSpec
CONSTANTS
  n1 = n1
  n2 = n2
  p1 = p1
  p2 = p2
  scan = scan
  ink = ink
  Notes = {n1, n2}
  PdfPaths = {p1, p2}
  Inks = {ink}
  Scans = {scan}
  Annotated <- ScanOrNote
  MaxRevision = 2
  Absent = Absent
  NoJournal = NoJournal
  NoRequest = NoRequest
  FirstLedger <- OneScan
  Uploading = {TRUE}
  MaxCommits = 3
  MaxCrashes = 1
INVARIANTS
  InkTypeOK
  JournalFitsBranch
  AnsweredIsDurable
PROPERTIES
  PublishesAtomically
  PublishesOverBase
  OtherPdfsKept
  JournalRollsForward
