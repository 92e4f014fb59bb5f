SPECIFICATION Spec
CONSTANTS
  Names <- MCNames
  Files <- MCFiles
  Text <- MCText
  Directories <- MCDirectories
  Folder <- MCFolder
  c1 = c1
  c2 = c2
  Contents = {c1, c2}
  Absent = Absent
  MaxRequests = 2
INVARIANT MovedIsThere
CHECK_DEADLOCK FALSE
