SPECIFICATION Spec
CONSTANTS
  None = None
  Account <- Accounts
  LegacyHome <- Own
  LinkedHome <- Directory
  InOrder <- Sorted
  Relative <- Paths
  Note = {"n"}
  DirStem <- DirStems
  FileStem <- FileStems
  Session <- Sessions
  OwnerOf <- Owners
  Minute <- Began
  Lessons <- Taught
  KeyOf <- Keys
  LineSize <- Sizes
  LessonsMax = 4
  MaxFileSize = 5
  OldFiles <- Trees
  MaxCalls = 1
  MaxStops = 1
  Place <- Walked
  NameHas = {"list.md", "LIST"}
  LineHas = {"n", "l1", "t1", "s1"}
  MaxRows = 3
  Query <- Searched
INVARIANTS
  MigrationIdempotent
CHECK_DEADLOCK FALSE
