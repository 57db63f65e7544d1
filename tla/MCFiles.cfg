SPECIFICATION FilesSpec
CONSTANTS
  a = a
  b = b
  c = c
  f1 = f1
  f2 = f2
  f3 = f3
  None = None
  Console = Console
  Procs <- SomeProcs
  OpenFiles <- SomeFiles
  Archives <- SomeArchives
  BlockSize = 4
  NameLen = 2
  SizeLen = 2
  DirNameLen = 2
  MaxFds = 3
  FirstFd = 1
  MaxLen = 2
  MaxOffset = 0
  MaxKeys = 1
VIEW Live
SYMMETRY Interchangeable
INVARIANTS
  ReadsTheArchive
  LockExact
  NoSpin
