SPECIFICATION Spec
CONSTANTS
  Scans = {loop, manual}
  Symbols = {"x"}
  Patterns = {"long"}
  ValidFor = 2
  DedupTtl = 2
  LastEntry = 2
  Close = 2
  Cutoff = 3
  MaxOpen = 1
  MaxSignals = 5
  MaxFaults = 1
  EndOfDay = 3
INVARIANTS
  TypeOK
  PublishedIsPersisted
  DuplicatesBounded
  CountedBounded
  NoCarryOver
  ExpiredIsRefused
  AnnouncedByEach
SYMMETRY ScanSymmetry
