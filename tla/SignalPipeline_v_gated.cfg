SPECIFICATION Spec
CONSTANTS
  Scans = {loop, manual}
  Symbols = {"x"}
  Patterns = {"long"}
  ValidFor = 2
  DedupTtl = 2
  LastEntry = 3
  Close = 4
  Cutoff = 5
  MaxOpen = 1
  MaxSignals = 3
  MaxFaults = 1
  EndOfDay = 5
PROPERTIES
  GatedNotApproved
