SPECIFICATION Spec
CONSTANTS
  dScale = 2
  scan_duration = 12
  scan_delay = 5
  Params <- MCParams
  Bounds <- MCBounds
  Scans <- MCScans
INVARIANTS
  FilteredWithinBounds
