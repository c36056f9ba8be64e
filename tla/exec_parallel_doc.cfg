SPECIFICATION Spec
CONSTANTS
  MaxNodes = 2
  MaxFaults = 0
  JobSettings <- MCParallelSettings
  Disturbances = {}
INVARIANTS
  ParallelSucceeds
