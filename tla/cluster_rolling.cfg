SPECIFICATION Spec
CONSTANTS
  a = a  b = b  c = c
  report = report  backup = backup
  NodeIds <- MCNodes
  Jobs <- MCJobs
  Limits <- MCLimits
SYMMETRY Symmetry
INVARIANTS
  TypeOK
  IndexInBounds
  StartCurrent
  SelectionSound
  RoundRobin
PROPERTIES
  TurnKept
