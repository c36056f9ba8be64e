SPECIFICATION Spec
CONSTANTS
  report = report  backup = backup
  g1 = g1  g2 = g2
  daily = daily  once = once
  east = east  west = west
  Jobs <- MCJobs
  Groups <- MCGroups
  Schedules <- MCSchedules
  Finite <- MCFinite
  Servers <- MCServers
SYMMETRY Symmetry
INVARIANT EnabledActive
