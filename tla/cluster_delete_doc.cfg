SPECIFICATION Spec
CONSTANTS
  a = a  b = b  c = c
  report = report  backup = backup
  NodeIds <- MCNodes
  Jobs <- MCJobs
  Limits <- MCLimits
PROPERTIES
  JobsKept
