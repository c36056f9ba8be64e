SPECIFICATION FairSpec
CONSTANTS
  MaxNodes = 2
  MaxFaults = 1
  JobSettings <- MCLiveSettings
  Disturbances <- MCDisturbances
PROPERTIES
  EventuallyClosed
