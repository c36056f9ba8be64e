SPECIFICATION Spec
CONSTANTS
  MaxNodes = 3
  MaxFaults = 1
  JobSettings <- MCJobSettings
  Disturbances <- MCDisturbances
INVARIANTS
  TypeOK
  StatusJustified
  EndExplained
  OneSuccess
  TrackerExact
  CancelBounded
  ResultsClosed
PROPERTIES
  ImplementsRecord
  NoStartAfterFinish
