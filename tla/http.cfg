SPECIFICATION FairSpec
CONSTANTS
  MaxBody = 4
  MaxCaptureSize = 2
  StatusCodes <- MCStatusCodes
  Definitions <- MCDefinitions
INVARIANTS
  TypeOK
  VerdictTrue
  BodyHonest
  DataBounded
PROPERTIES
  ImplementsContract
  CallReturns
  ReaderStops
CHECK_DEADLOCK FALSE
