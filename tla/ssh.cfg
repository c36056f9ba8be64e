SPECIFICATION FairSpec
CONSTANTS
  Window = 3
  MaxOutput = 4
  MaxCaptureSize = 2
  ExitCodes <- MCExitCodes
  Definitions <- MCDefinitions
INVARIANTS
  TypeOK
  VerdictTrue
  OutputHonest
PROPERTIES
  ImplementsContract
  CallReturns
CHECK_DEADLOCK FALSE
