SPECIFICATION FairSpec
CONSTANTS
  MaxOutput <- MCMaxOutput
  MaxCaptureSize = 1
  ExitCodes <- MCExitCodes
  Definitions <- MCDefinitions
INVARIANTS
  TypeOK
  VerdictTrue
  OutputHonest
  DataBounded
  NothingLeft
PROPERTIES
  ImplementsContract
  CallReturns
CHECK_DEADLOCK FALSE
