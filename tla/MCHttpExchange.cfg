\* One exchange of every kind, cut off anywhere on the way in and on the way out.
CONSTANTS
  Requests <- MCRequests
  ServerFiles <- MCServerFiles
  ClientFile <- MCClientFile
  Secrets <- MCSecrets
  Numerals <- MCNumerals
  Resolutions <- MCResolutions
SPECIFICATION Spec
INVARIANTS
  RequestIsUnderstood
  CutBodyIsAPrefix
  AnswerIsUnderstood
  SecretsAreShared
  RoutingIsExact
  ConstructionIsAllOrNothing
CHECK_DEADLOCK FALSE
