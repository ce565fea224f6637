SPECIFICATION Spec
CONSTANTS
  Methods = {"GET", "UNKNOWN"}
  Slash <- Slash_
  Texts <- MCTexts
  Wildcards <- MCWildcards
  Endpoints <- MCEndpoints
  Targets <- MCTargets
  Rank <- MCRank
  MaxRegistrations = 3
INVARIANTS
  TypeOK
  LatestHandlerIsCalled
  ParametersRebuildTarget
  NotFoundOnlyIfNothingFits
  SpelledOutEndpointWins
  ReachableUnlessCovered
PROPERTY
  RoutesChangeOnlyWhereTheyFit
CHECK_DEADLOCK FALSE
