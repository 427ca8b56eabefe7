SPECIFICATION EntitySpec
CONSTANTS
  Entities <- MCEntities
  Periods <- MCPeriods
  FirstPeriod = "P90D"
  Findings <- MCFindings
  MaxRuns = 2
  MaxRequests = 2
  AgentEnabled = TRUE
  NoValue = NoValue
  None = None
  f1 = f1
  f2 = f2
  Arns <- MCArns
  Hub <- MCHub
  Instances = {"a", "b"}
  LocatorPage = 2
  DescribeLimit = 2
  BuildLimit = 2
  MaxImages = 3
  MaxFindings = 2
  ApiPage = 2
  Asks <- MCAsks
  MaxChanges = 1
INVARIANTS
  ShownIsCurrent
  StaleIsTold
  AnalysisIsOfFinding
  CachedWasAnswered
  OnlyOwnResources
  WholeEntity
  PagesAreWindows
PROPERTIES
  LoadingEnds
CHECK_DEADLOCK FALSE
