SPECIFICATION ReadsSpec
CONSTANTS
  Arns <- MCArns
  Hub <- MCHub
  Instances = {"a", "b"}
  LocatorPage = 2
  DescribeLimit = 2
  BuildLimit = 2
  MaxImages = 3
  MaxFindings = 2
  ApiPage = 2
  Asks <- MCAsks
  MaxChanges = 0
INVARIANTS
  AllTaggedAreListed
CHECK_DEADLOCK FALSE
