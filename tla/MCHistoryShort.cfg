SPECIFICATION FiguresSpec
CONSTANTS
  Months <- MCMonths
  Presets = {2, 3}
  Counts = {2}
  Shifts = {0}
  Rows <- MCRows
  Bills <- MCBills
  Groupings <- MCGroupings
  Entities <- MCEntities
  Accounts = {"111", "222", "333"}
  PageSize = 4
  Nothing = Nothing
INVARIANTS
  HistoryIsAsLong
CHECK_DEADLOCK FALSE
