CONSTANTS
  Rows <- MCRows
  Texts = {"body", "other"}
  Levels = {"low", "high"}
  Seed <- MCSeed
  Mocks <- MCMocks
  LogEntries <- MCLogEntries
  LogSeed <- MCLogSeed
  LogCap = 3
  RuleQueries = {942, 9421, 900001}
  ClickSlots = {5, 6}
  MaxSteps <- MCMaxSteps
  MaxEvents = 1
  MaxTyped = 1
SPECIFICATION Spec
INVARIANTS TypeOK Settled RowsWellFormed ToastGoesAway LogKeepsNewest FiltersAgree
PROPERTIES SyncSpec
CHECK_DEADLOCK FALSE
