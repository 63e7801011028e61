SPECIFICATION FairSpec
CONSTANTS
  Hour = 2
  Day = 4
  FineHours = 1
  HourlyHours = 2
  TopLimit = 1
  Kinds <- MCKinds
  Windows = {1, 2, 4}
  FirstWindow = 2
  Loads = {l1, l2}
  MaxTime = 8
  MaxRows = 3
  MaxRowsOnPage = 1
  MaxClicks = 2
  MaxFailures = 1
INVARIANTS
  AnswersAddUp
  TimelineIsAChart
PROPERTY
  SettlesOnTheWindow
CHECK_DEADLOCK FALSE
