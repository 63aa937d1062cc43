CONSTANTS
  r1 = r1
  r2 = r2
  n1 = n1
  l1 = l1
  Requests = {r1, r2}
  Nodes = {n1}
  Links = {l1}
  Capacity <- TwoOfEach
  Schedules <- MCSchedules
  MaxHeld = 2
  FailingEvents = {"arrival"}
  MaxFailures = 1
  MaxEpisodes = 2
SPECIFICATION RecordedSpec
INVARIANTS
  TransactionScope
  ReleaseFindsItsArrival
  RecorderAgrees
  NothingLeaks
PROPERTIES
  FailedStepRestores
  ImplementsAdmission
CHECK_DEADLOCK FALSE
