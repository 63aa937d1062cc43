CONSTANTS
  r1 = r1
  r2 = r2
  n1 = n1
  l1 = l1
  Requests = {r1, r2}
  Nodes = {n1}
  Links = {l1}
  Capacity <- MCCapacity
  Schedules <- MCSchedules
  MaxHeld = 1
  FailingEvents = {"arrival", "leave"}
  MaxFailures = 1
  MaxEpisodes = 6
  Simulations = {0, 1, 2}
  EventTimes <- MCEventTimes
  WindowOrigin = 0
  WindowSize = 2
  NumStages = 3
  RequestLists <- MCRequestLists
  SystemModes = {"online", "offline", "time_window", "changeable"}
SPECIFICATION RuntimeSpec
INVARIANTS
  EpochsComplete
  WindowsAccountForEpochs
  SlicesAreOfTheirStage
  EveryRequestStartsAlike
PROPERTIES
  RuntimeEnds
CHECK_DEADLOCK FALSE
