CONSTANTS
  r1 = r1
  r2 = r2
  n1 = n1
  l1 = l1
  Requests = {r1, r2}
  Nodes = {n1}
  Links = {l1}
  Capacity <- TwoOfEach
  Schedules <- MCSchedules
  MaxHeld = 1
  FailingEvents = {"leave"}
  MaxFailures = 1
  MaxEpisodes = 1
SPECIFICATION Spec
INVARIANTS
  LeaveRetryIsSafe
CHECK_DEADLOCK FALSE
