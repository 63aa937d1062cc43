CONSTANTS
  r1 = r1
  r2 = r2
  n1 = n1
  l1 = l1
  Requests = {r1, r2}
  Nodes = {n1}
  Links = {l1}
  Capacity <- MCCapacity
  Schedules <- MCSchedules
  MaxHeld = 1
  FailingEvents = {"arrival", "leave"}
  MaxFailures = 2
  MaxEpisodes = 2
  Rewards <- MCRewards
  MaxReward = 1
SPECIFICATION OnlineSpec
INVARIANTS
  SnapshotIsLive
  RewardCreditedOnce
  NothingIsLost
CHECK_DEADLOCK FALSE
