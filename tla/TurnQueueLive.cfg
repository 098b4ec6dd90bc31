CONSTANTS
  ann = ann
  bob = bob
  q1 = q1
  q2 = q2
  q3 = q3
  goal = goal
  step = step
  NoOne = NoOne
  Users = {ann, bob}
  Messages = {q1, q2, q3}
  Author <- People
  Kind <- AllPersons
  ClaimStore = TRUE
  Rollout = FALSE
  MaxStops = 1
  MaxEpoch = 1
  MaxTakes = 0
  MaxFaults = 0
SPECIFICATION HangSpec
CHECK_DEADLOCK FALSE
PROPERTIES StopEndsTheTurn EpochEndsTheTurn EveryPostWakes
