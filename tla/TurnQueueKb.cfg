CONSTANTS
  ann = ann
  bob = bob
  q1 = q1
  q2 = q2
  q3 = q3
  goal = goal
  step = step
  NoOne = NoOne
  Users = {ann, bob}
  Messages = {q1, q2, q3}
  Author <- People
  Kind <- AllPersons
  ClaimStore = FALSE
  Rollout = TRUE
  MaxStops = 1
  MaxEpoch = 0
  MaxTakes = 0
  MaxFaults = 1
SPECIFICATION Spec
CHECK_DEADLOCK FALSE
PROPERTIES WakeIsAccountedFor
