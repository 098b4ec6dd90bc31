CONSTANTS
  ann = ann
  bob = bob
  q1 = q1
  q2 = q2
  q3 = q3
  goal = goal
  step = step
  NoOne = NoOne
  Users = {ann, bob}
  Messages = {q1, q2, goal, step}
  Author <- MixedAuthors
  Kind <- MixedKinds
  ClaimStore = TRUE
  Rollout = TRUE
  MaxStops = 0
  MaxEpoch = 0
  MaxTakes = 1
  MaxFaults = 0
SPECIFICATION Spec
CHECK_DEADLOCK FALSE
INVARIANTS OnlyPersonsAreFolded
PROPERTIES  WakeIsAccountedFor
