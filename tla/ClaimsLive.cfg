SPECIFICATION HangSpec
CONSTANTS
  p1 = p1
  p2 = p2
  p3 = p3
  NoPod = NoPod
  Pods = {p1, p2}
  Questions <- OneQuestion
  MaxReruns = 1
  MaxStalls = 1
  MaxCrashes = 1
  MaxDrains = 1
  MaxFaults = 0
PROPERTY EveryQuestionEnds
PROPERTY TakenCopyLetsGo
PROPERTY ImplementsLedger
CHECK_DEADLOCK FALSE
