SPECIFICATION Spec
CONSTANTS
  r1 = r1
  p1 = p1
  p2 = p2
  Slots = {r1}
  Photos = {p1, p2}
  MaxEdits = 1
  MaxJobs = 1
  MaxFaults = 0
CHECK_DEADLOCK FALSE
PROPERTIES HiddenUntilRestored
