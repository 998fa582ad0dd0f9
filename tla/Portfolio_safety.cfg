SPECIFICATION Spec
CONSTANTS
  r1 = r1
  r2 = r2
  p1 = p1
  p2 = p2
  Slots = {r1, r2}
  Photos = {p1, p2}
  MaxEdits = 1
  MaxJobs = 2
  MaxFaults = 1
SYMMETRY Symmetry
CHECK_DEADLOCK FALSE
INVARIANTS TypeOK PublishedIsReviewed BanHolds
