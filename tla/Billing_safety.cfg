SPECIFICATION Spec
CONSTANTS
  r1 = r1
  r2 = r2
  PRO = PRO
  BUSINESS = BUSINESS
  Slots = {r1, r2}
  Plans = {PRO, BUSINESS}
  MaxPreapprovals = 2
  MaxPayments = 1
  MaxFaults = 1
SYMMETRY Symmetry
INVARIANTS TypeOK StrayPreapprovalsAreCancelled SequentialPlan
