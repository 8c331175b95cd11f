CONSTANTS
  Client = {c1, c2}
  Owner = owner
  Ether = 1
  Wealth <- MCWealth
  Rate = {0, 50}
  MaxOpenings = 3
  MaxDue = 1
SPECIFICATION Spec
SYMMETRY MCSymmetry
INVARIANTS TypeOK Solvency ClosedHoldsNothing
PROPERTIES LoanBookKept NobodySkipped
