CONSTANTS
  User = {u1, u2, u3, u4}
  Quantity = {1, 2}
  Value = {1, 2, 3}
  MaxUint = 5
  Interval = 1
  MaxBids = 4
SPECIFICATION Spec
SYMMETRY MCSymmetry
INVARIANTS TypeOK OneBidEach Clearable
PROPERTIES NobodyLoses Implements
