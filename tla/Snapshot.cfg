CONSTANTS
  a1 = a1
  a2 = a2
  a3 = a3
  a4 = a4
  Account <- MCAccount
  Genesis <- MCGenesis
  Epoch = 8
SPECIFICATION Spec
SYMMETRY Alike
INVARIANTS TallyExact
PROPERTIES Implements
CHECK_DEADLOCK FALSE
