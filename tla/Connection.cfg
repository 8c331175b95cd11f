SPECIFICATION ConnectionSpec
CONSTANTS
  Socket = {s1, s2, s3, s4}
  None = None
  MaxTroubles = 3
  MaxWire = 1
INVARIANT ConnectionTypeOK
PROPERTY Recovers
