CONSTANTS
  Label = {"g", "a", "b", "c", "d", "m"}
  Own = {"m"}
  Root = "g"
  MaxLen = 3
  Sender = {"p"}
  MaxFile = 4
  Received <- MCReceived
SPECIFICATION FairSpec
INVARIANTS TypeOK ValidIsLinked QuietReadsWhole ReceivedIsKept
PROPERTIES LoadsOldOrNew SavedIsLoaded SaveEnds ValidateEnds
