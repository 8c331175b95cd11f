CONSTANTS
  Label = {"g", "a", "b", "c", "d", "m"}
  Own = {"m"}
  Root = "g"
  MaxLen = 3
  Sender = {"p"}
  MaxFile = 4
  Received <- MCReceived
SPECIFICATION Spec
PROPERTIES RemovedWasVerified
