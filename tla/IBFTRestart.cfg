CONSTANTS
  v1 = v1
  v2 = v2
  v3 = v3
  p1 = p1
  p2 = p2
  Validator <- TwoValidators
  order <- OrderOfTwo
  Payload <- TwoPayloads
  author <- AuthorOf
  TwoFPlusOne = FALSE
  Forgetful = {v2}
  MaxHeight = 1
  MaxRound = 2
  MaxAnswers = 1
  MaxChanges = 3
SPECIFICATION Spec
ACTION_CONSTRAINT UsefulAnswers
CONSTRAINT FewChanges
PROPERTIES Implements
CHECK_DEADLOCK FALSE
