CONSTANTS
  v1 = v1
  v2 = v2
  v3 = v3
  p1 = p1
  p2 = p2
  Validator <- ThreeValidators
  order <- OrderOfThree
  Payload <- TwoPayloads
  author <- AuthorOf
  TwoFPlusOne = FALSE
  Forgetful = {}
  MaxHeight = 1
  MaxRound = 1
  MaxAnswers = 0
  MaxChanges = 3
SPECIFICATION Spec
ACTION_CONSTRAINT UsefulAnswers
CONSTRAINT FewChanges
INVARIANTS TypeOK VotesOnce CommitJustified
PROPERTIES Implements
CHECK_DEADLOCK FALSE
