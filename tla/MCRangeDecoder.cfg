SPECIFICATION Spec
CONSTANTS
  Base = 4
  Answers <- MCAnswers
INVARIANTS
  TypeOK
  NoPanic
  ExactOrError
\* When the answer has been read decodeRangeBuf returns.
CHECK_DEADLOCK FALSE
