SPECIFICATION FairSpec
CONSTANTS
  Window = 1
  MaxReports = 3
  MaxResets = 2
INVARIANTS
  TypeOK
  RunOnceInOrder
  AnswersMatch
PROPERTIES
  AnswerNotTorn
  Answered
  Recovers
  ImplementsExchange
CHECK_DEADLOCK FALSE
