SPECIFICATION FairSpec
CONSTANTS
  Requests = {1, 2, 3}
  Sessions = {s1, s2}
  Earlier = {s1}
  None = None
INVARIANTS TypeOK RepliesAreExact AnswersAreExact
PROPERTIES ImplementsService DispatchProgresses
CHECK_DEADLOCK FALSE
