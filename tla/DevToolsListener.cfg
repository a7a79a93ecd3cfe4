SPECIFICATION Spec
CONSTANTS
  Root = Root
  Page = Page
  Frame = Frame
  AutoAccept = FALSE
  MaxSends = 3
  MaxEvents = 0
  MaxTotal = 3
INVARIANTS SuccessHasResponse
CHECK_DEADLOCK FALSE
