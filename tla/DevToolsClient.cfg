SPECIFICATION Spec
CONSTANTS
  Root = Root
  Page = Page
  Frame = Frame
  AutoAccept = FALSE
  MaxSends = 2
  MaxEvents = 2
  MaxTotal = 3
INVARIANTS ResponsesMeetCommands DialogsBlockNoCommand ListenersHearInOrder
CHECK_DEADLOCK FALSE
