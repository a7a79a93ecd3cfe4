SPECIFICATION FairSpec
CONSTANTS
  MaxMessages = 2
  MaxPipeSends = 2
  Capacity = 1
  Root = Root
  Page = Page
  Frame = Frame
  AutoAccept = TRUE
  MaxClientSends = 1
  MaxClientEvents = 1
INVARIANTS TypeOK PipesDeliver
PROPERTIES BrowserExitEndsSession OperationsReturn
CHECK_DEADLOCK FALSE
