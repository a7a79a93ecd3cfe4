SPECIFICATION Spec
CONSTANTS
  Vendor = "goog"
  PathValues = {"v", "active"}
  SessionId = "s"
  NoHttpRequest = NoHttpRequest
  Ports = {1, 2}
  t1 = t1
  t2 = t2
  p1 = p1
  p2 = p2
  f1 = f1
  f2 = f2
  ViewTabs = {t1, t2}
  ViewPages = {p1, p2}
  ViewFrames = {f1, f2}
  ParentOf <- MCParentOf
  None = None
  Root = Root
  MaxSessions = 3
  MaxEvents = 2
  MaxDepth = 4
  MaxInputCommands = 3
  Viewport = 3
  MaxDisturbances = 2
  MaxWindowCommands = 1
  MaxInbox = 2
  MaxCalls = 2
  MaxPageChanges = 2
  MaxElementCommands = 2
  MaxAdbFaults = 1
  MaxWindowCalls = 2
  MaxWindowChanges = 2
  MaxOverrides = 2
  MaxLosses = 2
  MaxRefusals = 1
  MaxCookieCommands = 1
  MaxPageActions = 2
  MaxFedCmCommands = 3
  MaxFedCmDialogs = 3
  MaxReturnedEntries = 1
  MaxLogEvents = 2
  MaxLogCommands = 2
  MaxRecordedCommands = 4
  MaxRecordedSends = 2
  MaxRecordedEvents = 1
  MaxRecordedEntries = 11
INVARIANTS TypeOK RoutingIsStandard ClientsReachTheServer HoldersKeepViews ViewsFollowTargets InputMatchesBrowser LoadingIsLoading ElementCommandsAreExact AcceptedIsApplicable BrowserIsOwned DevicesAreExclusive WindowAnswersAreTrue OverridesHold CookiesInReach NoGhostDialog LogsAreExact ReplayIsFaithful
CHECK_DEADLOCK FALSE
