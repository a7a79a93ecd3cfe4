SPECIFICATION Spec
CONSTANTS
  t1 = t1
  t2 = t2
  p1 = p1
  p2 = p2
  f1 = f1
  f2 = f2
  Tabs = {t1, t2}
  Pages = {p1, p2}
  Frames = {f1, f2}
  ParentOf <- MCParentOf
  None = None
  Root = Root
  MaxSessions = 5
  MaxEvents = 2
  MaxDepth = 5
INVARIANT CallsFindTheirView
CHECK_DEADLOCK FALSE
