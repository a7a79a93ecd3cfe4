SPECIFICATION Spec
CONSTANTS
  MaxOverrides = 3
  MaxLosses = 2
  MaxRefusals = 1
INVARIANT NetworkConditionsAreRequested
CHECK_DEADLOCK FALSE
